---------------------------- MODULE ConfigTree ----------------------------
(***************************************************************************)
(* A config as a tree: setting and getting keyvals by their name path      *)
(* (lib/disir_config_query.c, lib/query.c), with the sections that a set   *)
(* creates on its way (lib/generate.c); writing it to JSON and reading it  *)
(* back (lib/fslib/json); and comparing two configs (lib/compare.c).       *)
(*                                                                         *)
(* An element is known by its path: the names and indexes from the root,   *)
(* as in first@4.second@2.third.  A tree is a function from the paths of   *)
(* its elements; entries of a name have the indexes 0, 1 and so on.  All   *)
(* of it is at one version of one mold: for versions see Entries.          *)
(***************************************************************************)
EXTENDS Integers, Sequences, FiniteSets, FiniteSetsExt, SequencesExt

CONSTANTS
  Names,      \* the names of elements
  Unknown,    \* a name that is in no mold
  Molds,      \* the molds: functions from name paths to elements
  Values,     \* the values of keyvals
  Indexes,    \* what users write behind the '@' of a query
  Queries,    \* the queries that users write: sequences of <<name, index>>
  MaxIndex,   \* bound: the largest index of an entry
  MaxEdited,  \* bound: the largest file that is edited
  IntSize,    \* how many values an int takes: strtol is assigned to one
  Strings,    \* those of the values that are strings
  Close,      \* the pairs of different numbers that dx_value_compare takes as equal
  AsRead,     \* the value that is read from the JSON text of each value
  Unreadable  \* ... or this, when the reader has no case for the number

Section == "section"     \* in place of a value
Malformed == -2          \* an index that is no number, or is missing
Plain == -1              \* in a text: not in an array

\* A member that users put into a file.
UnknownMember == <<<<Unknown, Plain>>>>

\* An element of a mold, which is below the sections of the mold.  What a keyval
\* allows are the values of its type that its restrictions hold for.
IsMoldElement(m, names) ==
  /\ names \in Seq(Names) \ {<<>>, <<Unknown>>}
  /\ m[names].min \in 0..MaxIndex + 1 /\ m[names].max \in Nat
  /\ m[names].max # 0 => m[names].min <= m[names].max
  /\ \/ m[names].kind = "SECTION"
     \/ /\ m[names].kind = "KEYVAL"
        /\ m[names].allowed \subseteq Values /\ m[names].default \in Values
  /\ \A k \in 1..Len(names) - 1 :
       SubSeq(names, 1, k) \in DOMAIN m /\ m[SubSeq(names, 1, k)].kind = "SECTION"

ASSUME TreeAssumption ==
  /\ Unknown \in Names
  /\ \A m \in Molds : IsFiniteSet(DOMAIN m) /\ \A names \in DOMAIN m : IsMoldElement(m, names)
  /\ Section \notin Values
  /\ \A q \in Queries : q \in Seq(Names \X Int) \ {<<>>}
  /\ Strings \subseteq Values
  /\ Close \subseteq (Values \ Strings) \X (Values \ Strings)
  /\ \A c \in Close : <<c[2], c[1]>> \in Close
  /\ AsRead \in [Values -> Values \cup {Unreadable}]
  /\ MaxIndex \in Nat /\ IntSize \in Nat /\ IntSize > MaxIndex

VARIABLES
  mold,      \* the mold of the config
  elements,  \* the config in memory: a tree of [value, invalid]
  text       \* the file: a tree of values; empty when nothing was written to it

treeVars == <<mold, elements, text>>

NamesOf(p) == [k \in DOMAIN p |-> p[k][1]]
Upto(p, k) == SubSeq(p, 1, k)
Entry(parent, name, i) == Append(parent, <<name, i>>)

(* dc_find_elements: the entries of a name below a parent. *)
EntriesOf(t, parent, name) ==
  {p \in DOMAIN t : Len(p) = Len(parent) + 1 /\ Last(p)[1] = name /\ Front(p) = parent}
Count(t, parent, name) == Cardinality(EntriesOf(t, parent, name))

\* The paths that elements of the mold can have below p.
PathsOf(names, indexes) ==
  {[k \in 1..Len(names) |-> <<names[k], at[k]>>] : at \in [1..Len(names) -> indexes]}
PathsBelow(m, p) ==
  {r \in UNION {PathsOf(names, 0..MaxIndex \cup {p[k][2] : k \in DOMAIN p}) :
                  names \in {n \in DOMAIN m : Len(n) > Len(p)}} :
     Upto(r, Len(p)) = p}

\* The refusals of dc_set_value_* and of the validation of a keyval.
Accepts(names, value) == names \in DOMAIN mold /\ value \in mold[names].allowed

\* get_value_input_check: of a keyval the mold lacks, only a string can be got.
Gettable(names, value) == names \in DOMAIN mold \/ value \in Strings

(* dx_value_compare returns the difference of two numbers as an int: what  *)
(* is less than 1 apart, or a multiple of 2^32, is the same to it.         *)
Same(v, w) == v = w \/ <<v, w>> \in Close
----------------------------------------------------------------------------
(* GENERATION                                                              *)

(* generate_config_from_mold_recursive_step: the required entries below p. *)
RequiredBelow(m, p) ==
  {r \in PathsBelow(m, p) :
     \A k \in Len(p) + 1..Len(r) : r[k][2] < m[NamesOf(Upto(r, k))].min}

Default(m, p) == IF m[NamesOf(p)].kind = "SECTION" THEN Section ELSE m[NamesOf(p)].default

\* The tree in which p was begun, with the elements that are generated below it.
WithGenerated(m, t, p) ==
  LET required == RequiredBelow(m, p) IN
  [e \in DOMAIN t \cup required |->
     IF e \in required THEN [value |-> Default(m, e), invalid |-> FALSE] ELSE t[e]]

\* The tree with a value at p; a mark stays.
WithValue(t, p, value) ==
  [e \in DOMAIN t \cup {p} |->
     IF e = p THEN [value |-> value, invalid |-> p \in DOMAIN t /\ t[p].invalid] ELSE t[e]]

\* dx_validate_context refuses a section with such a default below it.
GeneratesInvalid(m, p) ==
  \E r \in RequiredBelow(m, p) :
    Default(m, r) # Section /\ Default(m, r) \notin m[NamesOf(r)].allowed
----------------------------------------------------------------------------
(* QUERIES                                                                 *)

(* dx_query_resolve_name: the index is read as a long and kept as an int.  *)
AsInt(index) == IF index < 0 THEN index ELSE index % IntSize
PathOf(q) == [k \in DOMAIN q |-> <<q[k][1], AsInt(q[k][2])>>]

(* query_resolve_name_to_context, name by name from the root. *)
Resolve(t, q) ==
  LET missing == {k \in DOMAIN q : Upto(PathOf(q), k) \notin DOMAIN t}
      k == Min(missing)
  IN IF missing = {} THEN "OK"
     ELSE IF q[k][2] = Malformed THEN "INVALID_ARGUMENT"
     ELSE IF k > 1 /\ t[Upto(PathOf(q), k - 1)].value # Section THEN "WRONG_CONTEXT"
     ELSE "NOT_EXIST"

(* config_get_keyval_generic *)
Get(t, q) ==
  LET p == PathOf(q) IN
  IF Resolve(t, q) = "OK" /\ t[p].value # Section /\ Gettable(NamesOf(p), t[p].value)
  THEN [ok |-> TRUE, value |-> t[p].value] ELSE [ok |-> FALSE]

\* Mutation: one entry more than the maximum is created.
CreatableBeyond(t, p, kind) ==
  LET names == NamesOf(p)  index == Last(p)[2] IN
  /\ index = Count(t, Front(p), Last(p)[1])
  /\ names \in DOMAIN mold /\ mold[names].kind = kind
  /\ mold[names].max = 0 \/ index <= mold[names].max

(* What dx_query_ensure_ancestors asks of a section, and                   *)
(* config_ensure_keyval_leaf of a keyval, before it is begun: it is the    *)
(* next entry of its name, the mold has it, and has room for it.           *)
Creatable(t, p, kind) ==
  LET names == NamesOf(p)  index == Last(p)[2] IN
  /\ index = Count(t, Front(p), Last(p)[1])
  /\ names \in DOMAIN mold /\ mold[names].kind = kind
  /\ mold[names].max = 0 \/ index < mold[names].max

\* What becomes of the section created highest up when a later step of the
\* query fails: it is left alone when it is the section created last
\* (current_context), as if it had been destroyed in the loop.
Abandoned(top, current) ==
  IF top = <<>> THEN "none" ELSE IF top = current THEN "leaked" ELSE "destroyed"

(* dx_query_ensure_ancestors, the name at place j: a section is found, or    *)
(* created with its required elements.                                     *)
EnsureNext(r, q, j) ==
  LET p == PathOf(q)  here == Upto(p, j)  first == r.top = <<>>
      fail(ancestor) == [r EXCEPT !.ok = FALSE, !.ancestor = ancestor]
  IN IF ~r.ok THEN r
     ELSE IF q[j][2] = Malformed THEN fail(Abandoned(r.top, Upto(p, j - 1)))
     ELSE IF j = Len(q) THEN r
     ELSE IF here \in DOMAIN r.tree
     THEN IF r.tree[here].value = Section THEN r ELSE fail(Abandoned(r.top, here))
     ELSE IF ~Creatable(r.tree, here, "SECTION") THEN fail(Abandoned(r.top, Upto(p, j - 1)))
     ELSE IF GeneratesInvalid(mold, here) THEN fail(IF first THEN "destroyed twice" ELSE "destroyed")
     ELSE [r EXCEPT !.top = IF first THEN here ELSE @,
                    !.tree = WithGenerated(mold, WithValue(@, here, Section), here)]

(* ... and name by name from the root, down to the parent of the keyval.   *)
Ensured(t, q) ==
  LET f[j \in 0..Len(q)] ==
        IF j = 0 THEN [ok |-> TRUE, tree |-> t, top |-> <<>>, ancestor |-> "none"]
        ELSE EnsureNext(f[j - 1], q, j)
  IN f[Len(q)]

\* Mutation: what was created for a set that failed stays.
LeftOver(t, created) == created

\* What a set that failed leaves of the config.
LeftBy(t, created) == t

(* config_set_keyval_generic.  dc_set_value on a keyval that is marked     *)
(* invalid stores any value, and returns INVALID_CONTEXT.                  *)
SetResult(t, q, value) ==
  LET p == PathOf(q)  e == Ensured(t, q)  exists == p \in DOMAIN e.tree
      stored == WithValue(e.tree, p, value)
      result(tree, ok, ancestor) == [tree |-> tree, ok |-> ok, ancestor |-> ancestor]
  IN CASE Resolve(t, q) = "OK" ->
            IF t[p].value # Section /\ (t[p].invalid \/ Accepts(NamesOf(p), value))
            THEN result(stored, ~t[p].invalid, "none") ELSE result(t, FALSE, "none")
       [] Resolve(t, q) = "NOT_EXIST" ->
            IF ~e.ok THEN result(LeftBy(t, e.tree), FALSE, e.ancestor)
            ELSE IF /\ IF exists THEN e.tree[p].value # Section ELSE Creatable(e.tree, p, "KEYVAL")
                    /\ Accepts(NamesOf(p), value)
            THEN result(stored, TRUE, IF e.top = <<>> THEN "none" ELSE "stored")
            ELSE result(LeftBy(t, e.tree), FALSE, IF e.top = <<>> THEN "none" ELSE "destroyed")
       [] OTHER -> result(t, FALSE, "none")
----------------------------------------------------------------------------
(* JSON                                                                    *)

\* Mutation: an element found again replaces the one before.
TextPathLast(t, p) == [k \in DOMAIN p |-> <<p[k][1], Plain>>]

(* serialize_duplicate_entries: an entry that is alone is a plain member,  *)
(* several make an array.                                                  *)
TextPath(t, p) ==
  [k \in DOMAIN p |-> IF Count(t, Upto(p, k - 1), p[k][1]) = 1 THEN <<p[k][1], Plain>> ELSE p[k]]

(* ConfigWriter::set_keyval gets each value, and gives up at the first     *)
(* that cannot be got.                                                     *)
Writable(t) == \A p \in DOMAIN t : t[p].value # Section => Gettable(NamesOf(p), t[p].value)

(* ConfigWriter::serialize, of what is writable: an empty section is an    *)
(* empty object.                                                           *)
Serialized(t) ==
  [r \in {TextPath(t, p) : p \in DOMAIN t} |->
     t[CHOOSE p \in DOMAIN t : TextPath(t, p) = r].value]

\* ConfigReader::unserialize_type knows int, string, real and boolean values.
Readable(json) == Unreadable \notin {AsRead[v] : v \in Range(json) \ {Section}}

(* ConfigReader::_unserialize_node: each member becomes an entry of its    *)
(* name.                                                                   *)
ReadPath(r) == [k \in DOMAIN r |-> IF r[k][2] = Plain THEN <<r[k][1], 0>> ELSE r[k]]

Content(json) ==
  [p \in {ReadPath(r) : r \in DOMAIN json} |-> json[CHOOSE r \in DOMAIN json : ReadPath(r) = p]]

\* A keyval the mold lacks or whose value it refuses is read, and marked.
Unserialized(json) ==
  LET content == Content(json)  read(v) == IF v = Section THEN v ELSE AsRead[v] IN
  [p \in DOMAIN content |->
     LET value == read(content[p]) IN
     [value |-> value, invalid |-> value # Section /\ ~Accepts(NamesOf(p), value)]]
----------------------------------------------------------------------------
(* COMPARING                                                               *)

NamesBelow(t, parent) ==
  {Last(p)[1] : p \in {r \in DOMAIN t : Len(r) = Len(parent) + 1 /\ Front(r) = parent}}

\* Mutation: the elements that only the right hand side has are not looked for.
NotInLhsIgnored(lhs, rhs, parent) == {}

(* compare_all_elements, second loop: the names that only rhs has. *)
NotInLhs(lhs, rhs, parent) ==
  {Entry(parent, name, 0) : name \in NamesBelow(rhs, parent) \ NamesBelow(lhs, parent)}

\* The pairs of a name, compared one by one, and what either side has more.
DiffOfName(f, lhs, rhs, parent, name) ==
  LET left == Count(lhs, parent, name)  right == Count(rhs, parent, name) IN
  (UNION {f[Entry(parent, name, i)] : i \in 0..Min({left, right}) - 1}) \cup
  {Entry(parent, name, i) : i \in Min({left, right})..Max({left, right}) - 1}

(* diff_compare_contexts_with_report: the report of two elements.          *)
DiffReport(lhs, rhs) ==
  LET f[p \in DOMAIN lhs \cup {<<>>}] ==
        IF p # <<>> /\ ~Same(lhs[p].value, rhs[p].value) THEN {p}
        ELSE IF p # <<>> /\ lhs[p].value # Section THEN {}
        ELSE NotInLhs(lhs, rhs, p) \cup
             UNION {DiffOfName(f, lhs, rhs, p, name) : name \in NamesBelow(lhs, p)}
  IN f[<<>>]

(* dc_compare: OK, or CONFLICT when something was reported. *)
ComparesEqual(lhs, rhs) == DiffReport(lhs, rhs) = {}
----------------------------------------------------------------------------
\* disir_generate_config_from_mold, when it returns OK; no file yet.
TreeInit ==
  /\ mold \in Molds
  /\ ~GeneratesInvalid(mold, <<>>)
  /\ elements = WithGenerated(mold, <<>>, <<>>)
  /\ text = <<>>

\* disir_config_set_keyval_*, dc_config_set_keyval_*
Set(q, value) ==
  LET r == SetResult(elements, q, value) IN
  /\ \A p \in DOMAIN r.tree : \A k \in DOMAIN p : p[k][2] <= MaxIndex
  /\ elements' = r.tree
  /\ UNCHANGED <<mold, text>>

\* fslib_plugin_config_write: the file is emptied when it is opened, and stays so
\* when the config cannot be serialized.
Write ==
  /\ text' = IF Writable(elements) THEN Serialized(elements) ELSE <<>>
  /\ UNCHANGED <<mold, elements>>

\* fslib_json_config_fd_read; a text that cannot be read gives no config.
Read ==
  /\ text # <<>>
  /\ Readable(text)
  /\ elements' = Unserialized(text)
  /\ UNCHANGED <<mold, text>>

Unmarked(t) == \A p \in DOMAIN t : ~t[p].invalid

\* Somebody edits a value in the file, or puts a keyval there that the mold does
\* not know (bounds: one mistake at a time, in a small file just written).
Edit(r, value) ==
  /\ text = Serialized(elements) /\ Unmarked(elements)
  /\ Cardinality(DOMAIN text) <= MaxEdited
  /\ r \in DOMAIN text => text[r] # Section
  /\ text' = [e \in DOMAIN text \cup {r} |-> IF e = r THEN value ELSE text[e]]
  /\ UNCHANGED <<mold, elements>>

TreeNext ==
  \/ \E q \in Queries, value \in Values : Set(q, value)
  \/ Write \/ Read
  \/ \E value \in Values : \E r \in DOMAIN text \cup {UnknownMember} : Edit(r, value)

TreeSpec == TreeInit /\ [][TreeNext]_treeVars
----------------------------------------------------------------------------
(* PROPERTIES                                                              *)

TreeTypeOK ==
  /\ mold \in Molds
  /\ \A p \in DOMAIN elements :
       /\ Len(p) > 1 => Front(p) \in DOMAIN elements /\ elements[Front(p)].value = Section
       /\ \A i \in 0..Last(p)[2] : Entry(Front(p), Last(p)[1], i) \in DOMAIN elements
       /\ elements[p].value \in Values \cup {Section}
       /\ elements[p].invalid \in BOOLEAN

\* The sections of the path that the config does not have.
NewAncestors(t, p) == {Upto(p, k) : k \in 1..Len(p) - 1} \ DOMAIN t

(* Whatever is in a config: a set that returns OK is read back by the same *)
(* query, leaves every other element as it was, and creates the missing    *)
(* sections of the path with what the mold requires below them, and no     *)
(* more; a set that fails leaves no trace, unless it is on a keyval that   *)
(* was marked invalid, which takes the value all the same.                 *)
SetIsExact ==
  \A q \in Queries, value \in Values :
    LET r == SetResult(elements, q, value)  p == PathOf(q) IN
    IF r.ok
    THEN /\ Get(r.tree, q) = [ok |-> TRUE, value |-> value]
         /\ \A e \in DOMAIN elements : e # p => e \in DOMAIN r.tree /\ r.tree[e] = elements[e]
         /\ \A e \in DOMAIN r.tree \ DOMAIN elements : e # p =>
              \/ e \in NewAncestors(elements, p)
              \/ \E a \in NewAncestors(elements, p) : /\ e \in RequiredBelow(mold, a)
                                                    /\ r.tree[e].value = Default(mold, e)
    ELSE r.tree = elements \/ (p \in DOMAIN elements /\ elements[p].invalid)

(* The element that a query with a plain index names is the one it sets.   *)
SetIsWhereWritten ==
  \A q \in Queries, value \in Values :
    SetResult(elements, q, value).ok => q \in DOMAIN SetResult(elements, q, value).tree

(* Every section that a set created is in the elements, or destroyed.        *)
AncestorsAccountedFor ==
  \A q \in Queries, value \in Values :
    SetResult(elements, q, value).ancestor \in {"none", "stored", "destroyed"}

\* What the mold demands of each parent and each keyval.
Meets(t) ==
  \A names \in DOMAIN mold :
    /\ \A parent \in {<<>>} \cup DOMAIN t : NamesOf(parent) = Front(names) =>
         LET n == Count(t, parent, Last(names)) IN
         mold[names].min <= n /\ (mold[names].max # 0 => n <= mold[names].max)
    /\ \A p \in DOMAIN t : NamesOf(p) = names /\ mold[names].kind = "KEYVAL" =>
         t[p].value \in mold[names].allowed

(* disir_config_valid: a config in which nothing is marked invalid holds   *)
(* to its mold at every depth, in the number of its entries and in their   *)
(* values, however it was set, written and read.                           *)
ValidMeetsMold == Unmarked(elements) => Meets(elements)

ValuesOf(t) == [p \in DOMAIN t |-> t[p].value]

(* A config whose write succeeds is read back with the same elements and   *)
(* exactly the same values, whatever is in it.                             *)
RoundTrip ==
  Writable(elements) =>
    /\ Readable(Serialized(elements))
    /\ ValuesOf(Unserialized(Serialized(elements))) = ValuesOf(elements)

(* What an edited file holds can be written again once it was read.        *)
WhatIsReadIsWritable == Writable(elements)

\* The config that is in the file, if there is one.
Other == IF Readable(text) THEN Unserialized(text) ELSE elements

\* The same elements, with values that dx_value_compare does not tell apart.
SameAsFarAsCompared(lhs, rhs) ==
  /\ DOMAIN lhs = DOMAIN rhs
  /\ \A p \in DOMAIN lhs : Same(lhs[p].value, rhs[p].value)

(* dc_compare returns OK exactly when both configs have the same elements, *)
(* at every depth, and at each of them values that dx_value_compare does   *)
(* not tell apart; it returns the same with its arguments swapped, though  *)
(* it walks the names of one side and the rest of the other.               *)
CompareTellsDifference ==
  /\ ComparesEqual(elements, Other) <=> SameAsFarAsCompared(elements, Other)
  /\ ComparesEqual(Other, elements) <=> SameAsFarAsCompared(elements, Other)

(* include/disir/context.h:262 of dc_compare: "DISIR_STATUS_CONFLICT when  *)
(* objects differ."                                                        *)
ConflictWhenObjectsDiffer ==
  ValuesOf(elements) # ValuesOf(Other) => ~ComparesEqual(elements, Other)
=============================================================================
