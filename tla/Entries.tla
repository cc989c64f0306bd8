------------------------------ MODULE Entries ------------------------------
(***************************************************************************)
(* A config against its mold: how many entries of each element it has,     *)
(* what they hold and what it reports of its own validity, while it is     *)
(* built, generated, edited and moved to another version (lib/validate.c,  *)
(* generate.c, context_restriction.c, context_value.c, context_config.c).  *)
(*                                                                         *)
(* Abstracted: the elements below a section, where the same code runs      *)
(* again, and names the mold does not have (module Context).               *)
(***************************************************************************)
EXTENDS Versions, SequencesExt

CONSTANTS
  Elements,    \* the elements of the mold, 1..n in their order there
  Molds,       \* molds: what each element is
  Latest,      \* the version of the mold
  AllVersions, \* versions of configs
  Values,      \* what entries may hold
  None,        \* no child under construction
  MaxEntries   \* bound: entries of an element a client adds

Kinds == {"NUMBER", "ENUM", "SECTION"}

\* An element as Mold builds it: its defaults in the order of their versions,
\* one of each; its restrictions, of which minimums and maximums are numbers.
IsElement(m) ==
  /\ m.kind \in Kinds
  /\ m.defaults \in Seq([value : Values, introduced : AllVersions]) /\ m.defaults # <<>>
  /\ \A i, j \in DOMAIN m.defaults :
       i < j => Compare(m.defaults[i].introduced, m.defaults[j].introduced) < 0
  /\ DOMAIN m.restrictions \subseteq Nat
  /\ \A i \in DOMAIN m.restrictions :
       LET r == m.restrictions[i] IN
       r.introduced \in AllVersions /\ (r.type \in {"MIN", "MAX"} => r.argument \in Nat)

ASSUME EntriesAssumption ==
  /\ IsFiniteSet(Elements) /\ Elements = 1..Cardinality(Elements)
  /\ AllVersions \subseteq ((Nat \ {0}) \X Nat)
  /\ <<1, 0>> \in AllVersions
  /\ Latest \in AllVersions
  /\ MaxEntries \in Nat
  /\ \A m \in Molds : DOMAIN m = Elements /\ \A e \in Elements : IsElement(m[e])

\* An entry in the element storage and its CONTEXT_STATE_INVALID.
Entry == [value : Values, invalid : BOOLEAN]

VARIABLES
  mold,     \* of each element its kind, defaults, restrictions, deprecated
  config,   \* [state, invalid]
  version,  \* cf_version
  entries,  \* cf_elements: the entries of each element
  child,    \* the keyval or section under construction: [element, value]
  checked   \* history: the version the config was finalized in, valid, and has

vars == <<mold, config, version, entries, child, checked>>

TypeOK ==
  /\ mold \in Molds
  /\ config \in [state : {"none", "constructing", "finalized"}, invalid : BOOLEAN]
  /\ version \in AllVersions /\ Compare(version, Latest) <= 0
  /\ entries \in [Elements -> Seq(Entry)]
  /\ child \in [element : Elements, value : Values] \cup {None}
  /\ checked \in AllVersions \cup {NoVersion}

Init ==
  /\ mold \in Molds
  /\ config = [state |-> "none", invalid |-> FALSE]
  /\ version = <<1, 0>>
  /\ entries = [e \in Elements |-> <<>>]
  /\ child = None
  /\ checked = NoVersion
----------------------------------------------------------------------------
Introduced(e) == [i \in DOMAIN mold[e].defaults |-> mold[e].defaults[i].introduced]

\* How many entries of the element a config of the version has.
BoundsOf(e, v) == Bounds(mold[e].restrictions, Introduced(e)[1], mold[e].deprecated, v)

\* validate_exclusive_restrictions: a section has no value to check.
Refused(e, v, value) ==
  mold[e].kind # "SECTION" /\ Violates(mold[e].restrictions, mold[e].kind = "ENUM", v, value)

\* The two comparisons of validate_inclusive_restrictions with the maximum.
Fits(e, v, size) ==
  LET max == BoundsOf(e, v).max IN ~ (max = -1 /\ size > 0) /\ ~ (max > 0 /\ size > max)

\* Mutation: the minimum is not looked at.
InclusiveByMaximum(v, given) == \A e \in Elements : Fits(e, v, Len(given[e]))

\* validate_inclusive_restrictions: the number of entries of each element.
InclusiveHolds(v, given) ==
  \A e \in Elements : Len(given[e]) >= BoundsOf(e, v).min /\ Fits(e, v, Len(given[e]))

\* validate_children: every entry is validated again and marked.
Revalidated(v, given) ==
  [e \in Elements |->
     [i \in DOMAIN given[e] |->
        [value |-> given[e][i].value, invalid |-> Refused(e, v, given[e][i].value)]]]

NoneInvalid(given) == \A e \in Elements : \A i \in DOMAIN given[e] : ~given[e][i].invalid

(* dc_config_finalize, its dx_validate_context of the config: a config     *)
(* that is not valid is finalized too.                                     *)
Finalized(v, given) ==
  /\ entries' = Revalidated(v, given)
  /\ config' = [state |-> "finalized", invalid |-> ~InclusiveHolds(v, given)]
  /\ checked' = IF InclusiveHolds(v, given) /\ NoneInvalid(entries') THEN v ELSE NoVersion

\* dc_config_begin
ConfigBegin ==
  /\ config.state = "none"
  /\ config' = [state |-> "constructing", invalid |-> FALSE]
  /\ UNCHANGED <<mold, version, entries, child, checked>>

ConfigFinalize ==
  /\ config.state = "constructing"
  /\ Finalized(version, entries)
  /\ UNCHANGED <<mold, version, child>>

(* dc_set_version of a config, constructing or finalized: at most the      *)
(* version of the mold, and nothing is validated again.                    *)
SetVersion(v) ==
  /\ config.state # "none"
  /\ Compare(Latest, v) >= 0
  /\ version' = v
  /\ checked' = IF v = version THEN checked ELSE NoVersion
  /\ UNCHANGED <<mold, config, entries, child>>
----------------------------------------------------------------------------
\* Mutation: the oldest default counts for every version.
ValueOldest(e, v) == mold[e].defaults[1].value

\* What an element is generated with: the default of the version.
Value(e, v) == mold[e].defaults[Active(Introduced(e), v)].value

\* How many entries of the element dc_finalize stores when the minimum is
\* generated below a config in the state that has the given ones.
Stored(e, v, state, given) ==
  LET b == BoundsOf(e, v)  wrong == Refused(e, v, Value(e, v)) IN
  CASE state = "constructing" -> IF wrong THEN Min({1, b.min}) ELSE b.min
    [] state = "finalized" /\ wrong -> 0
    [] state = "finalized" /\ ~wrong ->
         IF b.max = 0 THEN b.min ELSE Min({b.min, Max({0, b.max - Len(given[e])})})

(* generate_config_from_mold_recursive_step on the elements of the config  *)
(* itself: the minimum of each is added in the order of the mold, up to    *)
(* the first entry that is not valid or is refused.                        *)
Generated(v, state, given) ==
  LET stops == {e \in Elements : /\ BoundsOf(e, v).min > 0
                                 /\ \/ Refused(e, v, Value(e, v))
                                    \/ Stored(e, v, state, given) < BoundsOf(e, v).min}
      added(e) == [i \in 1..Stored(e, v, state, given) |->
                     [value |-> Value(e, v), invalid |-> Refused(e, v, Value(e, v))]]
  IN [e \in Elements |-> IF \A stop \in stops : e <= stop THEN given[e] \o added(e) ELSE given[e]]

\* disir_generate_config_from_mold, which goes on whatever became of that.
Generate(v) ==
  /\ config.state = "none"
  /\ Compare(Latest, v) >= 0
  /\ version' = v
  /\ Finalized(v, Generated(v, "constructing", entries))
  /\ UNCHANGED <<mold, child>>

\* dc_generate_from_config_root of the config
GenerateRoot ==
  /\ config.state # "none"
  /\ entries' = Generated(version, config.state, entries)
  /\ \A e \in Elements : Len(entries'[e]) <= MaxEntries
  /\ UNCHANGED <<mold, config, version, child, checked>>
----------------------------------------------------------------------------
\* dc_begin, dc_set_name and dc_set_value of a keyval or section.
BeginChild(e, value) ==
  /\ config.state # "none"
  /\ child = None
  /\ child' = [element |-> e, value |-> value]
  /\ UNCHANGED <<mold, config, version, entries, checked>>

\* Mutation: one entry more than the maximum is let in.
TooManyByOne(e) ==
  LET max == BoundsOf(e, version).max IN max # 0 /\ max < Len(entries[e])

\* validate_finalized_parent_constructing_child_violating_max_restriction
TooMany(e) ==
  LET max == BoundsOf(e, version).max IN max # 0 /\ max <= Len(entries[e])

\* validate_config_keyval, validate_config_section of a new entry
Accepts(e, value) ==
  /\ ~ (config.state = "finalized" /\ TooMany(e))
  /\ ~Refused(e, version, value)

(* dc_finalize of the child: one that is not valid is stored, marked, in a *)
(* config under construction and refused by one that is finalized.         *)
FinalizeChild ==
  LET e == child.element  ok == Accepts(child.element, child.value) IN
  /\ child # None
  /\ Len(entries[e]) < MaxEntries
  /\ ok \/ config.state = "constructing"
  /\ entries' = [entries EXCEPT ![e] = Append(@, [value |-> child.value, invalid |-> ~ok])]
  /\ child' = None
  /\ UNCHANGED <<mold, config, version, checked>>

\* dc_destroy of the child, as after a refused dc_finalize.
DestroyChild ==
  /\ child # None
  /\ child' = None
  /\ UNCHANGED <<mold, config, version, entries, checked>>

\* Mutation: the value is checked where the entry is marked invalid only.
SettableMarked(e, i, value) == entries[e][i].invalid => ~Refused(e, version, value)

\* dc_set_value_integer, _float, _enum on a finalized entry: the value of one
\* that is marked invalid is not checked.
Settable(e, i, value) == entries[e][i].invalid \/ ~Refused(e, version, value)

\* dc_set_value on a finalized entry: the mark is left as it is.
SetValue(e, i, value) ==
  /\ mold[e].kind # "SECTION"
  /\ Settable(e, i, value)
  /\ entries' = [entries EXCEPT ![e][i].value = value]
  /\ UNCHANGED <<mold, config, version, child, checked>>

\* dc_keyval_set_default: neither the value nor the mark is looked at, so a
\* default that is refused ends what validity the config had.
SetDefault(e, i, v) ==
  /\ mold[e].kind # "SECTION"
  /\ entries' = [entries EXCEPT ![e][i].value = Value(e, v)]
  /\ checked' = IF Refused(e, version, Value(e, v)) THEN NoVersion ELSE checked
  /\ UNCHANGED <<mold, config, version, child>>

\* dc_destroy of an entry: the config is not validated again.
RemoveEntry(e, i) ==
  /\ entries' = [entries EXCEPT ![e] = RemoveAt(@, i)]
  /\ UNCHANGED <<mold, config, version, child, checked>>

Next ==
  \/ ConfigBegin \/ ConfigFinalize \/ GenerateRoot \/ FinalizeChild \/ DestroyChild
  \/ \E v \in AllVersions : SetVersion(v) \/ Generate(v)
  \/ \E e \in Elements, value \in Values : BeginChild(e, value)
  \/ \E e \in Elements : \E i \in DOMAIN entries[e] :
       \/ RemoveEntry(e, i)
       \/ \E value \in Values : SetValue(e, i, value)
       \/ \E v \in AllVersions : SetDefault(e, i, v)

Spec == Init /\ [][Next]_vars
----------------------------------------------------------------------------
(* PROPERTIES                                                              *)

\* What a mold demands of a config of the version, whatever it is marked.
Meets(v) ==
  \A e \in Elements :
    LET b == BoundsOf(e, v) IN
    /\ b.min <= Len(entries[e])
    /\ b.max = -1 => entries[e] = <<>>
    /\ b.max > 0 => Len(entries[e]) <= b.max
    /\ \A i \in DOMAIN entries[e] : ~Refused(e, v, entries[e][i].value)

\* disir_config_valid: dx_invalid_elements finds no context marked invalid.
ReportsValid == ~config.invalid /\ NoneInvalid(entries)

(* disir/config.h, disir_config_valid: a config is reported valid if, and  *)
(* only if, it contains nothing that is invalid.                           *)
ReportIsTrue == config.state = "finalized" => (ReportsValid <=> Meets(version))

(* A config that becomes finalized reports what is true of it, whatever    *)
(* was set, removed and marked while it was constructed.                   *)
FinalizeReportsTruth == [][config'.state = "finalized" /\ config.state # "finalized" =>
                             (ReportsValid' <=> Meets(version)')]_vars

(* A config that was valid when finalized, and has kept its version since, *)
(* has at no time more entries of an element than its mold allows, nor one *)
(* that holds a value its mold refuses, whatever was added, generated, set *)
(* and removed, unless dc_keyval_set_default put a default it refuses: only *)
(* entries that the mold demands can be missing.                           *)
ValidStaysWithinMold ==
  checked # NoVersion =>
    \A e \in Elements :
      LET b == BoundsOf(e, version) IN
      /\ b.max = -1 => entries[e] = <<>>
      /\ b.max > 0 => Len(entries[e]) <= b.max
      /\ \A i \in DOMAIN entries[e] : ~Refused(e, version, entries[e][i].value)

\* The default introduced last before or in the version.
IsLatestDefault(e, v, default) ==
  /\ default \in Range(mold[e].defaults)
  /\ Compare(default.introduced, v) <= 0
  /\ \A other \in Range(mold[e].defaults) :
       Compare(other.introduced, v) <= 0 => Compare(other.introduced, default.introduced) <= 0

(* A config generated for a version is valid, unless the default of some   *)
(* element it demands is itself a value the mold refuses.                  *)
GeneratedIsValid ==
  [][config.state = "none" /\ config'.state = "finalized" =>
       (ReportsValid' <=>
          \A e \in Elements : BoundsOf(e, version').min > 0 =>
            \E default \in Range(mold[e].defaults) :
              /\ IsLatestDefault(e, version', default)
              /\ ~Refused(e, version', default.value))]_vars
=============================================================================
