------------------------------ MODULE MoldText ------------------------------
(***************************************************************************)
(* Writing a mold to JSON and reading it back, with the file that an entry *)
(* overrides the mold of its namespace by (lib/fslib/json:                 *)
(* json_serialize_mold.cc, json_unserialize_mold.cc,                       *)
(* json_mold_namespace_override.cc).                                       *)
(*                                                                         *)
(* The mold is that of module Mold, with its one keyval; the text has the  *)
(* entries of the queues of the keyval in their order.  A default stands   *)
(* for its value; documentation and types are left out.                    *)
(***************************************************************************)
EXTENDS Mold

CONSTANT MaxOverrides  \* bound: the length of the list of overrides of a keyval

ASSUME MoldTextAssumption == MaxOverrides \in Nat

\* The versions of the overrides of a keyval, in the order of their file.
OverrideLists == SeqOf(AllVersions, MaxOverrides)

(* parse_override_sync_mapping gives each override the version of the      *)
(* namespace mold its own version stands for.  Each has a value of its own. *)
OverridesOf(list) ==
  LET values == SetToSeq({d \in Defaults : default[d].state = "free"})
  IN [i \in DOMAIN list \cap DOMAIN values |-> <<values[i], list[i]>>]
----------------------------------------------------------------------------
(* serialize_mold_keyval: the defaults and the restrictions of the keyval. *)
Text == [defaults |-> [i \in DOMAIN kv_default_queue |->
                         <<kv_default_queue[i], Introduced(kv_default_queue)[i]>>],
         restrictions |-> kv_restrictions_queue,
         deprecated |-> keyval.deprecated]

VersionsOf(queue) == [i \in DOMAIN queue |-> queue[i][2]]

\* Mutation: each default that is read comes first.
InsertedFirst(queue, entry) == <<entry>> \o queue

\* unserialize_defaults, the next of the list; dx_default_finalize.
Inserted(queue, entry) == InsertAt(queue, Position(VersionsOf(queue), entry[2]), entry)

\* populate_mold_entry_override: a set ordered by version, which keeps the first
\* override of each version.
Applied(list) ==
  LET kept == {OverridesOf(list)[i] : i \in {i \in DOMAIN list : \A j \in 1..i - 1 : list[j] # list[i]}}
  IN SetToSortSeq(kept, LAMBDA a, b : Compare(a[2], b[2]) < 0)

\* retrieve_highest_default_version
Highest(queue) == Last(VersionsOf(queue))

\* Mutation: the default of the same version is left as it is.
OverriddenByLater(queue, entry) ==
  IF Compare(entry[2], Highest(queue)) > 0 THEN Inserted(queue, entry) ELSE queue

(* apply_override: a default after all others, a new value of the last one, *)
(* or nothing, when the keyval has a later default.                        *)
Overridden(queue, entry) ==
  IF Compare(entry[2], Highest(queue)) > 0 THEN Inserted(queue, entry)
  ELSE IF entry[2] = Highest(queue) THEN [queue EXCEPT ![Len(queue)] = entry] ELSE queue

\* The queue of defaults of the keyval that is read.
DefaultsRead(list) ==
  FoldLeft(Overridden, FoldLeft(Inserted, <<>>, Text.defaults), Applied(list))

\* The version of the mold: of all that was finalized as valid.
Covering(versions) == CHOOSE v \in versions : \A w \in versions : Compare(w, v) <= 0
VersionRead ==
  Covering({<<1, 0>>} \cup Range(Introduced(kv_default_queue))
             \cup {restriction[r].introduced : r \in Range(kv_restrictions_queue)}
             \cup (IF KeyvalWrong = "OK" THEN {keyval.deprecated} ELSE {}))

\* The invalid marks of a queue: the finalize of each entry marks those that are the
\* second of their kind, the validation of the keyval those up to the first wrong one.
InvalidAt(i, first, seconds) == IF i <= first THEN i = first ELSE i \in seconds

FirstOfSame(queue) ==
  LET same == {i \in DOMAIN queue : \E j \in DOMAIN queue \ {i} : queue[j][2] = queue[i][2]}
  IN IF same = {} THEN Len(queue) + 1 ELSE Min(same)
SecondDefaults(queue) == {i \in DOMAIN queue : \E j \in 1..i - 1 : queue[j][2] = queue[i][2]}
SecondRestrictions ==
  {i \in DOMAIN kv_restrictions_queue : \E j \in 1..i - 1 :
     LET r == restriction[kv_restrictions_queue[i]]  q == restriction[kv_restrictions_queue[j]]
     IN r.type = q.type /\ r.introduced = q.introduced}

(* fslib_plugin_mold_write, then dio_json_mold_read: unserialize_context   *)
(* builds the keyval of the text, apply_overrides changes its defaults,    *)
(* dc_mold_finalize validates all.  An override beyond the version of the  *)
(* mold puts that in the fatal state: such a mold is not followed further, *)
(* nor are overrides of a keyval that is in error.                         *)
ReadBack(list) ==
  /\ mold.state = "finalized" /\ keyval.state = "finalized"
  /\ Sound
  /\ \A d \in Defaults : default[d].state # "constructing"
  /\ \A r \in Restrictions : restriction[r].state # "constructing"
  /\ list # <<>> => KeyvalWrong = "OK"
  /\ Len(OverridesOf(list)) = Len(list)
  /\ \A i \in DOMAIN list : Compare(list[i], VersionRead) <= 0
  /\ UNCHANGED <<kv_restrictions_queue, crashed>>
  /\ mold' = [mold EXCEPT !.version = VersionRead]
  /\ keyval' = [keyval EXCEPT !.invalid = KeyvalWrong # "OK"]
  /\ LET queue == DefaultsRead(list)
         wrongDefault == FirstOfSame(queue)
         wrongRestriction == IF queue # <<>> /\ wrongDefault > Len(queue)
                               THEN FirstWrong(kv_restrictions_queue, WrongRestrictions) ELSE 0
         place(d) == {i \in DOMAIN queue : queue[i][1] = d}
     IN /\ kv_default_queue' = [i \in DOMAIN queue |-> queue[i][1]]
        /\ default' = [d \in Defaults |->
             IF place(d) = {} THEN NewDefault
             ELSE [state |-> "finalized", introduced |-> queue[Min(place(d))][2],
                   invalid |-> InvalidAt(Min(place(d)), wrongDefault, SecondDefaults(queue))]]
        /\ restriction' = [r \in Restrictions |->
             IF r \notin Range(kv_restrictions_queue) THEN NewRestriction
             ELSE LET i == CHOOSE i \in DOMAIN kv_restrictions_queue : kv_restrictions_queue[i] = r
                  IN [restriction[r] EXCEPT
                        !.invalid = InvalidAt(i, wrongRestriction, SecondRestrictions)]]

TextNext == Next \/ \E list \in OverrideLists : ReadBack(list)

TextSpec == Init /\ [][TextNext]_vars
----------------------------------------------------------------------------
\* The overrides that a version has and that are not before the highest default.
Meant(list, version) ==
  {i \in DOMAIN list : /\ Compare(list[i], version) <= 0
                       /\ Compare(list[i], Highest(Text.defaults)) >= 0}

(* A mold that is written and read back means to every version of a config *)
(* what it did: the same default, once it has one, unless the override     *)
(* introduced last before or in the version gives another, and the same    *)
(* bounds on the number of entries; what was in error is, and nothing else. *)
TextKeepsMold ==
  [][\A list \in OverrideLists : ReadBack(list) =>
       /\ keyval'.invalid = (KeyvalWrong # "OK")
       /\ \A v \in AllVersions :
            /\ KeyvalBounds(v)' = KeyvalBounds(v)
            /\ Known(v) # {} =>
                 LET meant == Meant(list, v)
                     latest == {i \in meant : \A j \in meant : Compare(list[j], list[i]) <= 0}
                 IN ActiveDefault(v)' = IF meant = {} THEN ActiveDefault(v)
                                        ELSE OverridesOf(list)[Min(latest)][1]]_vars
=============================================================================
