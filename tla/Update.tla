------------------------------- MODULE Update -------------------------------
(***************************************************************************)
(* Updating a config to a newer version of its mold: disir_update_config,  *)
(* disir_update_continue, disir_update_resolve and disir_update_finished   *)
(* (lib/update.c).  Two configs are at work: the one to update, whose      *)
(* values change in place, and a target config generated from the mold,    *)
(* which receives the resolutions of conflicts.                            *)
(*                                                                         *)
(* Abstracted: the text of values, of which Printed keeps what it loses;   *)
(* versions are numbers.  A keyval stands for one entry of the config to   *)
(* update; the elements of the mold it has no entry of are left out, and   *)
(* so are sections inside sections.                                        *)
(***************************************************************************)
EXTENDS Integers, Sequences, FiniteSets, SequencesExt

CONSTANTS
  Keyvals,   \* the keyvals of the config
  Order,     \* the keyvals in es_list order, those of a section in its place
  Section,   \* the section of each keyval, or Root
  Name,      \* kv_name of each keyval
  Generated, \* the keyvals the mold requires: these are in a generated config
  Root, None,
  Values,
  Close,     \* the pairs of different numbers that dx_value_compare takes as equal:
             \* their difference, cut to an int, is zero
  Printed,   \* each number as it is read back from the text dx_value_stringify
             \* gives for it: a float has six decimals there
  Versions,  \* the versions of the mold
  Molds      \* the molds: see WellFormed

\* default[k]: the value of each default of k, by the version it was introduced in.
\* allowed[k][v]: the values the restrictions of k accept in a config of version v.
\* kind[k]: a number is an integer, a float or a boolean.  What is read from a text
\* depends on it, so entries of one name are of one kind, in sections too.
Kinds == {"string", "enum", "number"}
WellFormed(m) ==
  /\ \A k \in Keyvals : \E V \in (SUBSET Versions) \ {{}} : m.default[k] \in [V -> Values]
  /\ m.allowed \in [Keyvals -> [Versions -> SUBSET Values]]
  /\ \A k, l \in Keyvals : Section[k] = Section[l] /\ Name[k] = Name[l]
       => m.default[k] = m.default[l] /\ m.allowed[k] = m.allowed[l]
  /\ m.kind \in [Keyvals -> Kinds]
  /\ \A k, l \in Keyvals : Name[k] = Name[l] => m.kind[k] = m.kind[l]

ASSUME UpdateAssumption ==
  /\ Order \in Seq(Keyvals) /\ IsInjective(Order) /\ Range(Order) = Keyvals
  /\ Generated \subseteq Keyvals
  /\ None \notin Keyvals \cup Values \cup Versions
  /\ Versions \subseteq Nat
  /\ Close \subseteq Values \X Values
  /\ Printed \in [Values -> Values]
  /\ \A m \in Molds : WellFormed(m)

VARIABLES
  mold,     \* never changes
  version,  \* cf_version of the config
  value,    \* kv_value of its keyvals, None for a keyval it does not hold
  target,   \* up_target, None without a struct disir_update
  ahead,    \* the places in Order of what up_collection will still return
  conflict, \* up_keyval
  result,   \* kv_value of the keyvals of up_config_target
  status,   \* what the last call returned, ABORTED when it did not return
  mine,     \* history: the keyvals whose value somebody chose, or an update
            \* that was given up left between two versions
  answer    \* history: what each conflict of this update was resolved with

vars == <<mold, version, value, target, ahead, conflict, result, status, mine, answer>>

Statuses ==
  {"OK", "CONFLICT", "RESTRICTION_VIOLATED", "NOT_EXIST", "INVALID_ARGUMENT", "ABORTED"}

TypeOK ==
  /\ mold \in Molds
  /\ version \in Versions
  /\ value \in [Keyvals -> Values \cup {None}]
  /\ target \in Versions \cup {None}
  /\ ahead \subseteq DOMAIN Order
  /\ conflict \in Keyvals \cup {None}
  /\ result \in [Keyvals -> Values \cup {None}]
  /\ status \in Statuses
  /\ mine \subseteq Keyvals
  /\ answer \in [Keyvals -> Values \cup {None}]
  \* a conflict is a keyval the collection has already returned
  /\ conflict # None => target # None /\ \A i \in ahead : Order[i] # conflict
----------------------------------------------------------------------------
(* dx_default_get_active: the default introduced last before version v, or *)
(* the first one there is.                                                 *)
Introduced(k, v) ==
  LET all == DOMAIN mold.default[k]
      before == {i \in all : i <= v}
  IN IF before # {} THEN CHOOSE i \in before : \A j \in before : j <= i
     ELSE CHOOSE i \in all : \A j \in all : i <= j

Active(k, v) == mold.default[k][Introduced(k, v)]

(* dx_value_compare returns zero.                                          *)
Same(k, v, w) == v = w \/ (mold.kind[k] = "number" /\ <<v, w>> \in Close)

\* The value dc_set_value reads from the text dx_value_stringify makes of v.
Reread(k, v) == IF mold.kind[k] = "number" THEN Printed[v] ELSE v

(* disir_generate_config_from_mold: the required keyvals, each with its    *)
(* active default.                                                         *)
GeneratedFromMold(v) ==
  [k \in Keyvals |-> IF k \in Generated THEN Active(k, v) ELSE None]

\* A generated config is valid: its defaults satisfy the restrictions.
DefaultsAllowed(v) == \A k \in Generated : Active(k, v) \in mold.allowed[k][v]

(* retrieve_all_keyvals_recursively.  The call for a section returns       *)
(* EXHAUSTED, which ends the loop of its parent: what follows the first    *)
(* section is not collected.                                               *)
Collected ==
  LET inFirstSection(i) ==
        \A j \in 1..i : Section[Order[j]] \in {Root, Section[Order[i]]}
  IN {i \in DOMAIN Order : inFirstSection(i) /\ value[Order[i]] # None}
----------------------------------------------------------------------------
(* A generated config, to which somebody may have added optional keyvals.  *)
Init ==
  /\ mold \in Molds
  /\ version \in Versions
  /\ DefaultsAllowed(version)
  /\ mine \in SUBSET (Keyvals \ Generated)
  /\ value = [k \in Keyvals |->
               IF k \in Generated \cup mine THEN Active(k, version) ELSE None]
  /\ target = None
  /\ ahead = {}
  /\ conflict = None
  /\ result = [k \in Keyvals |-> None]
  /\ status = "OK"
  /\ answer = [k \in Keyvals |-> None]

(* dc_set_value and its like on a keyval of the config, between updates.   *)
SetValue(k, v) ==
  /\ target = None
  /\ value[k] # None
  /\ v \in mold.allowed[k][version]
  /\ value' = [value EXCEPT ![k] = v]
  /\ mine' = mine \cup {k}
  /\ UNCHANGED <<mold, version, target, ahead, conflict, result, status, answer>>
----------------------------------------------------------------------------
\* Mutation: only defaults introduced in the version t itself count.
NewerExactly(k, t) == Introduced(k, t) > version /\ Introduced(k, t) = t

\* The mold changed its mind about k between the version of the config and t.
Newer(k, t) == Introduced(k, t) > version

\* The update takes the value for the default of the version of the config.
Untouched(k) == Same(k, value[k], Active(k, version))

\* Mutation: the value is not compared with the default of its version.
VerdictNeverAsks(k, t) ==
  IF Newer(k, t) /\ ~Same(k, value[k], Active(k, t)) THEN "refresh" ELSE "leave"

\* What to do with k in an update to version t.
Verdict(k, t) ==
  IF ~Newer(k, t) \/ Same(k, value[k], Active(k, t)) THEN "leave"
  ELSE IF Untouched(k) THEN "refresh" ELSE "ask"

\* Mutation: the keyval after a conflict is skipped.
RestSkipsOne(places, i) == {j \in places : i + 1 < j}

Rest(places, i) == {j \in places : i < j}

(* disir_update_continue without a pending conflict, over these places:    *)
(* up to the first conflict, values left alone get their new default; when *)
(* there is no conflict the config has the new version.                    *)
Proceed(places, t) ==
  LET stops == {i \in places : Verdict(Order[i], t) = "ask"}
      stop == CHOOSE i \in stops : \A j \in stops : i <= j
      done == {Order[i] : i \in {j \in places : \A k \in stops : j < k}}
  IN
  /\ value' = [k \in Keyvals |-> IF k \in done /\ Verdict(k, t) = "refresh"
                               THEN Active(k, t) ELSE value[k]]
  /\ \/ /\ stops = {}
        /\ version' = t
        /\ conflict' = None
        /\ ahead' = {}
        /\ status' = "OK"
     \/ /\ stops # {}
        /\ version' = version
        /\ conflict' = Order[stop]
        /\ ahead' = Rest(places, stop)
        /\ status' = "CONFLICT"
  /\ UNCHANGED <<mold, mine>>

(* disir_update_config, to a version above that of the config.  (Otherwise *)
(* it returns an error and changes nothing.)                               *)
Start(t) ==
  /\ target = None
  /\ t > version
  /\ DefaultsAllowed(t)
  /\ target' = t
  /\ result' = GeneratedFromMold(t)
  /\ Proceed(Collected, t)
  /\ UNCHANGED answer

(* disir_update_continue.                                                  *)
Continue ==
  /\ target # None
  /\ \/ /\ conflict # None
        /\ status' = "CONFLICT"
        /\ UNCHANGED <<mold, version, value, ahead, conflict, mine>>
     \/ conflict = None /\ Proceed(ahead, target)
  /\ UNCHANGED <<target, result, answer>>

\* The keyval of the target config that dc_query_resolve_context finds for
\* the name of k: the first of that name, not in any section.
Namesakes(k) == {l \in Generated : Section[l] = Root /\ Name[l] = Name[k]}
First(K) == CHOOSE k \in K : \A l \in K : \A i, j \in DOMAIN Order :
              Order[i] = k /\ Order[j] = l => i <= j

\* Mutation: the resolution is not stored.
ResolveForgotten(v) ==
  /\ v \in Values
  /\ target # None /\ conflict # None
  /\ status' = "OK"
  /\ conflict' = None
  /\ answer' = [answer EXCEPT ![conflict] = v]
  /\ UNCHANGED <<mold, version, value, target, ahead, result, mine>>

\* The resolution reaches the target config.
Store(k, v) ==
  /\ mold.kind[k] # "enum"
  /\ v \in mold.allowed[k][target]
  /\ result' = [result EXCEPT ![k] = v]
  /\ answer' = [answer EXCEPT ![conflict] = v]
  /\ conflict' = None
  /\ status' = "OK"

(* Or it does not: dc_set_value cannot set an enum from a text, finds no   *)
(* number in it, or a value that is not allowed.                           *)
Refuse(k, v) ==
  /\ \/ mold.kind[k] = "enum" /\ status' = "ABORTED"
     \/ mold.kind[k] = "number" /\ v = None /\ status' = "INVALID_ARGUMENT"
     \/ /\ mold.kind[k] # "enum" /\ v \in Values \ mold.allowed[k][target]
        /\ status' = "RESTRICTION_VIOLATED"
  /\ UNCHANGED <<result, conflict, answer>>

(* disir_update_resolve: the value goes to the target config, as dc_set_value *)
(* reads it from a text.  With v = None the text is not one of a number.   *)
Resolve(v) ==
  /\ target # None /\ conflict # None
  /\ \/ /\ Namesakes(conflict) = {}
        /\ status' = "NOT_EXIST"
        /\ UNCHANGED <<result, conflict, answer>>
     \/ /\ Namesakes(conflict) # {}
        /\ LET k == First(Namesakes(conflict)) IN Store(k, v) \/ Refuse(k, v)
  /\ UNCHANGED <<mold, version, value, target, ahead, mine>>

\* The update is gone, and with it the target config unless it is kept: then
\* it takes the place of the config.
Finish(keep) ==
  /\ target # None
  /\ target' = None
  /\ ahead' = {}
  /\ conflict' = None
  /\ result' = [k \in Keyvals |-> None]
  /\ answer' = [k \in Keyvals |-> None]
  /\ IF keep THEN value' = result /\ version' = target ELSE UNCHANGED <<value, version>>
  /\ UNCHANGED <<mold, status>>

\* The values that are not, or are no longer, the default of their version.
MineAfter(keep) ==
  IF keep THEN {k \in mine : result[k] # Active(k, target)}
  ELSE mine \cup {k \in Keyvals : value[k] # None /\ ~Untouched(k)}

(* disir_update_finished, at any time, by a client that gives its old      *)
(* config up for the target config, or keeps it.                           *)
Finished(keep) ==
  /\ Finish(keep)
  /\ mine' = MineAfter(keep)

\* After an abort there is no process that could make a call.
Next ==
  /\ status # "ABORTED"
  /\ \/ \E k \in Keyvals, v \in Values : SetValue(k, v)
     \/ \E t \in Versions : Start(t)
     \/ Continue
     \/ \E v \in Values \cup {None} : Resolve(v)
     \/ \E keep \in BOOLEAN : Finished(keep)

Spec == Init /\ [][Next]_vars
----------------------------------------------------------------------------
\* The update was successful: disir_update_continue returned OK at its end.
Successful == target # None /\ version = target

(* disir.h: "the update is successful and the config object is updated to  *)
(* the targeted semver version".  Whenever no update is under way, the     *)
(* next one will take a value nobody chose for the default the mold has    *)
(* for the version of the config, and bring it up to date: over any number *)
(* of updates with any conflicts, no default is forgotten.                 *)
UntouchedIsCurrent ==
  target = None \/ Successful =>
    \A k \in Keyvals \ mine : value[k] # None => Untouched(k)

(* A value that the update can tell from the default of its version, which *)
(* somebody must have chosen, is never changed in the config that is being *)
(* updated, whatever it was compared with by earlier updates: the update   *)
(* asks.  (A chosen value close to the default is taken for it.)           *)
ChosenValuesStay ==
  [][target' # None =>
       \A k \in Keyvals : value[k] # None /\ ~Untouched(k) => value'[k] = value[k]]_vars

(* update.c: "Config has not changed since its last update value. We can   *)
(* safely update the stored value in config with new default".  It can     *)
(* have changed, to a number dx_value_compare takes as equal.              *)
OnlyUnchangedAreRefreshed ==
  [][target' # None =>
       \A k \in Keyvals : value[k] # None /\ value[k] # Active(k, version)
         => value'[k] = value[k]]_vars

(* No update is successful before every value that it can tell from the    *)
(* default introduced since then was reported as a conflict and resolved.  *)
ConflictsAreSettled ==
  [][version' # version /\ target' # None =>
       \A k \in Keyvals : value[k] # None /\ Newer(k, target') =>
         Same(k, value'[k], Active(k, target')) \/ answer[k] # None]_vars

(* disir.h, disir_update_resolve: the target config of an update has the   *)
(* resolution of each conflict, and the default wherever there was none.   *)
ResolutionsAreStored ==
  target # None => \A k \in Generated :
    result[k] = IF answer[k] # None THEN answer[k] ELSE Active(k, target)
=============================================================================
