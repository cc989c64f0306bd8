-------------------------------- MODULE Mold --------------------------------
(***************************************************************************)
(* Building a mold: a keyval of it with its defaults and restrictions, and *)
(* the version the mold comes to have (lib/context_default.c,              *)
(* context_restriction.c, context_mold.c, validate.c, context.c).  Defaults *)
(* and restrictions are added before and after the keyval, and the keyval  *)
(* before and after the mold, is finalized.                                *)
(*                                                                         *)
(* Abstracted: references (module Context), the values of defaults, the    *)
(* restrictions on values (module Entries); a section is like a keyval     *)
(* with one default that holds its introduced version.                     *)
(***************************************************************************)
EXTENDS Versions, SequencesExt

CONSTANTS
  Defaults,     \* the defaults a client may add
  Restrictions, \* the restrictions a client may add
  AllVersions,  \* the versions a client uses
  Deprecations, \* those it deprecates the keyval in
  Arguments,    \* the numbers of entries a client uses
  MaxOpen,      \* bound: the defaults and restrictions begun and not finalized
  Client        \* what else the client does, a subset of Liberties

\* duplicate: adds a second default of a version to a finalized keyval
\* untyped:   finalizes a restriction without a type
\* deprecate: deprecates a keyval that is finalized
\* destroy:   destroys a default that is finalized
Liberties == {"duplicate", "untyped", "deprecate", "destroy"}

ASSUME MoldAssumption ==
  /\ AllVersions \subseteq ((Nat \ {0}) \X Nat)
  /\ <<1, 0>> \in AllVersions
  /\ Deprecations \subseteq AllVersions
  /\ Arguments \subseteq Nat /\ Arguments # {}
  /\ MaxOpen \in Nat
  /\ Client \subseteq Liberties

VARIABLES
  mold,                  \* [state, version]: CONTEXT_STATE_* and mo_version
  keyval,                \* [state, invalid, deprecated]
  default,               \* [state, introduced, invalid] of each default
  restriction,           \* [state, introduced, type, argument, invalid] of each
  kv_default_queue,
  kv_restrictions_queue,
  crashed                \* dx_crash_and_burn has been called

vars == <<mold, keyval, default, restriction, kv_default_queue,
          kv_restrictions_queue, crashed>>

\* freed: the context is destroyed
States == {"free", "constructing", "finalized", "freed"}
Types == {"MIN", "MAX", "UNKNOWN"}

TypeOK ==
  /\ mold \in [state : {"constructing", "finalized"}, version : AllVersions]
  /\ keyval \in [state : {"constructing", "finalized"}, invalid : BOOLEAN,
                 deprecated : Deprecations \cup {NoVersion}]
  /\ default \in [Defaults -> [state : States, introduced : AllVersions, invalid : BOOLEAN]]
  /\ restriction \in [Restrictions -> [state : States, introduced : AllVersions,
                                       type : Types, argument : Arguments,
                                       invalid : BOOLEAN]]
  /\ kv_default_queue \in Seq(Defaults)
  /\ kv_restrictions_queue \in Seq(Restrictions)
  /\ crashed \in BOOLEAN

NewDefault == [state |-> "free", introduced |-> <<1, 0>>, invalid |-> FALSE]
NewRestriction == [state |-> "free", introduced |-> <<1, 0>>, type |-> "UNKNOWN",
                   argument |-> CHOOSE a \in Arguments : TRUE, invalid |-> FALSE]
FreedRestriction == [NewRestriction EXCEPT !.state = "freed"]
NewKeyval == [state |-> "constructing", invalid |-> FALSE, deprecated |-> NoVersion]

Init ==
  /\ mold = [state |-> "constructing", version |-> <<1, 0>>]
  /\ keyval = NewKeyval
  /\ default = [d \in Defaults |-> NewDefault]
  /\ restriction = [r \in Restrictions |-> NewRestriction]
  /\ kv_default_queue = <<>>
  /\ kv_restrictions_queue = <<>>
  /\ crashed = FALSE
----------------------------------------------------------------------------
\* The versions of a queue, in its order.
Introduced(queue) == [i \in DOMAIN queue |-> default[queue[i]].introduced]

\* Nothing in the queues is freed memory: what reads it then is undefined.
Sound == /\ ~crashed
         /\ \A i \in DOMAIN kv_default_queue : default[kv_default_queue[i]].state # "freed"

\* Mutation: only the major version is looked at.
UpdateMajor(version) == IF mold.version[1] < version[1] THEN version ELSE mold.version

\* dx_mold_update_version
UpdateVersion(version) == IF Compare(mold.version, version) < 0 THEN version ELSE mold.version

(* dx_validate_context turns what is wrong with a child into INVALID_CONTEXT *)
(* while the child is constructing, but not under a finalized parent.      *)
Verdict(wrong, constructing, parent) ==
  IF wrong = "OK" \/ parent.state = "finalized" \/ ~constructing THEN wrong ELSE "INVALID_CONTEXT"

Open == Cardinality({d \in Defaults : default[d].state = "constructing"})
          + Cardinality({r \in Restrictions : restriction[r].state = "constructing"})

\* dc_begin of a default, with its dc_add_introduced.
BeginDefault(d, version) ==
  /\ Sound
  /\ default[d].state = "free" /\ Open < MaxOpen
  /\ default' = [default EXCEPT ![d] = [@ EXCEPT !.state = "constructing", !.introduced = version]]
  /\ UNCHANGED <<mold, keyval, restriction, kv_default_queue, kv_restrictions_queue, crashed>>

\* Mutation: a default is enqueued at the tail.
EnqueuedAtTail(d, version) == Append(kv_default_queue, d)

(* dx_default_finalize: the default is enqueued whatever it is like, and   *)
(* validated in the queue.                                                 *)
Enqueued(d, version) == InsertAt(kv_default_queue, Position(Introduced(kv_default_queue), version), d)

\* Mutation: the versions of the defaults are not compared.
DefaultNeverWrong(versions, version) == "OK"

\* validate_context_validity of a default with the version, among those of its queue
DefaultWrong(versions, version) ==
  IF Cardinality({i \in DOMAIN versions : versions[i] = version}) = 1
    THEN "OK" ELSE "CONFLICTING_SEMVER"

(* dc_finalize of a default: under a finalized keyval a second one of a    *)
(* version is refused, and stays in the queue.                             *)
FinalizeDefault(d) ==
  LET version == default[d].introduced
      queue   == Enqueued(d, version)
      verdict == Verdict(DefaultWrong(Introduced(queue), version), TRUE, keyval)
  IN /\ Sound
     /\ default[d].state = "constructing" /\ d \notin Range(kv_default_queue)
     /\ verdict = "CONFLICTING_SEMVER" => "duplicate" \in Client
     /\ kv_default_queue' = queue
     /\ default' = [default EXCEPT ![d].state = IF verdict \in {"OK", "INVALID_CONTEXT"}
                                                   THEN "finalized" ELSE @,
                                   ![d].invalid = verdict # "OK"]
     /\ mold' = [mold EXCEPT !.version = IF verdict = "OK" THEN UpdateVersion(version) ELSE @]
     /\ UNCHANGED <<keyval, restriction, kv_restrictions_queue, crashed>>

(* dc_destroy of a default, refused or not: it is not taken out of the     *)
(* queue, since dx_default_destroy does so only when the keyval is         *)
(* destroyed.                                                              *)
DestroyDefault(d) ==
  /\ Sound
  /\ \/ default[d].state = "constructing"
     \/ default[d].state = "finalized" /\ "destroy" \in Client
  /\ default' = [default EXCEPT ![d] = [NewDefault EXCEPT !.state = "freed"]]
  /\ UNCHANGED <<mold, keyval, restriction, kv_default_queue, kv_restrictions_queue, crashed>>

(* dc_add_default_string, _integer, _float, _boolean: begin, finalize and, *)
(* where that refuses the default, destroy.                                *)
AddDefault(d, version) ==
  LET wrong   == DefaultWrong(Append(Introduced(kv_default_queue), version), version)
      verdict == Verdict(wrong, TRUE, keyval)
  IN /\ Sound
     /\ default[d].state = "free"
     /\ verdict = "CONFLICTING_SEMVER" => "duplicate" \in Client
     /\ kv_default_queue' = Enqueued(d, version)
     /\ default' = [default EXCEPT ![d] =
          [state |-> IF verdict = "CONFLICTING_SEMVER" THEN "freed" ELSE "finalized",
           introduced |-> version, invalid |-> wrong # "OK"]]
     /\ mold' = [mold EXCEPT !.version = IF verdict = "OK" THEN UpdateVersion(version) ELSE @]
     /\ UNCHANGED <<keyval, restriction, kv_restrictions_queue, crashed>>
----------------------------------------------------------------------------
(* validate_restriction: a type, and no other restriction of that type in  *)
(* the queue introduced in the same version.                               *)
RestrictionWrong(r) ==
  IF restriction[r].type = "UNKNOWN" THEN "INVALID_CONTEXT"
  ELSE IF \E q \in Range(kv_restrictions_queue) \ {r} :
            /\ restriction[q].type = restriction[r].type
            /\ restriction[q].introduced = restriction[r].introduced
    THEN "CONFLICTING_SEMVER" ELSE "OK"

\* dc_begin of a restriction, its type, number and introduced version.
BeginRestriction(r, type, argument, version) ==
  /\ Sound
  /\ restriction[r].state = "free" /\ Open < MaxOpen
  /\ type = "UNKNOWN" => "untyped" \in Client
  /\ restriction' = [restriction EXCEPT ![r] =
       [state |-> "constructing", introduced |-> version, type |-> type,
        argument |-> argument, invalid |-> FALSE]]
  /\ UNCHANGED <<mold, keyval, default, kv_default_queue, kv_restrictions_queue, crashed>>

(* dx_restriction_finalize: a restriction is validated, then enqueued if   *)
(* it is valid or may be invalid.  dc_add_restriction_entries_min and _max *)
(* destroy it when it is not valid, and take it out of the queue again.    *)
(* dx_validate_context aborts on an untyped one under a finalized keyval.  *)
FinalizeRestriction(r, asAdd) ==
  LET wrong   == RestrictionWrong(r)
      verdict == Verdict(wrong, TRUE, keyval)
      dropped == verdict # "OK" /\ asAdd
      stored  == verdict \in {"OK", "INVALID_CONTEXT"} /\ ~dropped
  IN /\ Sound
     /\ restriction[r].state = "constructing"
     /\ asAdd => restriction[r].type # "UNKNOWN"
     /\ crashed' = (wrong = "INVALID_CONTEXT" /\ keyval.state = "finalized")
     /\ restriction' = [restriction EXCEPT ![r] =
          IF dropped THEN FreedRestriction
          ELSE [@ EXCEPT !.state = IF stored THEN "finalized" ELSE "constructing",
                         !.invalid = verdict # "OK"]]
     /\ kv_restrictions_queue' = IF stored /\ ~crashed' THEN Append(kv_restrictions_queue, r)
                                                        ELSE kv_restrictions_queue
     /\ mold' = [mold EXCEPT !.version = IF verdict = "OK"
                                           THEN UpdateVersion(restriction[r].introduced) ELSE @]
     /\ UNCHANGED <<keyval, default, kv_default_queue>>
----------------------------------------------------------------------------
\* The first of a queue that is wrong, or none: the validation of the keyval
\* ends there, and has marked those before it valid.
FirstWrong(queue, allWrong) ==
  LET wrong == {i \in DOMAIN queue : queue[i] \in allWrong} IN
  IF wrong = {} THEN Len(queue) + 1 ELSE Min(wrong)

(* dc_destroy of a restriction: dx_restriction_destroy takes it out of the *)
(* queue of a keyval that is not destroyed.                                *)
DestroyRestriction(r) ==
  /\ Sound
  /\ restriction[r].state \in {"constructing", "finalized"}
  /\ restriction' = [restriction EXCEPT ![r] = FreedRestriction]
  /\ kv_restrictions_queue' = RemoveFirst(kv_restrictions_queue, r)
  /\ UNCHANGED <<mold, keyval, default, kv_default_queue, crashed>>

\* What dx_validate_context returns for the defaults and restrictions of the
\* keyval, looked at one by one.
WrongDefaults ==
  {d \in Range(kv_default_queue) :
     DefaultWrong(Introduced(kv_default_queue), default[d].introduced) # "OK"}
WrongRestrictions == {r \in Range(kv_restrictions_queue) : RestrictionWrong(r) # "OK"}

\* validate_context_validity of the keyval
KeyvalWrong ==
  LET i == FirstWrong(kv_default_queue, WrongDefaults)
      j == FirstWrong(kv_restrictions_queue, WrongRestrictions)
  IN CASE kv_default_queue = <<>> -> "DEFAULT_MISSING"
       [] kv_default_queue # <<>> /\ i <= Len(kv_default_queue) -> "CONFLICTING_SEMVER"
       [] kv_default_queue # <<>> /\ i > Len(kv_default_queue) /\ j <= Len(kv_restrictions_queue) ->
            RestrictionWrong(kv_restrictions_queue[j])
       [] OTHER -> "OK"

\* The invalid flags its validation leaves at its defaults and restrictions.
Marked(children, queue, first) ==
  [c \in DOMAIN children |->
     IF \E i \in DOMAIN queue : i <= first /\ queue[i] = c
       THEN [children[c] EXCEPT !.invalid = (first \in DOMAIN queue /\ queue[first] = c)]
       ELSE children[c]]

MarkChildren ==
  LET i == FirstWrong(kv_default_queue, WrongDefaults)
      j == FirstWrong(kv_restrictions_queue, WrongRestrictions)
  IN /\ default' = Marked(default, kv_default_queue, i)
     /\ restriction' = IF kv_default_queue # <<>> /\ i > Len(kv_default_queue)
                         THEN Marked(restriction, kv_restrictions_queue, j) ELSE restriction

(* dx_keyval_finalize and dc_finalize: a keyval that is not valid is still *)
(* finalized, unless the mold already is.  It brings the version it is     *)
(* deprecated in to the mold, and none it is introduced in.                *)
FinalizeKeyval ==
  LET verdict == Verdict(KeyvalWrong, TRUE, mold) IN
  /\ Sound
  /\ keyval.state = "constructing"
  /\ \A i \in DOMAIN kv_default_queue : default[kv_default_queue[i]].state = "finalized"
  /\ MarkChildren
  /\ crashed' = (KeyvalWrong = "INVALID_CONTEXT" /\ mold.state = "finalized")
  /\ keyval' = [keyval EXCEPT !.state = IF verdict \in {"OK", "INVALID_CONTEXT"}
                                          THEN "finalized" ELSE @,
                              !.invalid = verdict # "OK"]
  /\ mold' = [mold EXCEPT !.version = IF verdict = "OK" /\ keyval.deprecated # NoVersion
                                        THEN UpdateVersion(keyval.deprecated) ELSE @]
  /\ UNCHANGED <<kv_default_queue, kv_restrictions_queue>>

\* dc_add_deprecated, which asks for no state of the keyval.
Deprecate(version) ==
  /\ Sound
  /\ keyval.state = "finalized" => "deprecate" \in Client
  /\ keyval' = [keyval EXCEPT !.deprecated = version]
  /\ UNCHANGED <<mold, default, restriction, kv_default_queue, kv_restrictions_queue, crashed>>

(* dc_destroy of the keyval, and the dc_begin of another: dx_keyval_destroy *)
(* takes the defaults and restrictions out before it destroys them.        *)
Restart ==
  /\ Sound
  /\ \A d \in Defaults : default[d].state # "constructing"
  /\ \A r \in Restrictions : restriction[r].state # "constructing"
  /\ keyval' = NewKeyval
  /\ default' = [d \in Defaults |-> NewDefault]
  /\ restriction' = [r \in Restrictions |-> NewRestriction]
  /\ kv_default_queue' = <<>>
  /\ kv_restrictions_queue' = <<>>
  /\ UNCHANGED <<mold, crashed>>

(* dc_mold_finalize: its validation validates the keyval again, once that  *)
(* is stored in the mold.  dx_validate_context aborts on an untyped        *)
(* restriction, whose keyval is finalized by now.                          *)
FinalizeMold ==
  /\ Sound
  /\ mold.state = "constructing"
  /\ mold' = [mold EXCEPT !.state = "finalized"]
  /\ IF keyval.state = "finalized"
       THEN /\ MarkChildren
            /\ keyval' = [keyval EXCEPT !.invalid = KeyvalWrong # "OK"]
            /\ crashed' = (KeyvalWrong = "INVALID_CONTEXT")
       ELSE UNCHANGED <<keyval, default, restriction, crashed>>
  /\ UNCHANGED <<kv_default_queue, kv_restrictions_queue>>
----------------------------------------------------------------------------
Next ==
  \/ \E d \in Defaults, v \in AllVersions : BeginDefault(d, v) \/ AddDefault(d, v)
  \/ \E d \in Defaults : FinalizeDefault(d) \/ DestroyDefault(d)
  \/ \E r \in Restrictions, t \in Types, a \in Arguments, v \in AllVersions :
       BeginRestriction(r, t, a, v)
  \/ \E r \in Restrictions, asAdd \in BOOLEAN : FinalizeRestriction(r, asAdd)
  \/ \E r \in Restrictions : DestroyRestriction(r)
  \/ FinalizeKeyval
  \/ \E v \in Deprecations : Deprecate(v)
  \/ Restart
  \/ FinalizeMold

Spec == Init /\ [][Next]_vars
----------------------------------------------------------------------------
(* PROPERTIES                                                              *)

(* The queues hold each finalized default and restriction once and nothing *)
(* else, defaults in the order of their versions: dx_default_get_active,   *)
(* dx_restriction_entries_value and the validation of the keyval walk them. *)
QueuesHoldFinalized ==
  /\ Range(kv_default_queue) = {d \in Defaults : default[d].state = "finalized"}
  /\ \A i, j \in DOMAIN kv_default_queue : i < j =>
       /\ kv_default_queue[i] # kv_default_queue[j]
       /\ Compare(Introduced(kv_default_queue)[i], Introduced(kv_default_queue)[j]) <= 0
  /\ Range(kv_restrictions_queue) = {r \in Restrictions : restriction[r].state = "finalized"}
  /\ IsInjective(kv_restrictions_queue)

(* context_default.c, dx_default_destroy: a destroyed default is not left  *)
(* in the queue of a keyval that lives on.                                 *)
QueueHoldsLive ==
  \A i \in DOMAIN kv_default_queue : default[kv_default_queue[i]].state # "freed"

\* The defaults a config of the version can have got.
Known(version) == {d \in Defaults : /\ default[d].state = "finalized"
                                    /\ Compare(default[d].introduced, version) <= 0}

ActiveDefault(version) == kv_default_queue[Active(Introduced(kv_default_queue), version)]

(* default.h, dx_default_get_active: the default that is active for a      *)
(* version is one introduced last before or in it; a version older than    *)
(* all of them gets an oldest one.                                         *)
ActiveIsLatest ==
  kv_default_queue # <<>> =>
    \A v \in AllVersions :
      LET active == default[ActiveDefault(v)].introduced
      IN IF Known(v) # {}
           THEN /\ Compare(active, v) <= 0
                /\ \A d \in Known(v) : Compare(default[d].introduced, active) <= 0
           ELSE \A d \in Defaults : default[d].state = "finalized" =>
                  Compare(active, default[d].introduced) <= 0

(* Adding defaults changes the active default of no version before theirs, *)
(* once that has one and while that exists: old configs keep the defaults  *)
(* they were made of.                                                      *)
OldVersionsKeepDefault ==
  [][\A v \in AllVersions :
       /\ Known(v) # {} /\ default'[ActiveDefault(v)].state = "finalized"
       /\ \A d \in Defaults :
            default[d].state # "finalized" /\ default'[d].state = "finalized" =>
              Compare(v, default'[d].introduced) < 0
       => ActiveDefault(v)' = ActiveDefault(v)]_vars

(* The version of the mold covers its defaults and its typed restrictions, *)
(* those that were not valid when finalized included: dc_set_version lets  *)
(* no config have a version above that of its mold.                        *)
VersionCovers ==
  /\ \A i \in DOMAIN kv_default_queue :
       Compare(Introduced(kv_default_queue)[i], mold.version) <= 0
  /\ \A r \in Range(kv_restrictions_queue) :
       restriction[r].type # "UNKNOWN" => Compare(restriction[r].introduced, mold.version) <= 0

(* context.c, dc_finalize: the version of the mold is updated with those   *)
(* its contexts are deprecated in, so a config can come to a version       *)
(* without the keyval.                                                     *)
VersionCoversDeprecation ==
  mold.state = "finalized" /\ keyval.state = "finalized" /\ ~keyval.invalid =>
    Compare(keyval.deprecated, mold.version) <= 0

\* The bounds a config of the version finds for the keyval.
KeyvalBounds(version) ==
  Bounds([i \in DOMAIN kv_restrictions_queue |-> restriction[kv_restrictions_queue[i]]],
         IF kv_default_queue = <<>> THEN NoVersion ELSE Introduced(kv_default_queue)[1],
         keyval.deprecated, version)

(* A keyval that is finalized and not marked invalid has a default, one    *)
(* per version, per version one minimum and one maximum, and allows every  *)
(* version the entries it demands, unless it sets that version no limit.   *)
ValidKeyvalIsSound ==
  keyval.state = "finalized" /\ ~keyval.invalid =>
    /\ kv_default_queue # <<>>
    /\ \A i, j \in DOMAIN kv_default_queue :
         i # j => Introduced(kv_default_queue)[i] # Introduced(kv_default_queue)[j]
    /\ \A r, q \in Range(kv_restrictions_queue) :
         r # q /\ restriction[r].type = restriction[q].type =>
           restriction[r].introduced # restriction[q].introduced
    /\ \A v \in AllVersions :
         LET b == KeyvalBounds(v) IN b.max >= 1 => b.min <= b.max

\* The restrictions of a type that a config of the version knows.
Given(type, version) == {r \in Range(kv_restrictions_queue) :
                           /\ restriction[r].type = type
                           /\ Compare(restriction[r].introduced, version) <= 0}

\* One of them that none of the others is later than.
Latest(given, r) ==
  \A q \in given : Compare(restriction[q].introduced, restriction[r].introduced) <= 0

\* The keyval demands in the version what the restriction introduced last
\* before or in it says, or else one entry.
LatestMinimumIn(version) ==
  LET given == Given("MIN", version) IN
  \/ Absent(Introduced(kv_default_queue)[1], keyval.deprecated, version)
  \/ given = {} /\ KeyvalBounds(version).min = 1
  \/ \E r \in given : Latest(given, r) /\ KeyvalBounds(version).min = restriction[r].argument

(* context_restriction.c, dx_restriction_entries_value: of the minimums    *)
(* of a valid keyval the closest match to the version of a config counts.  *)
MinimumIsLatest ==
  keyval.state = "finalized" /\ ~keyval.invalid => \A v \in AllVersions : LatestMinimumIn(v)

(* The same, for versions that share the major version with all minimums   *)
(* introduced before them.                                                 *)
MinimumIsLatestInMajor ==
  keyval.state = "finalized" /\ ~keyval.invalid =>
    \A v \in AllVersions :
      (\A r \in Given("MIN", v) : restriction[r].introduced[1] = v[1]) => LatestMinimumIn(v)

(* restriction.h, dx_restriction_entries_value: the default maximum is 1,  *)
(* or the minimum when that is greater.                                    *)
MaximumDefaultsToOne ==
  keyval.state = "finalized" /\ ~keyval.invalid =>
    \A v \in AllVersions :
      LET b == KeyvalBounds(v) IN
      Given("MAX", v) = {} /\ b.max # -1 => b.max = Max({1, b.min})

(* dx_validate_context: the library never aborts on what a client built.   *)
NeverAborts == ~crashed
=============================================================================
