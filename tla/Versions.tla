------------------------------ MODULE Versions ------------------------------
(***************************************************************************)
(* What the entries of a mold mean for a version: the default that is      *)
(* active, the number of entries an element may have, the values it may    *)
(* hold (lib/util.c, context_default.c, context_restriction.c).            *)
(*                                                                         *)
(* A version is a pair <<major, minor>>.  A queue of defaults is given by  *)
(* the versions its entries were introduced in, a queue of restrictions by *)
(* records with the fields type, introduced and argument.                  *)
(***************************************************************************)
EXTENDS Integers, Sequences, FiniteSetsExt

NoVersion == <<0, 0>>   \* deprecated: never

\* dc_version_compare: negative, zero or positive, and how far apart.
Compare(s, t) == IF s[1] # t[1] THEN s[1] - t[1] ELSE s[2] - t[2]

Later(queue, version) == {i \in DOMAIN queue : Compare(queue[i], version) > 0}

\* Mutation: a default is enqueued before all others.
PositionAtHead(queue, version) == 1

(* MQ_ENQUEUE_CONDITIONAL as dx_default_finalize uses it: before the first *)
(* later entry, after those of the same version.                           *)
Position(queue, version) ==
  IF Later(queue, version) = {} THEN Len(queue) + 1 ELSE Min(Later(queue, version))

\* Mutation: the first later entry itself is taken.
ActiveIsNext(queue, version) ==
  IF Later(queue, version) = {} THEN Len(queue) ELSE Min(Later(queue, version))

(* dx_default_get_active: the entry before the first later one.  The first *)
(* entry of the queue has no entry before it and stands for itself.        *)
Active(queue, version) ==
  LET first == Min(Later(queue, version)) IN
  CASE Later(queue, version) = {} -> Len(queue)
    [] Later(queue, version) # {} -> IF first = 1 THEN 1 ELSE first - 1
----------------------------------------------------------------------------
\* Mutation: the last restriction that is not later counts, however close.
ClosestIsLast(restrictions, type, version) ==
  LET candidates == {i \in DOMAIN restrictions :
                       /\ restrictions[i].type = type
                       /\ Compare(restrictions[i].introduced, version) <= 0}
  IN IF candidates = {} THEN -1 ELSE restrictions[Max(candidates)].argument

(* dx_restriction_entries_value, its loop: of the restrictions of a type   *)
(* that are not later than the version, the first whose comparison with it *)
(* is greatest; -1 without any.                                            *)
Closest(restrictions, type, version) ==
  LET Distance(i) == Compare(restrictions[i].introduced, version)
      candidates  == {i \in DOMAIN restrictions :
                        restrictions[i].type = type /\ Distance(i) <= 0}
      closest     == {i \in candidates : \A j \in candidates : Distance(j) <= Distance(i)}
  IN IF candidates = {} THEN -1 ELSE restrictions[Min(closest)].argument

\* The element is not part of the version, as its introduced and deprecated
\* versions tell.
Absent(introduced, deprecated, version) ==
  \/ Compare(introduced, version) > 0
  \/ deprecated # NoVersion /\ Compare(deprecated, version) <= 0

(* dx_restriction_entries_value: how many entries of an element a config   *)
(* of the version has.  A maximum of 0 sets no limit, -1 allows none.      *)
Bounds(restrictions, introduced, deprecated, version) ==
  LET least  == Closest(restrictions, "MIN", version)
      most   == Closest(restrictions, "MAX", version)
      raised == IF most # 0 /\ most < least THEN least ELSE most
  IN IF Absent(introduced, deprecated, version)
       THEN [min |-> 0, max |-> -1]
       ELSE [min |-> IF least = -1 THEN 1 ELSE least,
             max |-> IF raised = -1 THEN 1 ELSE raised]

\* A restriction on values that counts for the version.
InForce(restriction, version) ==
  /\ restriction.type = "VALUE"
  /\ Compare(restriction.introduced, version) <= 0
  /\ ~ (/\ restriction.deprecated # NoVersion
        /\ Compare(version, restriction.deprecated) >= 0)

(* dx_restriction_exclusive_value_check: one of the restrictions in force  *)
(* has to allow the value, if there is any; an enum needs one.             *)
Violates(restrictions, isEnum, version, value) ==
  LET active == {i \in DOMAIN restrictions : InForce(restrictions[i], version)} IN
  IF active = {} THEN isEnum
                 ELSE \A i \in active : value \notin restrictions[i].argument
=============================================================================
