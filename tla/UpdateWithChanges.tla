------------------------- MODULE UpdateWithChanges -------------------------
(***************************************************************************)
(* dx_update_config_with_changes (lib/update.c): the library as its own    *)
(* client of the update calls, for disir_import_resolve_entry.  It updates *)
(* a config to the version of the mold and resolves every conflict with    *)
(* the value of the config; with discard_violations, with the default of   *)
(* the mold where that value violates a restriction.                       *)
(*                                                                         *)
(* Nothing else runs in between, but the caller may call again, with the   *)
(* config an unsuccessful call has left behind, or after updates of his    *)
(* own that he has given up.                                               *)
(***************************************************************************)
EXTENDS Update

VARIABLES
  pc,      \* the next call of the loop, "return", "idle" without a call
  discard, \* the argument discard_violations
  before,  \* history: the values of the config when it was last set
  began    \* history: and its version

changesVars == <<vars, pc, discard, before, began>>

Calls == {"idle", "resolve", "resolveMold", "continue", "return"}

\* mo_version of the mold
ASSUME LatestAssumption == \E v \in Versions : \A w \in Versions : w <= v
Latest == CHOOSE v \in Versions : \A w \in Versions : w <= v

ChangesTypeOK ==
  /\ TypeOK
  /\ pc \in Calls
  /\ discard \in BOOLEAN
  /\ before \in [Keyvals -> Values \cup {None}]
  /\ began \in Versions
  \* a call works on its own struct disir_update
  /\ pc # "idle" => target = Latest
  /\ pc \in {"resolve", "resolveMold"} => conflict # None

ChangesInit ==
  /\ Init
  /\ pc = "idle"
  /\ discard = FALSE
  /\ before = value
  /\ began = version

\* Between two calls the caller changes the config, or updates it himself.
User ==
  /\ pc = "idle"
  /\ Next
  /\ before' = value'
  /\ began' = version'
  /\ UNCHANGED <<pc, discard>>

(* The first call: a config without a conflict is done.                    *)
Call(d) ==
  /\ pc = "idle"
  /\ Start(Latest)
  /\ pc' = IF status' = "CONFLICT" THEN "resolve" ELSE "return"
  /\ discard' = d
  /\ UNCHANGED <<before, began>>

\* Where the loop goes after the conflict was resolved with the own value.
AfterResolve ==
  CASE status' = "OK" -> "continue"
    [] status' = "RESTRICTION_VIOLATED" /\ discard -> "resolveMold"
    [] OTHER -> "return"

ResolveWithOwn ==
  /\ pc = "resolve"
  /\ Resolve(Reread(conflict, value[conflict]))
  /\ pc' = AfterResolve
  /\ UNCHANGED <<discard, before, began>>

\* Mutation: the value of the config is tried once more.
ResolveWithOwnAgain ==
  /\ pc = "resolveMold"
  /\ Resolve(Reread(conflict, value[conflict]))
  /\ pc' = "continue"
  /\ UNCHANGED <<discard, before, began>>

(* The status of this call is lost: disir_update_continue overwrites it.   *)
ResolveWithMold ==
  /\ pc = "resolveMold"
  /\ Resolve(Reread(conflict, Active(conflict, target)))
  /\ pc' = "continue"
  /\ UNCHANGED <<discard, before, began>>

Loop ==
  /\ pc = "continue"
  /\ Continue
  /\ pc' = IF status' = "CONFLICT" THEN "resolve" ELSE "return"
  /\ UNCHANGED <<discard, before, began>>

\* Mutation: the config is never replaced.
KeepsTargetNever == FALSE

\* The target config replaces the config when the loop was entered and left
\* without an error.  (Without any conflict the config itself was updated.)
KeepsTarget == status = "OK" /\ \E k \in Keyvals : answer[k] # None

Return ==
  /\ pc = "return"
  /\ Finish(KeepsTarget)
  /\ mine' = MineAfter(KeepsTarget)
  /\ pc' = "idle"
  /\ UNCHANGED <<discard, before, began>>

Body == status # "ABORTED" /\ (ResolveWithOwn \/ ResolveWithMold \/ Loop \/ Return)

ChangesNext ==
  \/ User
  \/ status # "ABORTED" /\ \E d \in BOOLEAN : Call(d)
  \/ Body

(* A call that was made runs, unless it aborts: nothing in it waits for    *)
(* anything.                                                               *)
ChangesSpec == ChangesInit /\ [][ChangesNext]_changesVars /\ WF_changesVars(Body)
----------------------------------------------------------------------------
(* Every call returns or aborts, whatever violates which restriction.      *)
CallsReturn == (pc # "idle") ~> (pc = "idle" \/ status = "ABORTED")

(* archive.h, DISIR_IMPORT_UPDATE: "non-default key-values will be applied *)
(* in the upgrade": a value somebody chose is still there afterwards,      *)
(* unless a restriction of the new version forbids it.                     *)
OkKeepsChanges ==
  [][pc = "return" /\ pc' = "idle" /\ status = "OK" =>
       \A k \in mine : value[k] \in mold.allowed[k][target] => value'[k] = value[k]]_changesVars

(* A call that fails can be tried again: what it has changed in the config *)
(* by then does not change the result.  The config it finally hands out,   *)
(* with conflicts, has the values of the first one, as their text is read  *)
(* back, wherever they were in conflict and allowed, and the defaults of   *)
(* the new version elsewhere.                                              *)
Asked(k) ==
  /\ before[k] # None
  /\ Introduced(k, Latest) > began
  /\ ~Same(k, before[k], Active(k, began))
  /\ ~Same(k, before[k], Active(k, Latest))

\* What a conflict about k is resolved with.
Expected(k) ==
  LET own == Reread(k, before[k])
  IN IF own \in mold.allowed[k][Latest] THEN own ELSE Reread(k, Active(k, Latest))

\* Without a conflict, a new default replaces what is taken for the old one.
Refreshed(k) ==
  /\ before[k] # None
  /\ Introduced(k, Latest) > began
  /\ Same(k, before[k], Active(k, began))
  /\ ~Same(k, before[k], Active(k, Latest))

RetriesAgree ==
  pc = "idle" /\ version = Latest /\ began < Latest =>
    IF \E k \in Keyvals : Asked(k)
    THEN \A k \in Generated :
           value[k] = IF Asked(k) THEN Expected(k) ELSE Active(k, Latest)
    ELSE \A k \in Keyvals :
           value[k] = IF Refreshed(k) THEN Active(k, Latest) ELSE before[k]
=============================================================================
