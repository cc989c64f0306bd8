------------------------------- MODULE Import -------------------------------
(***************************************************************************)
(* Importing an archive: disir_archive_import determines how each entry    *)
(* stands to the config the system has, disir_import_resolve_entry records *)
(* what the user wants with it, disir_import_finalize writes the entries   *)
(* (lib/disir_archive.cc, disir_import.c).  In between the system goes on: *)
(* its configs may be written and removed by others.                       *)
(*                                                                         *)
(* Abstracted: a config is a version and a content; contents that          *)
(* dc_compare does not tell apart (numbers close to each other: Same of    *)
(* module ConfigTree) count as one.  An update (module UpdateWithChanges)  *)
(* yields one of its outcomes; one that aborts the process or does not end *)
(* is left out.  Entries whose group or mold the system lacks behave like  *)
(* those newer than their mold.                                            *)
(***************************************************************************)
EXTENDS Integers, Sequences, FiniteSets

CONSTANTS
  Entries,  \* the entries of the archive, 1..n in the order they are imported
  Versions, \* versions of configs
  Latest,   \* the version of the molds of the system
  None,     \* no config
  World     \* what else may happen, a subset of Happenings

\* newer:  the system has configs newer than their mold
\* others: somebody writes and removes configs during the import
\* fail:   a config cannot be written
Happenings == {"newer", "others", "fail"}

ASSUME ImportAssumption ==
  /\ IsFiniteSet(Entries) /\ Entries = 1..Cardinality(Entries)
  /\ Versions \subseteq Nat /\ Latest \in Versions
  /\ None \notin [version : Versions, content : {"archive"}]
  /\ World \subseteq Happenings

\* What a config holds: what the archive held for the entry, something else,
\* the first after a successful and after an unsuccessful update, values its
\* mold refuses, and a file that does not parse.
Contents == {"archive", "other", "updated", "halfUpdated", "invalid", "unparsable"}
Configs == [version : Versions, content : Contents]

Options == {"UPDATE", "UPDATE_WITH_DISCARD", "FORCE", "DO", "DISCARD"}
EntryStatuses == {"OK", "CONFLICT", "CONFLICTING_SEMVER", "NO_CAN_DO", "CONFIG_INVALID"}
Lines == {"none", "Imported", "Failed", "Discarded", "Not importable"}

VARIABLES
  system,   \* the config the system has for each entry, or None
  archived, \* the config the archive holds for each entry
  pc,       \* "closed", "open", "writing"
  index,    \* the entry finalize is at
  status,   \* ie_status
  conflict, \* ie_conflict
  import,   \* ie_import
  config,   \* ie_config
  report,   \* ir_entry: what the report says of each entry
  choice,   \* history: the option last accepted for each entry, or "none"
  raced     \* history: the entries whose config others changed since the import

vars == <<system, archived, pc, index, status, conflict, import, config, report,
          choice, raced>>

TypeOK ==
  /\ system \in [Entries -> Configs \cup {None}]
  /\ archived \in [Entries -> Configs]
  /\ pc \in {"closed", "open", "writing"}
  /\ index \in Nat
  /\ status \in [Entries -> EntryStatuses]
  /\ conflict \in [Entries -> BOOLEAN]
  /\ import \in [Entries -> BOOLEAN]
  /\ config \in [Entries -> Configs \cup {None}]
  /\ report \in [Entries -> Lines]
  /\ choice \in [Entries -> Options \cup {"none"}]
  /\ raced \subseteq Entries
  \* import.h: which status goes with a conflict
  /\ \A e \in Entries : status[e] = "CONFLICT" => conflict[e]
----------------------------------------------------------------------------
Readable(v) == v <= Latest

\* The configs the system may have; without "newer" none is newer than its mold.
Installed == [version : {v \in Versions : Readable(v) \/ "newer" \in World},
              content : {"archive", "other", "invalid"}]

Init ==
  /\ system \in [Entries -> {None} \cup Installed]
  /\ archived \in [Entries -> [version : Versions, content : {"archive", "invalid"}]]
  /\ pc = "closed"
  /\ index = 1
  /\ status = [e \in Entries |-> "OK"]
  /\ conflict = [e \in Entries |-> FALSE]
  /\ import = [e \in Entries |-> FALSE]
  /\ config = [e \in Entries |-> None]
  /\ report = [e \in Entries |-> "none"]
  /\ choice = [e \in Entries |-> "none"]
  /\ raced = {}

(* The system goes on: somebody writes, or removes, a config.              *)
Other(e) ==
  /\ "others" \in World
  /\ \E c \in {None} \cup [version : {Latest}, content : {"other"}] :
       c # system[e] /\ system' = [system EXCEPT ![e] = c]
  /\ raced' = IF pc = "closed" THEN {} ELSE raced \cup {e}
  /\ UNCHANGED <<archived, pc, index, status, conflict, import, config, report, choice>>
----------------------------------------------------------------------------
(* import_determine_conflict and the part of dx_resolve_config_import_status *)
(* that follows it.  existing could be newer than its mold: reading it     *)
(* then fails with CONFLICTING_SEMVER.                                     *)
ConflictStatus(existing, imported) ==
  CASE existing = None -> IF imported.version = Latest THEN "OK" ELSE "CONFLICTING_SEMVER"
    [] existing # None /\ ~Readable(existing.version) -> "CONFLICTING_SEMVER"
    [] existing # None /\ Readable(existing.version) /\ existing.content = "invalid" ->
         "CONFIG_INVALID"
    [] existing # None /\ existing.content = "unparsable" -> "FS_ERROR"
    [] OTHER -> IF existing.content # imported.content THEN "CONFLICT"
                ELSE IF existing.version # imported.version THEN "CONFLICTING_SEMVER" ELSE "OK"

\* import_determine_conflict sets ie_conflict for every config it could read,
\* one that is the same as the imported included.
ConflictFound(existing) ==
  /\ existing # None /\ Readable(existing.version)
  /\ existing.content \notin {"invalid", "unparsable"}

\* dx_resolve_config_import_status
ImportStatus(existing, imported) ==
  CASE ~Readable(imported.version) -> "NO_CAN_DO"
    [] Readable(imported.version) /\ imported.content = "invalid" -> "CONFIG_INVALID"
    [] OTHER -> ConflictStatus(existing, imported)

(* disir_archive_import; it fails as a whole when a config of the system   *)
(* does not parse.                                                         *)
ArchiveImport ==
  /\ pc = "closed"
  /\ \A e \in Entries : ImportStatus(system[e], archived[e]) # "FS_ERROR"
  /\ pc' = "open"
  /\ status' = [e \in Entries |-> ImportStatus(system[e], archived[e])]
  /\ conflict' = [e \in Entries |-> /\ Readable(archived[e].version)
                                    /\ archived[e].content # "invalid"
                                    /\ ConflictFound(system[e])]
  /\ import' = [e \in Entries |-> FALSE]
  /\ config' = [e \in Entries |-> IF Readable(archived[e].version) THEN archived[e] ELSE None]
  /\ report' = [e \in Entries |-> "none"]
  /\ choice' = [e \in Entries |-> "none"]
  /\ raced' = {}
  /\ UNCHANGED <<system, archived, index>>
----------------------------------------------------------------------------
\* The checks disir_import_resolve_entry begins with.
Resolvable(e, opt) ==
  /\ status[e] \notin {"NO_CAN_DO", "CONFIG_INVALID"}
  /\ status[e] = "OK" /\ import[e] => opt = "DISCARD"

\* Mutation: the updated config does not take the place of the old one.
AcceptKeepsConfig(e, opt, c) ==
  /\ import' = [import EXCEPT ![e] = TRUE]
  /\ status' = [status EXCEPT ![e] = "OK"]
  /\ choice' = [choice EXCEPT ![e] = opt]
  /\ UNCHANGED config

\* The entry is to be imported, with the config c.
Accept(e, opt, c) ==
  /\ import' = [import EXCEPT ![e] = TRUE]
  /\ status' = [status EXCEPT ![e] = "OK"]
  /\ config' = [config EXCEPT ![e] = c]
  /\ choice' = [choice EXCEPT ![e] = opt]

(* resolve_entry, UPDATE and UPDATE_WITH_DISCARD: the config is updated to *)
(* the version of the mold.  An update that fails has changed it halfway.  *)
ResolveUpdate(e, opt) ==
  /\ pc = "open"
  /\ opt \in {"UPDATE", "UPDATE_WITH_DISCARD"}
  /\ Resolvable(e, opt)
  /\ status[e] \in {"CONFLICT", "CONFLICTING_SEMVER"}
  /\ config[e].version < Latest
  /\ \/ Accept(e, opt, [version |-> Latest, content |-> "updated"])
     \/ /\ config' = [config EXCEPT ![e].content = "halfUpdated"]
        /\ UNCHANGED <<status, import, choice>>
  /\ UNCHANGED <<system, archived, pc, index, conflict, report, raced>>

(* resolve_entry, FORCE *)
ResolveForce(e) ==
  /\ pc = "open"
  /\ Resolvable(e, "FORCE")
  /\ Accept(e, "FORCE", config[e])
  /\ UNCHANGED <<system, archived, pc, index, conflict, report, raced>>

\* Mutation: only the status is looked at.
DoAllowedByStatus(e) == status[e] = "OK"

\* DISIR_IMPORT_DO is refused exactly for the entries with a conflict.
DoAllowed(e) == ~conflict[e]

(* resolve_entry, DO *)
ResolveDo(e) ==
  /\ pc = "open"
  /\ Resolvable(e, "DO")
  /\ DoAllowed(e)
  /\ Accept(e, "DO", config[e])
  /\ UNCHANGED <<system, archived, pc, index, conflict, report, raced>>

\* Mutation: the entry stays marked for import.
ResolveDiscardKeeps(e) ==
  /\ pc = "open" /\ Resolvable(e, "DISCARD")
  /\ choice' = [choice EXCEPT ![e] = "DISCARD"]
  /\ UNCHANGED <<system, archived, pc, index, status, conflict, import, config, report,
                 raced>>

(* resolve_entry, DISCARD *)
ResolveDiscard(e) ==
  /\ pc = "open"
  /\ Resolvable(e, "DISCARD")
  /\ import' = [import EXCEPT ![e] = FALSE]
  /\ choice' = [choice EXCEPT ![e] = "DISCARD"]
  /\ UNCHANGED <<system, archived, pc, index, status, conflict, config, report, raced>>
----------------------------------------------------------------------------
(* disir_import_finalize, DISIR_IMPORT_DO *)
FinalizeDo ==
  /\ pc = "open"
  /\ pc' = "writing"
  /\ index' = 1
  /\ UNCHANGED <<system, archived, status, conflict, import, config, report, choice,
                 raced>>

\* What the report says of an entry; written: disir_config_write, if it was
\* called, returned OK.
\* Mutation: the outcome of disir_config_write is forgotten.
LineUnseen(e, written) ==
  IF status[e] \in {"NO_CAN_DO", "CONFIG_INVALID"} THEN "Not importable"
  ELSE IF import[e] THEN "Imported" ELSE "Discarded"

Line(e, written) ==
  IF status[e] \in {"NO_CAN_DO", "CONFIG_INVALID"} THEN "Not importable"
  ELSE IF ~import[e] THEN "Discarded"
  ELSE IF written THEN "Imported" ELSE "Failed"

(* One turn of its loop: disir_config_write for a resolved entry.  When it *)
(* fails the old config is untouched, or its file was already truncated.   *)
FinalizeEntry ==
  LET e == index IN
  /\ pc = "writing"
  /\ e \in Entries
  /\ index' = index + 1
  /\ \E written \in BOOLEAN :
       /\ report' = [report EXCEPT ![e] = Line(e, written)]
       /\ IF status[e] = "OK" /\ import[e]
          THEN IF written
               THEN system' = [system EXCEPT ![e] = config[e]]
               ELSE /\ "fail" \in World
                    /\ \E c \in {system[e], [version |-> Latest, content |-> "unparsable"]} :
                         system' = [system EXCEPT ![e] = c]
          ELSE written /\ UNCHANGED system
  /\ UNCHANGED <<archived, pc, status, conflict, import, config, choice, raced>>

(* Its end: the import is destroyed, and OK returned.                      *)
FinalizeReturns ==
  /\ pc = "writing"
  /\ index \notin Entries
  /\ pc' = "closed"
  /\ index' = 1
  /\ raced' = {}
  /\ UNCHANGED <<system, archived, status, conflict, import, config, report, choice>>

(* disir_import_finalize, DISIR_IMPORT_DISCARD *)
FinalizeDiscard ==
  /\ pc = "open"
  /\ pc' = "closed"
  /\ raced' = {}
  /\ UNCHANGED <<system, archived, index, status, conflict, import, config, report,
                 choice>>

Next ==
  \/ \E e \in Entries :
       \/ Other(e) \/ ResolveForce(e) \/ ResolveDo(e) \/ ResolveDiscard(e)
       \/ \E opt \in Options : ResolveUpdate(e, opt)
  \/ ArchiveImport \/ FinalizeDo \/ FinalizeEntry \/ FinalizeReturns \/ FinalizeDiscard

Spec == Init /\ [][Next]_vars
----------------------------------------------------------------------------
\* The step is the one in which finalize deals with entry e.
Finalizing(e) == pc = "writing" /\ index = e /\ index' = e + 1

(* The decision last accepted for an entry is the one finalize acts on,    *)
(* through refused options, failed updates and decisions taken back.       *)
LastDecisionCounts ==
  pc # "closed" => \A e \in Entries :
    (status[e] = "OK" /\ import[e]) <=> choice[e] \notin {"none", "DISCARD"}

(* disir_import_finalize writes no entry without a decision to import it,  *)
(* none the system could not read back, and after an update nothing but    *)
(* the updated config: not the archived one, nor one updated halfway.      *)
WritesAreDecided ==
  [][\A e \in Entries :
       Finalizing(e) /\ system'[e] # system[e] =>
         /\ choice[e] \notin {"none", "DISCARD"}
         /\ Readable(system'[e].version)
         /\ choice[e] \in {"UPDATE", "UPDATE_WITH_DISCARD"} =>
              system'[e].content \in {"updated", "unparsable"}]_vars

(* archive.h, DISIR_IMPORT_DO: for a config that "does not exist on the    *)
(* system".  It never replaces one that could be replaced by force only.   *)
DoReplacesNothing ==
  [][\A e \in Entries :
       Finalizing(e) /\ choice[e] = "DO" /\ system'[e] # system[e] => system[e] = None]_vars

(* DISIR_IMPORT_DO replaces a config only where the import could not see   *)
(* it: one that nobody can read, or one written since the import.          *)
DoReplacesOnlyUnseen ==
  [][\A e \in Entries :
       Finalizing(e) /\ choice[e] = "DO" /\ system'[e] # system[e] =>
         system[e] = None \/ ~Readable(system[e].version) \/ e \in raced]_vars

(* The report tells what became of the system: "Imported" for a config it  *)
(* now has, "Failed" for one it does not have although it was to be        *)
(* imported, "Discarded" for one nobody decided to import.                 *)
ReportIsTrue ==
  [][\A e \in Entries : Finalizing(e) =>
       /\ report'[e] = "Imported" => system'[e] = config[e]
       /\ report'[e] \in {"Imported", "Failed"} <=> choice[e] \notin {"none", "DISCARD"}
       /\ report'[e] \notin {"Imported", "Failed"} => system'[e] = system[e]]_vars
=============================================================================
