---------------------------- MODULE ArchiveFile ----------------------------
(***************************************************************************)
(* How a disir archive is exported and reaches the disk:                   *)
(* disir_archive_export_begin, the appends of entries and groups, and      *)
(* disir_archive_finalize with dx_archive_disk_append (lib/disir_archive.cc,*)
(* disir_archive_util.cc, disir_export.cc).                                *)
(*                                                                         *)
(* An archive is written to a temporary file first: the data of each       *)
(* entry, and at the end an index of them.  finalize then brings it to its *)
(* path, one system call after the other: a call may fail, the disk may be *)
(* full, the process may die between two calls.  An archive is the set of  *)
(* the configuration entries in it; one whose index names an entry it does *)
(* not hold is refused by dx_archive_validate.                             *)
(***************************************************************************)
EXTENDS Integers, FiniteSets

CONSTANTS
  Paths,   \* the paths a user names archives by, with their extension
  Files,   \* the files these paths lead to
  FileOf,  \* the file of each path
  ConfigEntries, \* the configuration entries of the system
  Groups,  \* their groups
  GroupOf, \* the group of each entry
  NoPath,  \* in place of a path
  Faults,  \* what may go wrong, a subset of AllFaults
  User     \* optional behaviours of the user, a subset of AllUsers

\* io:     a call of the system or of the plugin reports failure
\* full:   the disk is full while a file is copied
\* crash:  the process dies
\* append: an entry is indexed but its data cannot be appended
\* clash:  another process exports under the same temporary file name: the
\*         names are drawn from the time, looked for and only then created
AllFaults == {"io", "full", "crash", "append", "clash"}
\* replace: finalize to a path that holds another archive
\* alias:   name one file by two paths
AllUsers == {"replace", "alias"}

ASSUME ArchiveAssumption ==
  /\ FileOf \in [Paths -> Files]
  /\ NoPath \notin Paths
  /\ GroupOf \in [ConfigEntries -> Groups]
  /\ Faults \subseteq AllFaults /\ User \subseteq AllUsers

VARIABLES
  disk,     \* the archive each file holds: one of Holdings
  backup,   \* the same for the file with ".backup" added to its name
  call,     \* the next system call of the session, "none" without a session
  existing, \* da_existing_path
  content,  \* the entries in the archive of the session (da_config_entries)
  indexed,  \* the entries its index names (da_entries)
  target,   \* archive_path of finalize
  replaced, \* history: the entries of another archive at target
  promised, \* history: what the archive of the session has to hold: the entries
            \* of the existing one and those whose append returned OK
  expected, \* history: what the user knows to be on disk
  returned  \* what the last call returned

exportVars == <<disk, backup, call, existing, content, indexed, target, replaced,
                promised, expected, returned>>

\* What a file holds: no such file, a file that is no valid archive, an archive.
Absent == [kind |-> "absent", entries |-> {}]
Partial == [kind |-> "partial", entries |-> {}]
Whole(c) == [kind |-> "whole", entries |-> c]
Stored == SUBSET ConfigEntries
Holdings == {Absent, Partial} \cup {Whole(c) : c \in Stored}

Steps == {"none", "open", "copy", "copying", "removeExisting", "rename", "restore",
          "removeBackup"}

ExportTypeOK ==
  /\ disk \in [Files -> Holdings]
  /\ backup \in [Files -> Holdings]
  /\ call \in Steps
  /\ existing \in Paths \cup {NoPath}
  /\ content \in Stored /\ indexed \in Stored /\ promised \in Stored
  /\ target \in Paths \cup {NoPath}
  /\ replaced \in Stored
  /\ expected \in Stored
  /\ returned \in {"OK", "ERROR"}
  \* between sessions there is no struct disir_archive
  /\ call = "none" => existing = NoPath /\ indexed = {} /\ target = NoPath
  /\ promised \subseteq content /\ content \subseteq indexed

ExportInit ==
  /\ disk = [f \in Files |-> Absent]
  /\ backup = [f \in Files |-> Absent]
  /\ call = "none"
  /\ existing = NoPath
  /\ content = {} /\ indexed = {} /\ promised = {}
  /\ target = NoPath
  /\ replaced = {}
  /\ expected = {}
  /\ returned = "OK"

File(p) == FileOf[p]
Members(g) == {e \in ConfigEntries : GroupOf[e] = g}

\* The session starts from an archive with the entries c.
StartFrom(c) ==
  /\ call' = "open"
  /\ content' = c /\ indexed' = c /\ promised' = c
----------------------------------------------------------------------------
(* disir_archive_export_begin without a path *)
BeginNew ==
  /\ call = "none"
  /\ StartFrom({})
  /\ existing' = NoPath
  /\ UNCHANGED <<disk, backup, target, replaced, expected, returned>>

(* dx_archive_begin_existing: the entries are copied to the new archive.   *)
(* An archive that does not exist or cannot be validated is refused.       *)
BeginExisting(p) ==
  /\ call = "none"
  /\ disk[File(p)].kind = "whole"
  /\ StartFrom(disk[File(p)].entries)
  /\ existing' = p
  /\ UNCHANGED <<disk, backup, target, replaced, expected, returned>>

\* Mutation: an entry is indexed before its config is read.
IndexedFirst(rest) == {{}} \cup {{e} : e \in rest}

\* The entries that a failure may leave in the index and not in the archive:
\* serialize_entry_index comes between dp_config_fd_write and append_config.
IndexedOnly(rest) ==
  {{}} \cup IF "append" \in Faults THEN {{e} : e \in rest} ELSE {}

(* dx_archive_config_entries_write, entry after entry: the config is read, *)
(* written to a temporary file, indexed and appended.  The first failure   *)
(* ends it; what is in the archive by then stays, and so it does when the  *)
(* failure is that of removing a temporary file.                           *)
EntriesWrite(todo) ==
  \/ /\ content' = content \cup todo
     /\ indexed' = indexed \cup todo
     /\ promised' = promised \cup todo
     /\ returned' = "OK"
  \/ /\ "io" \in Faults
     /\ \E done \in SUBSET todo : \E begun \in IndexedOnly(todo \ done) :
          /\ content' = content \cup done
          /\ indexed' = indexed \cup done \cup begun
     /\ returned' = "ERROR"
     /\ UNCHANGED promised

(* What disir_archive_append_entry and _append_group share: the request is *)
(* refused (EXISTS) when the archive already has one of the entries.        *)
AppendEntries(todo) ==
  /\ call = "open"
  /\ IF content \cap todo # {}
     THEN returned' = "ERROR" /\ UNCHANGED <<content, indexed, promised>>
     ELSE EntriesWrite(todo)
  /\ UNCHANGED <<disk, backup, call, existing, target, replaced, expected>>

(* disir_archive_append_entry *)
AppendEntry(e) == AppendEntries({e})

(* disir_archive_append_group: one entry of the group is enough for EXISTS. *)
AppendGroup(g) == AppendEntries(Members(g))

\* The user's side of the call: which paths he gives.  He looks after a backup
\* that an interrupted finalize left behind before he gives its path again.
UserGives(p) ==
  LET mine == existing # NoPath /\ File(existing) = File(p) IN
  /\ "replace" \in User \/ mine \/ disk[File(p)].kind # "whole"
  /\ "alias" \in User \/ (mine => p = existing)
  /\ backup[File(p)] = Absent

\* dx_archive_disk_append tells the cases apart by the text of the paths.
FirstCall(p) == IF existing = p THEN "rename" ELSE "copy"

(* disir_archive_finalize, up to the first system call that changes files. *)
Finalize(p) ==
  /\ call = "open"
  /\ indexed # {}
  /\ UserGives(p)
  /\ target' = p
  /\ replaced' = IF p = existing THEN {} ELSE disk[File(p)].entries
  /\ call' = FirstCall(p)
  /\ UNCHANGED <<disk, backup, existing, content, indexed, promised, expected, returned>>

(* finalize to a directory without write permission: the archive stays     *)
(* open, the caller may try again.                                         *)
FinalizeRefused ==
  /\ call = "open"
  /\ "io" \in Faults
  /\ returned' = "ERROR"
  /\ UNCHANGED <<disk, backup, call, existing, content, indexed, target, replaced, promised,
                 expected>>

\* finalize returns s: the temporary file and the disir_archive are gone.
Return(s) ==
  /\ call' = "none"
  /\ returned' = s
  /\ existing' = NoPath
  /\ content' = {} /\ indexed' = {} /\ promised' = {}
  /\ target' = NoPath
  /\ replaced' = {}

\* The session goes on with the next call.
session == <<existing, content, indexed, target, replaced, promised, returned>>

(* finalize with no path; with no entries; when writing the metadata or    *)
(* closing the temporary archive fails.                                    *)
Discard ==
  /\ call = "open"
  /\ \E s \in {"OK", "ERROR"} : Return(s)
  /\ UNCHANGED <<disk, backup, expected>>
----------------------------------------------------------------------------
(* dx_archive_disk_append *)

\* OK tells the user that his archive is at its path, instead of what was there.
Told == expected' = (expected \ replaced) \cup promised

(* Case 3: rename of the existing archive to its backup. *)
RenameExisting ==
  /\ call = "rename"
  /\ \/ /\ backup' = [backup EXCEPT ![File(existing)] = disk[File(existing)]]
        /\ disk' = [disk EXCEPT ![File(existing)] = Absent]
        /\ call' = "copy"
        /\ UNCHANGED session
     \/ /\ "io" \in Faults
        /\ Return("ERROR")
        /\ UNCHANGED <<disk, backup>>
  /\ UNCHANGED expected

\* Mutation: the existing archive is removed before the copy is made.
RemoveBeforeCopy ==
  /\ call = "copy"
  /\ disk' = IF existing # NoPath /\ existing # target
             THEN [disk EXCEPT ![File(existing)] = Absent, ![File(target)] = Partial]
             ELSE [disk EXCEPT ![File(target)] = Partial]
  /\ call' = "copying"
  /\ UNCHANGED <<backup, session, expected>>

(* copy_file: opening the destination truncates it. *)
OpenCopy ==
  /\ call = "copy"
  /\ disk' = [disk EXCEPT ![File(target)] = Partial]
  /\ call' = "copying"
  /\ UNCHANGED <<backup, session, expected>>

(* copy_file: a file cannot be opened.  Case 3 goes on to restore. *)
CopyFails ==
  /\ call = "copy"
  /\ "io" \in Faults
  /\ IF existing = target
     THEN call' = "restore" /\ UNCHANGED session
     ELSE Return("ERROR")
  /\ UNCHANGED <<disk, backup, expected>>

\* What follows a copy that copy_file reports as done: returns in case 1.
AfterCopy ==
  IF existing = NoPath THEN Return("OK") /\ Told
  ELSE /\ call' = IF existing = target THEN "removeBackup" ELSE "removeExisting"
       /\ UNCHANGED <<session, expected>>

(* copy_file: the temporary file is copied.  Whether it was is not looked  *)
(* at: on a full disk the copy stays partial and OK is returned all the    *)
(* same; and nothing tells that another process wrote to the same file.    *)
Copied ==
  /\ call = "copying"
  /\ \/ disk' = [disk EXCEPT ![File(target)] =
                    IF indexed = content THEN Whole(content) ELSE Partial]
     \/ Faults \cap {"full", "clash"} # {} /\ UNCHANGED disk
  /\ AfterCopy
  /\ UNCHANGED backup

(* Case 2: the existing archive was written to another path; it goes. *)
RemoveExisting ==
  /\ call = "removeExisting"
  /\ \/ disk' = [disk EXCEPT ![File(existing)] = Absent] /\ Return("OK") /\ Told
     \/ "io" \in Faults /\ Return("ERROR") /\ UNCHANGED <<disk, expected>>
  /\ UNCHANGED backup

(* Case 3: the new archive could not be copied; rename the backup back. *)
Restore ==
  /\ call = "restore"
  /\ \/ /\ disk' = [disk EXCEPT ![File(existing)] = backup[File(existing)]]
        /\ backup' = [backup EXCEPT ![File(existing)] = Absent]
     \/ "io" \in Faults /\ UNCHANGED <<disk, backup>>
  /\ Return("ERROR")
  /\ UNCHANGED expected

(* Case 3: the backup goes. *)
RemoveBackup ==
  /\ call = "removeBackup"
  /\ \/ backup' = [backup EXCEPT ![File(existing)] = Absent] /\ Return("OK") /\ Told
     \/ "io" \in Faults /\ Return("ERROR") /\ UNCHANGED <<backup, expected>>
  /\ UNCHANGED disk

(* The process dies.  The next session starts with what is on disk. *)
Crash ==
  /\ "crash" \in Faults
  /\ call # "none"
  /\ Return("ERROR")
  /\ UNCHANGED <<disk, backup, expected>>

ExportNext ==
  \/ BeginNew \/ \E p \in Paths : BeginExisting(p) \/ Finalize(p)
  \/ \E e \in ConfigEntries : AppendEntry(e)
  \/ \E g \in Groups : AppendGroup(g)
  \/ FinalizeRefused \/ Discard
  \/ RenameExisting \/ OpenCopy \/ CopyFails \/ Copied
  \/ RemoveExisting \/ Restore \/ RemoveBackup
  \/ Crash

ExportSpec == ExportInit /\ [][ExportNext]_exportVars
----------------------------------------------------------------------------
(* archive.h: an existing archive "will be overwritten (with care)".  What *)
(* finalize has once reported as written is on disk ever after, in an      *)
(* archive or in its backup, whichever calls fail while entries are        *)
(* appended or files written, and wherever the process dies, until the     *)
(* user himself replaces it.                                               *)
EntriesSurvive ==
  \A e \in expected : \E f \in Files :
    e \in disk[f].entries \cup backup[f].entries

(* finalize returns OK only when a valid archive is at its path, with all  *)
(* the entries of the existing archive and all those whose append returned *)
(* OK, however many other appends failed in between; and it is there       *)
(* alone: no backup is left, and the archive it was begun from is gone.    *)
OkMeansCommitted ==
  [][target # NoPath /\ call' = "none" /\ returned' = "OK"
       => /\ disk'[File(target)].kind = "whole"
          /\ promised \subseteq disk'[File(target)].entries
          /\ backup'[File(target)] = Absent
          /\ existing \notin {NoPath, target} => disk'[File(existing)] = Absent]_exportVars
=============================================================================
