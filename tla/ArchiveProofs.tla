--------------------------- MODULE ArchiveProofs ---------------------------
(* Theorems about archives, for every set of paths, files, entries, groups *)
(* and versions.                                                           *)
(*                                                                         *)
(* ArchiveFile: an archive that was once reported as written survives      *)
(* failing system calls and crashes.  Its theorems are about a user who    *)
(* neither replaces an archive he did not begin from nor names a file by   *)
(* two paths, on a disk that does not fill up, without a second exporting  *)
(* process: what the code does not guard against (README, further          *)
(* configurations).                                                        *)
(*                                                                         *)
(* Import: every entry is written as was last decided, whatever else       *)
(* happens to the system during the import.                                *)
EXTENDS ArchiveFile, Import, FiniteSetTheorems, TLAPS
----------------------------------------------------------------------------
(* EXPORT                                                                  *)

\* The faults and the user the theorems are about.
Guarded == Faults \subseteq {"io", "crash"} /\ User = {}

InSession == call # "none"
WithTarget == call \notin {"none", "open"}

\* dx_archive_disk_append, case 3: the archive goes back to where it was.
InPlace == existing = target
----------------------------------------------------------------------------
(* The archive of a session: what was promised is in it, and its index     *)
(* names nothing else than what it holds.                                  *)
SessionWhole ==
  /\ promised \subseteq content
  /\ indexed = content
  /\ replaced = {}

(* Which cases of dx_archive_disk_append take which steps.                 *)
StepsOfCases ==
  /\ call = "none" => existing = NoPath
  /\ target # NoPath <=> WithTarget
  /\ call \in {"rename", "restore", "removeBackup"} => InPlace
  /\ call = "removeExisting" => existing # NoPath /\ ~InPlace
  /\ WithTarget /\ existing # NoPath /\ File(existing) = File(target) => InPlace

\* f holds an archive, and nothing that the session has not promised to keep.
Covered(f) == f.kind = "whole" /\ f.entries \subseteq promised

(* Until the new archive is complete the existing one is on disk: at its   *)
(* path, or, while case 3 rewrites that path, in the backup.               *)
ExistingKept ==
  InSession /\ existing # NoPath =>
    IF InPlace /\ call # "rename" THEN Covered(backup[File(target)])
    ELSE Covered(disk[File(existing)])

(* The file that is being written holds no archive yet, and there is no    *)
(* backup of it unless case 3 has made it.                                 *)
TargetFree ==
  WithTarget =>
    /\ call \in {"copy", "copying", "restore"} => disk[File(target)].kind # "whole"
    /\ call \in {"removeExisting", "removeBackup"} => disk[File(target)] = Whole(content)
    /\ ~InPlace \/ call = "rename" => backup[File(target)] = Absent

ExportInv ==
  /\ ExportTypeOK
  /\ SessionWhole
  /\ StepsOfCases
  /\ ExistingKept
  /\ TargetFree
  /\ EntriesSurvive
----------------------------------------------------------------------------
(* What a file without an archive holds has no entries.                    *)
LEMMA HoldingsFacts ==
  /\ Absent \in Holdings /\ Partial \in Holdings
  /\ Absent.entries = {} /\ Partial.entries = {}
  /\ Absent.kind # "whole" /\ Partial.kind # "whole"
  /\ \A c \in Stored : /\ Whole(c) \in Holdings
                       /\ Whole(c).kind = "whole" /\ Whole(c).entries = c
BY DEF Absent, Partial, Whole, Holdings, Stored

LEMMA HeldEntries ==
  ASSUME NEW h \in Holdings
  PROVE  /\ h.entries \in Stored
         /\ h.kind # "whole" => h.entries = {}
BY DEF Absent, Partial, Whole, Holdings, Stored

(* The same for what is on disk, where paths lead.                         *)
LEMMA DiskFacts ==
  ASSUME ExportTypeOK, NEW p \in Paths
  PROVE  /\ File(p) \in Files
         /\ disk[File(p)] \in Holdings /\ backup[File(p)] \in Holdings
         /\ disk[File(p)].entries \in Stored
         /\ disk[File(p)].kind # "whole" => disk[File(p)].entries = {}
<1>1. File(p) \in Files
  BY ArchiveAssumption DEF ArchiveAssumption, File
<1>2. disk[File(p)] \in Holdings /\ backup[File(p)] \in Holdings
  BY <1>1 DEF ExportTypeOK
<1> QED BY <1>1, <1>2, HeldEntries

LEMMA ExportTypeInit == ExportInit => ExportTypeOK
BY HoldingsFacts DEF ExportInit, ExportTypeOK, Stored, Steps

LEMMA ExportTypeNext == ExportTypeOK /\ [ExportNext]_exportVars => ExportTypeOK'
<1> SUFFICES ASSUME ExportTypeOK, [ExportNext]_exportVars PROVE ExportTypeOK'
  OBVIOUS
<1> USE ArchiveAssumption
        DEF ExportTypeOK, ArchiveAssumption, Stored, File, session, Return, Told, Steps
<1>1. CASE BeginNew
  BY <1>1 DEF BeginNew, StartFrom
<1>2. ASSUME NEW p \in Paths, BeginExisting(p) PROVE ExportTypeOK'
  BY <1>2, DiskFacts DEF BeginExisting, StartFrom
<1>3. ASSUME NEW p \in Paths, Finalize(p) PROVE ExportTypeOK'
  <2>1. disk[File(p)].entries \in Stored
    BY DiskFacts
  <2> QED BY <1>3, <2>1 DEF Finalize, FirstCall
<1>4. ASSUME NEW todo \in SUBSET ConfigEntries, AppendEntries(todo) PROVE ExportTypeOK'
  <2>1. CASE content \cap todo # {}
    BY <1>4, <2>1 DEF AppendEntries
  <2>2. CASE content \cap todo = {}
    <3>1. EntriesWrite(todo)
      BY <1>4, <2>2 DEF AppendEntries
    <3> QED BY <1>4, <3>1 DEF AppendEntries, EntriesWrite, IndexedOnly
  <2> QED BY <2>1, <2>2
<1>5. CASE FinalizeRefused
  BY <1>5 DEF FinalizeRefused
<1>6. CASE Discard
  BY <1>6 DEF Discard
<1>7. CASE RenameExisting
  BY <1>7, HoldingsFacts DEF RenameExisting
<1>8. CASE OpenCopy
  BY <1>8, HoldingsFacts DEF OpenCopy
<1>9. CASE CopyFails
  BY <1>9 DEF CopyFails
<1>10. CASE Copied
  BY <1>10, HoldingsFacts DEF Copied, AfterCopy
<1>11. CASE RemoveExisting
  BY <1>11, HoldingsFacts DEF RemoveExisting
<1>12. CASE Restore
  BY <1>12, HoldingsFacts DEF Restore
<1>13. CASE RemoveBackup
  BY <1>13, HoldingsFacts DEF RemoveBackup
<1>14. CASE Crash
  BY <1>14 DEF Crash
<1>15. CASE UNCHANGED exportVars
  BY <1>15 DEF exportVars
<1>16. \A e \in ConfigEntries : {e} \in SUBSET ConfigEntries
  OBVIOUS
<1>17. \A g \in Groups : Members(g) \in SUBSET ConfigEntries
  BY DEF Members
<1> QED
  BY <1>1, <1>2, <1>3, <1>4, <1>5, <1>6, <1>7, <1>8, <1>9, <1>10, <1>11, <1>12, <1>13,
     <1>14, <1>15, <1>16, <1>17 DEF ExportNext, AppendEntry, AppendGroup

(* ArchiveFile is well typed, whatever fails and whatever the user does.    *)
THEOREM ExportTypeCorrect == ExportSpec => []ExportTypeOK
<1> QED BY ExportTypeInit, ExportTypeNext, PTL DEF ExportSpec
----------------------------------------------------------------------------
\* The conjuncts of Inv about the session.
SessionInv == SessionWhole /\ StepsOfCases /\ ExistingKept /\ TargetFree

LEMMA ExportInvInit == ExportInit => ExportInv
BY ExportTypeInit DEF ExportInit, ExportInv, SessionWhole, StepsOfCases, ExistingKept, TargetFree,
                EntriesSurvive, InSession, WithTarget

(* A session that is over leaves nothing to keep.                          *)
LEMMA ReturnInv ==
  ASSUME NEW s, Return(s)
  PROVE  SessionInv'
BY DEF Return, SessionInv, SessionWhole, StepsOfCases, ExistingKept, TargetFree,
       InSession, WithTarget

(* What was expected stays on disk when no file changes.                   *)
LEMMA SameFiles ==
  ASSUME EntriesSurvive, UNCHANGED <<disk, backup, expected>>
  PROVE  EntriesSurvive'
BY DEF EntriesSurvive

(* No entry is lost when every file keeps its entries, those of two files  *)
(* excepted, of which one takes over what the other had and is told of.    *)
LEMMA FilesKeepEntries ==
  ASSUME EntriesSurvive,
         NEW gained, expected' \subseteq expected \cup gained,
         \A f \in Files : \A e \in disk[f].entries \cup backup[f].entries :
            \E g \in Files : e \in disk'[g].entries \cup backup'[g].entries,
         \A e \in gained : \E g \in Files : e \in disk'[g].entries
  PROVE  EntriesSurvive'
BY DEF EntriesSurvive

LEMMA SessionNext ==
  ASSUME Guarded, ExportInv, [ExportNext]_exportVars
  PROVE  SessionInv'
<1> USE ArchiveAssumption
        DEF ArchiveAssumption, Guarded, SessionInv, SessionWhole, StepsOfCases, ExistingKept,
            TargetFree, InSession, WithTarget, InPlace, Covered
<1>1. ExportTypeOK /\ SessionInv
  BY DEF ExportInv
<1>2. CASE BeginNew
  BY <1>1, <1>2 DEF BeginNew, StartFrom, ExportTypeOK
<1>3. ASSUME NEW p \in Paths, BeginExisting(p) PROVE SessionInv'
  BY <1>1, <1>3, DiskFacts DEF BeginExisting, StartFrom, ExportTypeOK
<1>4. ASSUME NEW p \in Paths, Finalize(p) PROVE SessionInv'
  BY <1>1, <1>4, DiskFacts DEF Finalize, UserGives, FirstCall, ExportTypeOK
<1>5. ASSUME NEW todo \in SUBSET ConfigEntries, AppendEntries(todo) PROVE SessionInv'
  <2>1. CASE content \cap todo # {}
    BY <1>1, <1>5, <2>1 DEF AppendEntries
  <2>2. CASE content \cap todo = {}
    <3>1. EntriesWrite(todo)
      BY <1>5, <2>2 DEF AppendEntries
    <3> QED BY <1>1, <1>5, <3>1 DEF AppendEntries, EntriesWrite, IndexedOnly
  <2> QED BY <2>1, <2>2
<1>6. CASE FinalizeRefused
  BY <1>1, <1>6 DEF FinalizeRefused
<1>7. CASE Discard
  BY <1>7, ReturnInv DEF Discard
<1>8. CASE RenameExisting
  <2>1. CASE call' = "none"
    BY <1>8, <2>1, ReturnInv DEF RenameExisting
  <2>2. CASE call' = "copy"
    <3>1. /\ existing \in Paths /\ existing = target
          /\ File(existing) \in Files
      BY <1>1, <1>8, DiskFacts DEF RenameExisting, ExportTypeOK
    <3>2. /\ disk' = [disk EXCEPT ![File(target)] = Absent]
          /\ backup' = [backup EXCEPT ![File(target)] = disk[File(target)]]
          /\ UNCHANGED session
      BY <1>8, <2>2, <3>1 DEF RenameExisting, Return
    <3>3. disk'[File(target)] = Absent /\ backup'[File(target)] = disk[File(target)]
      BY <1>1, <3>1, <3>2 DEF ExportTypeOK
    <3>4. Covered(disk[File(target)])
      BY <1>1, <1>8, <3>1, ArchiveAssumption DEF RenameExisting, ArchiveAssumption
    <3> QED BY <1>1, <1>8, <2>2, <3>1, <3>2, <3>3, <3>4, HoldingsFacts
            DEF RenameExisting, session
  <2> QED BY <1>8, <2>1, <2>2 DEF RenameExisting, Return
<1>9. CASE OpenCopy
  <2>1. /\ target \in Paths /\ File(target) \in Files
        /\ existing # NoPath => existing \in Paths
    BY <1>1, <1>9, DiskFacts DEF OpenCopy, ExportTypeOK
  <2>2. disk'[File(target)] = Partial
    BY <1>1, <1>9, <2>1 DEF OpenCopy, ExportTypeOK
  <2>3. existing # NoPath /\ ~InPlace => disk'[File(existing)] = disk[File(existing)]
    BY <1>1, <1>9, <2>1 DEF OpenCopy, ExportTypeOK
  <2> QED BY <1>1, <1>9, <2>1, <2>2, <2>3, HoldingsFacts DEF OpenCopy, session
<1>10. CASE CopyFails
  BY <1>1, <1>10, ReturnInv DEF CopyFails, session
<1>11. CASE Copied
  <2>1. CASE call' = "none"
    BY <1>11, <2>1, ReturnInv DEF Copied, AfterCopy
  <2>2. CASE call' # "none"
    <3>1. /\ target \in Paths /\ File(target) \in Files
          /\ existing \in Paths /\ existing # NoPath
      BY <1>1, <1>11, <2>2, DiskFacts DEF Copied, AfterCopy, Return, ExportTypeOK
    <3>2. /\ UNCHANGED <<session, backup>>
          /\ call' = IF InPlace THEN "removeBackup" ELSE "removeExisting"
      BY <1>11, <2>2, <3>1 DEF Copied, AfterCopy, Return
    <3>3. disk' = [disk EXCEPT ![File(target)] = Whole(content)]
      BY <1>1, <1>11 DEF Copied
    <3>4. disk'[File(target)] = Whole(content)
      BY <1>1, <3>1, <3>3 DEF ExportTypeOK
    <3>5. ~InPlace => disk'[File(existing)] = disk[File(existing)]
      BY <1>1, <1>11, <3>1, <3>3 DEF Copied, ExportTypeOK
    <3> QED BY <1>1, <1>11, <2>2, <3>1, <3>2, <3>4, <3>5 DEF Copied, session
  <2> QED BY <2>1, <2>2
<1>12. CASE RemoveExisting
  BY <1>12, ReturnInv DEF RemoveExisting
<1>13. CASE Restore
  BY <1>13, ReturnInv DEF Restore
<1>14. CASE RemoveBackup
  BY <1>14, ReturnInv DEF RemoveBackup
<1>15. CASE Crash
  BY <1>15, ReturnInv DEF Crash
<1>16. CASE UNCHANGED exportVars
  BY <1>1, <1>16 DEF exportVars
<1>17. \A e \in ConfigEntries : {e} \in SUBSET ConfigEntries
  OBVIOUS
<1>18. \A g \in Groups : Members(g) \in SUBSET ConfigEntries
  BY DEF Members
<1> QED
  BY <1>2, <1>3, <1>4, <1>5, <1>6, <1>7, <1>8, <1>9, <1>10, <1>11, <1>12, <1>13,
     <1>14, <1>15, <1>16, <1>17, <1>18 DEF ExportNext, AppendEntry, AppendGroup
----------------------------------------------------------------------------
(* Each system call of dx_archive_disk_append leaves the entries that were  *)
(* expected on disk: what it removes is in the new archive, in the backup,  *)
(* or was no archive.                                                       *)
LEMMA SurviveNext ==
  ASSUME Guarded, ExportInv, [ExportNext]_exportVars
  PROVE  EntriesSurvive'
<1> USE DEF Guarded, SessionWhole, StepsOfCases, ExistingKept, TargetFree, InSession,
            WithTarget, InPlace, Covered
<1> DEFINE Same == UNCHANGED <<disk, backup, expected>>
<1>1. /\ ExportTypeOK /\ SessionWhole /\ StepsOfCases /\ ExistingKept /\ TargetFree
      /\ EntriesSurvive
  BY DEF ExportInv
<1>2. CASE Same
  BY <1>1, <1>2, SameFiles
<1>3. CASE RenameExisting /\ ~Same
  <2>1. /\ existing \in Paths /\ existing = target
        /\ File(existing) \in Files
    BY <1>1, <1>3, DiskFacts DEF RenameExisting, ExportTypeOK
  <2>2. /\ disk' = [disk EXCEPT ![File(target)] = Absent]
        /\ backup' = [backup EXCEPT ![File(target)] = disk[File(target)]]
        /\ UNCHANGED expected
    BY <1>3, <2>1 DEF RenameExisting
  <2>3. backup[File(target)].entries = {}
    BY <1>1, <1>3, HoldingsFacts DEF RenameExisting
  <2>4. backup'[File(target)] = disk[File(target)]
    BY <1>1, <2>1, <2>2 DEF ExportTypeOK
  <2>5. \A f \in Files \ {File(target)} : disk'[f] = disk[f] /\ backup'[f] = backup[f]
    BY <1>1, <2>1, <2>2 DEF ExportTypeOK
  <2> QED BY <1>1, <2>1, <2>2, <2>3, <2>4, <2>5, FilesKeepEntries
<1>4. CASE OpenCopy
  <2>1. target \in Paths /\ File(target) \in Files
    BY <1>1, <1>4, DiskFacts DEF OpenCopy, ExportTypeOK
  <2>2. disk[File(target)].entries = {}
    BY <1>1, <1>4, <2>1, DiskFacts DEF OpenCopy
  <2>3. \A f \in Files \ {File(target)} : disk'[f] = disk[f]
    BY <1>1, <1>4, <2>1 DEF OpenCopy, ExportTypeOK
  <2> QED BY <1>1, <1>4, <2>1, <2>2, <2>3, FilesKeepEntries DEF OpenCopy
<1>5. CASE Copied
  <2>1. target \in Paths /\ File(target) \in Files
    BY <1>1, <1>5, DiskFacts DEF Copied, ExportTypeOK
  <2>2. disk[File(target)].entries = {}
    BY <1>1, <1>5, <2>1, DiskFacts DEF Copied
  <2>3. disk' = [disk EXCEPT ![File(target)] = Whole(content)]
    BY <1>1, <1>5 DEF Copied
  <2>4. \A f \in Files \ {File(target)} : disk'[f] = disk[f]
    BY <1>1, <2>1, <2>3 DEF ExportTypeOK
  <2>5. disk'[File(target)].entries = content
    BY <1>1, <2>1, <2>3, HoldingsFacts DEF ExportTypeOK
  <2>6. UNCHANGED backup /\ expected' \subseteq expected \cup promised
    BY <1>1, <1>5 DEF Copied, AfterCopy, Told
  <2> QED BY <1>1, <2>1, <2>2, <2>4, <2>5, <2>6, FilesKeepEntries
<1>6. CASE RemoveExisting /\ ~Same
  <2>1. /\ target \in Paths /\ File(target) \in Files
        /\ existing \in Paths /\ File(existing) \in Files
        /\ File(existing) # File(target)
    BY <1>1, <1>6, DiskFacts DEF RemoveExisting, ExportTypeOK
  <2>2. /\ disk' = [disk EXCEPT ![File(existing)] = Absent]
        /\ UNCHANGED backup /\ expected' \subseteq expected \cup promised
    BY <1>1, <1>6 DEF RemoveExisting, Told
  <2>3. \A f \in Files \ {File(existing)} : disk'[f] = disk[f]
    BY <1>1, <2>1, <2>2 DEF ExportTypeOK
  <2>4. disk'[File(target)].entries = content
    BY <1>1, <1>6, <2>1, <2>3, HoldingsFacts DEF RemoveExisting, ExportTypeOK
  <2>5. disk[File(existing)].entries \subseteq content
    BY <1>1, <1>6, <2>1 DEF RemoveExisting, ExportTypeOK
  <2> QED BY <1>1, <2>1, <2>2, <2>3, <2>4, <2>5, FilesKeepEntries
<1>7. CASE Restore /\ ~Same
  <2>1. /\ existing \in Paths /\ existing = target
        /\ File(existing) \in Files
    BY <1>1, <1>7, DiskFacts DEF Restore, ExportTypeOK
  <2>2. disk[File(existing)].entries = {}
    BY <1>1, <1>7, <2>1, DiskFacts DEF Restore
  <2>3. /\ disk' = [disk EXCEPT ![File(existing)] = backup[File(existing)]]
        /\ backup' = [backup EXCEPT ![File(existing)] = Absent]
        /\ UNCHANGED expected
    BY <1>7 DEF Restore
  <2>4. disk'[File(existing)] = backup[File(existing)]
    BY <1>1, <2>1, <2>3 DEF ExportTypeOK
  <2>5. \A f \in Files \ {File(existing)} : disk'[f] = disk[f] /\ backup'[f] = backup[f]
    BY <1>1, <2>1, <2>3 DEF ExportTypeOK
  <2> QED BY <1>1, <2>1, <2>2, <2>3, <2>4, <2>5, FilesKeepEntries
<1>8. CASE RemoveBackup /\ ~Same
  <2>1. /\ existing \in Paths /\ existing = target
        /\ File(existing) \in Files
    BY <1>1, <1>8, DiskFacts DEF RemoveBackup, ExportTypeOK
  <2>2. /\ backup' = [backup EXCEPT ![File(existing)] = Absent]
        /\ UNCHANGED disk /\ expected' \subseteq expected \cup promised
    BY <1>1, <1>8 DEF RemoveBackup, Told
  <2>3. \A f \in Files \ {File(existing)} : backup'[f] = backup[f]
    BY <1>1, <2>1, <2>2 DEF ExportTypeOK
  <2>4. disk'[File(target)].entries = content
    BY <1>1, <1>8, <2>2, HoldingsFacts DEF RemoveBackup, ExportTypeOK
  <2>5. backup[File(existing)].entries \subseteq content
    BY <1>1, <1>8, <2>1 DEF RemoveBackup, ExportTypeOK
  <2> QED BY <1>1, <2>1, <2>2, <2>3, <2>4, <2>5, FilesKeepEntries
<1>9. \/ Same
      \/ RenameExisting /\ ~Same
      \/ OpenCopy \/ Copied
      \/ RemoveExisting /\ ~Same
      \/ Restore /\ ~Same
      \/ RemoveBackup /\ ~Same
  BY DEF ExportNext, exportVars, BeginNew, BeginExisting, Finalize, AppendEntry, AppendGroup,
         AppendEntries, FinalizeRefused, Discard, CopyFails, Crash
<1> QED BY <1>2, <1>3, <1>4, <1>5, <1>6, <1>7, <1>8, <1>9

(* The invariant holds for any archives, entries and groups, through every *)
(* failing call and every crash.                                           *)
THEOREM ExportInvHolds ==
  ASSUME Guarded
  PROVE  ExportSpec => []ExportInv
<1>1. ExportInv /\ [ExportNext]_exportVars => ExportInv'
  BY SessionNext, SurviveNext, ExportTypeNext DEF ExportInv, SessionInv
<1> QED BY ExportInvInit, <1>1, PTL DEF ExportSpec

(* What finalize has once reported as written is in an archive, or in its  *)
(* backup, ever after: through every failing system call and every crash,  *)
(* for any number of archives, entries and groups.                         *)
THEOREM WrittenSurvives ==
  ASSUME Guarded
  PROVE  ExportSpec => []EntriesSurvive
<1>1. ExportInv => EntriesSurvive
  BY DEF ExportInv
<1> QED BY ExportInvHolds, <1>1, PTL

(* finalize returns OK only for a complete archive that is at its path and *)
(* nowhere else.                                                           *)
THEOREM OkCommits ==
  ASSUME Guarded
  PROVE  ExportSpec => OkMeansCommitted
<1> DEFINE Committed ==
      target # NoPath /\ call' = "none" /\ returned' = "OK"
        => /\ disk'[File(target)].kind = "whole"
           /\ promised \subseteq disk'[File(target)].entries
           /\ backup'[File(target)] = Absent
           /\ existing \notin {NoPath, target} => disk'[File(existing)] = Absent
<1>1. ExportInv /\ [ExportNext]_exportVars => [Committed]_exportVars
  <2> SUFFICES ASSUME ExportInv, ExportNext, target # NoPath, call' = "none", returned' = "OK"
               PROVE  Committed
    BY DEF exportVars
  <2> USE DEF SessionWhole, StepsOfCases, ExistingKept, TargetFree, InSession, WithTarget,
              InPlace, Covered
  <2>1. /\ ExportTypeOK /\ SessionWhole /\ StepsOfCases /\ ExistingKept /\ TargetFree
    BY DEF ExportInv
  <2>2. target \in Paths /\ File(target) \in Files /\ WithTarget
    BY <2>1, DiskFacts DEF ExportTypeOK
  <2>3. CASE Copied
    <3>1. existing = NoPath /\ backup'[File(target)] = Absent
      BY <2>1, <2>2, <2>3, ArchiveAssumption DEF Copied, AfterCopy, ArchiveAssumption
    <3>2. disk'[File(target)] = Whole(content)
      BY <2>1, <2>2, <2>3 DEF Copied, ExportTypeOK, Guarded
    <3> QED BY <2>1, <3>1, <3>2, HoldingsFacts DEF ExportTypeOK
  <2>4. CASE RemoveExisting
    <3>1. /\ existing \in Paths /\ File(existing) \in Files /\ File(existing) # File(target)
          /\ disk' = [disk EXCEPT ![File(existing)] = Absent] /\ UNCHANGED backup
      BY <2>1, <2>2, <2>4, DiskFacts DEF RemoveExisting, Return, ExportTypeOK
    <3>2. disk'[File(target)] = Whole(content) /\ disk'[File(existing)] = Absent
      BY <2>1, <2>2, <2>4, <3>1 DEF RemoveExisting, ExportTypeOK
    <3> QED BY <2>1, <2>2, <2>4, <3>1, <3>2, HoldingsFacts DEF RemoveExisting, ExportTypeOK
  <2>5. CASE RemoveBackup
    <3>1. /\ existing = target /\ UNCHANGED disk
          /\ backup' = [backup EXCEPT ![File(existing)] = Absent]
      BY <2>1, <2>5 DEF RemoveBackup, Return
    <3>2. disk'[File(target)] = Whole(content) /\ backup'[File(target)] = Absent
      BY <2>1, <2>2, <2>5, <3>1 DEF RemoveBackup, ExportTypeOK
    <3> QED BY <2>1, <3>1, <3>2, HoldingsFacts DEF ExportTypeOK
  <2>6. Copied \/ RemoveExisting \/ RemoveBackup
    BY <2>1, <2>2 DEF ExportNext, BeginNew, BeginExisting, StartFrom, Finalize, AppendEntry,
          AppendGroup, AppendEntries, FinalizeRefused, Discard, RenameExisting, OpenCopy, CopyFails,
          Restore, Crash, Return
  <2> QED BY <2>3, <2>4, <2>5, <2>6
<1> QED BY ExportInvHolds, <1>1, PTL DEF ExportSpec, OkMeansCommitted
----------------------------------------------------------------------------
(* IMPORT                                                                  *)

Importing == pc # "closed"
Refused == {"NO_CAN_DO", "CONFIG_INVALID"}
Undecided == {"none", "DISCARD"}
Updates == {"UPDATE", "UPDATE_WITH_DISCARD"}

(* Only an entry whose status became OK is marked for import.              *)
MarkedAreOk == \A e \in Entries : import[e] => status[e] = "OK"

(* What could be imported was read from the archive, by the mold of now;   *)
(* and so is what an update made of it.                                    *)
ImportableIsReadable ==
  Importing => \A e \in Entries :
    status[e] \notin Refused => config[e] \in Configs /\ Readable(config[e].version)

(* After an accepted update the entry holds the updated config.            *)
UpdatedIsHeld ==
  Importing => \A e \in Entries : choice[e] \in Updates => config[e].content = "updated"

(* What DISIR_IMPORT_DO was accepted for had no conflict.                  *)
DoHasNoConflict == \A e \in Entries : choice[e] = "DO" => ~conflict[e]

\* finalize has not come to e yet.
Ahead(e) == pc = "writing" => index <= e

(* An entry without a conflict stands for no config of the system, or for  *)
(* one nobody could read, until finalize writes it or somebody else does.  *)
NoConflictNothingSeen ==
  Importing => \A e \in Entries :
    status[e] \notin Refused /\ ~conflict[e] /\ e \notin raced /\ Ahead(e)
      => system[e] = None \/ ~Readable(system[e].version)

ImportInv ==
  /\ TypeOK
  /\ MarkedAreOk
  /\ LastDecisionCounts
  /\ ImportableIsReadable
  /\ UpdatedIsHeld
  /\ DoHasNoConflict
  /\ NoConflictNothingSeen
----------------------------------------------------------------------------
LEMMA NumberFacts == Versions \subseteq Nat /\ Latest \in Versions /\ Entries \subseteq Nat
<1>1. Versions \subseteq Nat /\ Latest \in Versions
  BY ImportAssumption DEF ImportAssumption
<1>2. Entries = 1..Cardinality(Entries)
  BY ImportAssumption DEF ImportAssumption
<1>3. Cardinality(Entries) \in Nat
  BY ImportAssumption, FS_CardinalityType DEF ImportAssumption
<1> QED BY <1>1, <1>2, <1>3

(* dx_resolve_config_import_status: what an importable status says of the  *)
(* config in the archive and of the one the system has.                    *)
LEMMA StatusFacts ==
  ASSUME NEW present \in Configs \cup {None}, NEW imported \in Configs,
         ImportStatus(present, imported) # "FS_ERROR"
  PROVE  LET s == ImportStatus(present, imported) IN
         /\ s \in EntryStatuses
         /\ s = "CONFLICT" => /\ Readable(imported.version) /\ imported.content # "invalid"
                              /\ ConflictFound(present)
         /\ s \notin Refused => /\ Readable(imported.version)
                                /\ imported.content # "invalid"
                                /\ \/ ConflictFound(present)
                                   \/ present = None \/ ~Readable(present.version)
<1> DEFINE s == ImportStatus(present, imported)
<1>1. CASE ~Readable(imported.version)
  BY <1>1 DEF ImportStatus, EntryStatuses, Refused
<1>2. CASE Readable(imported.version) /\ imported.content = "invalid"
  BY <1>2 DEF ImportStatus, EntryStatuses, Refused
<1>3. CASE Readable(imported.version) /\ imported.content # "invalid"
  <2>1. s = ConflictStatus(present, imported)
    BY <1>3 DEF ImportStatus
  <2>2. CASE present = None
    BY <1>3, <2>1, <2>2 DEF ConflictStatus, EntryStatuses
  <2>3. CASE present # None /\ ~Readable(present.version)
    BY <1>3, <2>1, <2>3 DEF ConflictStatus, EntryStatuses
  <2>4. CASE /\ present # None /\ Readable(present.version)
             /\ present.content = "invalid"
    BY <1>3, <2>1, <2>4 DEF ConflictStatus, EntryStatuses, Refused
  <2>5. CASE /\ present # None /\ Readable(present.version)
             /\ present.content = "unparsable"
    BY <1>3, <2>1, <2>5 DEF ConflictStatus
  <2>6. CASE ConflictFound(present)
    BY <1>3, <2>1, <2>6 DEF ConflictStatus, ConflictFound, EntryStatuses
  <2> QED BY <2>2, <2>3, <2>4, <2>5, <2>6 DEF ConflictFound
<1> QED BY <1>1, <1>2, <1>3
----------------------------------------------------------------------------
LEMMA ImportInvInit == Init => ImportInv
<1> SUFFICES ASSUME Init PROVE ImportInv
  OBVIOUS
<1>1. TypeOK
  BY DEF Init, TypeOK, Installed, Configs, Contents, EntryStatuses, Lines
<1> QED
  BY <1>1 DEF Init, ImportInv, MarkedAreOk, LastDecisionCounts, ImportableIsReadable, UpdatedIsHeld,
              DoHasNoConflict, NoConflictNothingSeen, Importing

(* What the user and the report say of the entries stays typed when one of *)
(* them is decided.                                                        *)
LEMMA AcceptTypes ==
  ASSUME TypeOK, NEW e \in Entries, NEW opt \in Options, NEW c \in Configs,
         Accept(e, opt, c), UNCHANGED <<system, archived, pc, index, conflict, report, raced>>
  PROVE  TypeOK'
BY DEF TypeOK, Accept, EntryStatuses

LEMMA AcceptInv ==
  ASSUME ImportInv, pc = "open", NEW e \in Entries, NEW opt \in Options \ {"DISCARD"},
         NEW c \in Configs, Readable(c.version),
         opt \in Updates => c.content = "updated",
         opt = "DO" => ~conflict[e],
         status[e] \notin Refused,
         Accept(e, opt, c), UNCHANGED <<system, archived, pc, index, conflict, report, raced>>
  PROVE  ImportInv'
<1> USE DEF ImportInv, Accept, Updates, Refused
<1>1. TypeOK'
  BY AcceptTypes
<1>2. /\ import' = [import EXCEPT ![e] = TRUE] /\ status' = [status EXCEPT ![e] = "OK"]
      /\ config' = [config EXCEPT ![e] = c] /\ choice' = [choice EXCEPT ![e] = opt]
      /\ opt \notin {"none", "DISCARD"}
  BY DEF Options
<1>3. MarkedAreOk'
  BY <1>2 DEF MarkedAreOk, TypeOK
<1>4. LastDecisionCounts'
  BY <1>2 DEF LastDecisionCounts, TypeOK
<1>5. ImportableIsReadable'
  BY <1>2 DEF ImportableIsReadable, Importing, Readable, TypeOK
<1>6. UpdatedIsHeld'
  BY <1>2 DEF UpdatedIsHeld, Importing, TypeOK
<1>7. DoHasNoConflict'
  BY <1>2 DEF DoHasNoConflict, TypeOK
<1>8. NoConflictNothingSeen'
  BY <1>2 DEF NoConflictNothingSeen, Importing, Ahead, Readable, TypeOK
<1> QED BY <1>1, <1>3, <1>4, <1>5, <1>6, <1>7, <1>8

(* disir_archive_import opens an import that nothing is decided of yet.     *)
LEMMA ArchiveImportInv ==
  ASSUME ImportInv, ArchiveImport
  PROVE  ImportInv'
<1> USE DEF ArchiveImport, Refused
<1>1. TypeOK
  BY DEF ImportInv
<1>2. ASSUME NEW e \in Entries
      PROVE  /\ system[e] \in Configs \cup {None} /\ archived[e] \in Configs
             /\ ImportStatus(system[e], archived[e]) # "FS_ERROR"
  BY <1>1 DEF TypeOK
<1>3. TypeOK'
  <2>1. status' \in [Entries -> EntryStatuses]
    BY <1>2, StatusFacts
  <2>2. \A e \in Entries : status'[e] = "CONFLICT" => conflict'[e]
    BY <1>2, StatusFacts
  <2>3. conflict' \in [Entries -> BOOLEAN]
    BY DEF ConflictFound
  <2> QED BY <1>1, <2>1, <2>2, <2>3 DEF TypeOK, Lines
<1>4. ImportableIsReadable'
  BY <1>2, StatusFacts DEF ImportableIsReadable, Readable
<1>5. NoConflictNothingSeen'
  BY <1>2, StatusFacts DEF NoConflictNothingSeen, Readable
<1>6. MarkedAreOk' /\ LastDecisionCounts' /\ UpdatedIsHeld' /\ DoHasNoConflict'
  BY DEF MarkedAreOk, LastDecisionCounts, UpdatedIsHeld, DoHasNoConflict, Updates
<1> QED BY <1>3, <1>4, <1>5, <1>6 DEF ImportInv

(* The calls of disir_import_resolve_entry.                                *)
LEMMA ResolveInv ==
  ASSUME ImportInv, NEW e \in Entries,
         \/ ResolveForce(e) \/ ResolveDo(e) \/ ResolveDiscard(e)
         \/ \E opt \in Options : ResolveUpdate(e, opt)
  PROVE  ImportInv'
<1> USE DEF Refused, Updates
<1>1. TypeOK /\ ImportableIsReadable
  BY DEF ImportInv
<1>2. CASE ResolveForce(e)
  BY <1>1, <1>2, AcceptInv DEF ResolveForce, Resolvable, ImportableIsReadable, Importing, Options
<1>3. CASE ResolveDo(e)
  BY <1>1, <1>3, AcceptInv
     DEF ResolveDo, Resolvable, DoAllowed, ImportableIsReadable, Importing, Options
<1>4. CASE ResolveDiscard(e)
  BY <1>4 DEF ImportInv, ResolveDiscard, TypeOK, MarkedAreOk, LastDecisionCounts,
              ImportableIsReadable, UpdatedIsHeld, DoHasNoConflict, NoConflictNothingSeen,
              Importing, Ahead, Readable, Options
<1>5. ASSUME NEW opt \in Options, ResolveUpdate(e, opt) PROVE ImportInv'
  <2> DEFINE updated == [version |-> Latest, content |-> "updated"]
  <2>1. updated \in Configs /\ Readable(updated.version)
    BY NumberFacts DEF Configs, Contents, Readable
  <2>2. CASE Accept(e, opt, updated)
    BY <1>1, <1>5, <2>1, <2>2, AcceptInv DEF ResolveUpdate
  <2>3. CASE /\ config' = [config EXCEPT ![e].content = "halfUpdated"]
             /\ UNCHANGED <<status, import, choice>>
    <3>1. pc = "open" /\ status[e] \in {"CONFLICT", "CONFLICTING_SEMVER"}
          /\ UNCHANGED <<system, archived, pc, index, conflict, report, raced>>
      BY <1>5 DEF ResolveUpdate
    <3>2. config[e] \in Configs /\ Readable(config[e].version)
      BY <1>1, <3>1 DEF ImportableIsReadable, Importing
    <3> DEFINE half == [config[e] EXCEPT !.content = "halfUpdated"]
    <3>3. half \in Configs /\ half.version = config[e].version
      BY <3>2 DEF Configs, Contents
    <3>4. config' = [config EXCEPT ![e] = half]
      BY <2>3
    <3> HIDE DEF half
    <3>5. choice[e] \notin Updates
      BY <3>1 DEF ImportInv, LastDecisionCounts
    <3> QED
      BY <2>3, <3>1, <3>2, <3>3, <3>4, <3>5
         DEF ImportInv, TypeOK, MarkedAreOk, LastDecisionCounts, ImportableIsReadable,
             UpdatedIsHeld, DoHasNoConflict, NoConflictNothingSeen, Importing, Ahead, Readable
  <2> QED BY <1>5, <2>2, <2>3 DEF ResolveUpdate
<1> QED BY <1>2, <1>3, <1>4, <1>5

(* The turns of disir_import_finalize, and its ends.                       *)
LEMMA FinalizeInv ==
  ASSUME ImportInv, FinalizeDo \/ FinalizeEntry \/ FinalizeReturns \/ FinalizeDiscard
  PROVE  ImportInv'
<1> USE DEF ImportInv, MarkedAreOk, LastDecisionCounts, ImportableIsReadable, UpdatedIsHeld,
            DoHasNoConflict, NoConflictNothingSeen, Importing, Ahead, Readable
<1>1. CASE FinalizeDo
  BY <1>1, NumberFacts DEF FinalizeDo, TypeOK
<1>2. CASE FinalizeReturns
  BY <1>2 DEF FinalizeReturns, TypeOK
<1>3. CASE FinalizeDiscard
  BY <1>3 DEF FinalizeDiscard, TypeOK
<1>4. CASE FinalizeEntry
  <2>1. /\ pc = "writing" /\ index \in Entries /\ index' = index + 1
        /\ UNCHANGED <<archived, pc, status, conflict, import, config, choice, raced>>
    BY <1>4 DEF FinalizeEntry
  <2>2. system' \in [Entries -> Configs \cup {None}]
        /\ \A e \in Entries \ {index} : system'[e] = system[e]
    <3>1. [version |-> Latest, content |-> "unparsable"] \in Configs
      BY NumberFacts DEF Configs, Contents
    <3>2. \E c \in Configs \cup {None} : system' = [system EXCEPT ![index] = c]
      BY <1>4, <2>1, <3>1 DEF FinalizeEntry, TypeOK
    <3> QED BY <3>2 DEF TypeOK
  <2>3. report' \in [Entries -> Lines]
    BY <1>4 DEF FinalizeEntry, TypeOK, Line, Lines
  <2>4. TypeOK'
    BY <2>1, <2>2, <2>3 DEF TypeOK
  <2>5. NoConflictNothingSeen'
    BY <2>1, <2>2, NumberFacts
  <2> QED BY <2>1, <2>4, <2>5
<1> QED BY <1>1, <1>2, <1>3, <1>4

(* The system goes on.                                                     *)
LEMMA OtherInv ==
  ASSUME ImportInv, NEW e \in Entries, Other(e)
  PROVE  ImportInv'
<1>1. PICK c \in {None} \cup [version : {Latest}, content : {"other"}] :
        system' = [system EXCEPT ![e] = c]
  BY DEF Other
<1>2. c \in Configs \cup {None}
  BY NumberFacts DEF Configs, Contents
<1> QED
  BY <1>1, <1>2 DEF Other, ImportInv, TypeOK, MarkedAreOk, LastDecisionCounts, ImportableIsReadable,
                    UpdatedIsHeld, DoHasNoConflict, NoConflictNothingSeen, Importing, Ahead,
                    Readable

LEMMA ImportInvNext == ImportInv /\ [Next]_vars => ImportInv'
<1> SUFFICES ASSUME ImportInv, [Next]_vars PROVE ImportInv'
  OBVIOUS
<1>1. CASE UNCHANGED vars
  BY <1>1 DEF vars, ImportInv, TypeOK, MarkedAreOk, LastDecisionCounts, ImportableIsReadable,
              UpdatedIsHeld, DoHasNoConflict, NoConflictNothingSeen, Importing, Ahead, Readable
<1>2. CASE Next
  BY <1>2, ArchiveImportInv, ResolveInv, FinalizeInv, OtherInv DEF Next
<1> QED BY <1>1, <1>2
----------------------------------------------------------------------------
\* The invariant holds whoever else writes to the system.
THEOREM ImportInvHolds == Spec => []ImportInv
BY ImportInvInit, ImportInvNext, PTL DEF Spec

(* The decision last accepted for an entry is the one finalize acts on.    *)
THEOREM Decisions == Spec => []LastDecisionCounts
<1>1. ImportInv => LastDecisionCounts
  BY DEF ImportInv
<1> QED BY ImportInvHolds, <1>1, PTL

(* Only a turn of finalize is about an entry, and the turn is about the    *)
(* entry it is at.                                                         *)
LEMMA FinalizingStep ==
  ASSUME TypeOK, [Next]_vars, NEW e \in Entries, Finalizing(e)
  PROVE  FinalizeEntry /\ index = e
<1> USE NumberFacts DEF Finalizing, TypeOK
<1>1. CASE UNCHANGED vars
  BY <1>1 DEF vars
<1>2. CASE Next
  BY <1>2 DEF Next, Other, ArchiveImport, ResolveUpdate, ResolveForce, ResolveDo,
              ResolveDiscard, FinalizeDo, FinalizeReturns, FinalizeDiscard
<1> QED BY <1>1, <1>2

(* finalize writes nothing that was not decided, and nothing that the      *)
(* system cannot read back.                                                *)
THEOREM DecidedWrites == Spec => WritesAreDecided
<1> DEFINE Decided ==
      \A e \in Entries :
        Finalizing(e) /\ system'[e] # system[e] =>
          /\ choice[e] \notin {"none", "DISCARD"}
          /\ Readable(system'[e].version)
          /\ choice[e] \in {"UPDATE", "UPDATE_WITH_DISCARD"} =>
               system'[e].content \in {"updated", "unparsable"}
<1>1. ImportInv /\ [Next]_vars => [Decided]_vars
  <2> SUFFICES ASSUME ImportInv, [Next]_vars, NEW e \in Entries, Finalizing(e),
                      system'[e] # system[e]
               PROVE  /\ choice[e] \notin {"none", "DISCARD"}
                      /\ Readable(system'[e].version)
                      /\ choice[e] \in {"UPDATE", "UPDATE_WITH_DISCARD"} =>
                           system'[e].content \in {"updated", "unparsable"}
    OBVIOUS
  <2>1. FinalizeEntry /\ index = e /\ pc = "writing"
    BY FinalizingStep DEF ImportInv, Finalizing
  <2>2. status[e] = "OK" /\ import[e]
    BY <2>1 DEF FinalizeEntry
  <2>3. choice[e] \notin {"none", "DISCARD"}
    BY <2>1, <2>2 DEF ImportInv, LastDecisionCounts
  <2>4. system'[e] \in {config[e], [version |-> Latest, content |-> "unparsable"]}
    BY <2>1, <2>2 DEF FinalizeEntry, ImportInv, TypeOK
  <2>5. Readable(Latest)
    BY NumberFacts DEF Readable
  <2> QED
    BY <2>1, <2>2, <2>3, <2>4, <2>5
       DEF ImportInv, ImportableIsReadable, UpdatedIsHeld, Importing, Refused, Updates
<1> QED BY ImportInvHolds, <1>1, PTL DEF Spec, WritesAreDecided

(* DISIR_IMPORT_DO replaces only what the import could not see.            *)
THEOREM DoReplaces == Spec => DoReplacesOnlyUnseen
<1> DEFINE Unseen ==
      \A e \in Entries :
        Finalizing(e) /\ choice[e] = "DO" /\ system'[e] # system[e] =>
          system[e] = None \/ ~Readable(system[e].version) \/ e \in raced
<1>1. ImportInv /\ [Next]_vars => [Unseen]_vars
  <2> SUFFICES ASSUME ImportInv, [Next]_vars, NEW e \in Entries, Finalizing(e), choice[e] = "DO",
                      system'[e] # system[e]
               PROVE  system[e] = None \/ ~Readable(system[e].version) \/ e \in raced
    OBVIOUS
  <2>1. FinalizeEntry /\ index = e /\ pc = "writing"
    BY FinalizingStep DEF ImportInv, Finalizing
  <2>2. status[e] = "OK"
    BY <2>1 DEF FinalizeEntry
  <2>3. Ahead(e)
    BY <2>1, NumberFacts DEF Ahead
  <2> QED
    BY <2>1, <2>2, <2>3 DEF ImportInv, NoConflictNothingSeen, DoHasNoConflict, Importing, Refused
<1> QED BY ImportInvHolds, <1>1, PTL DEF Spec, DoReplacesOnlyUnseen

(* The report of finalize tells what became of the system.                 *)
THEOREM Report == Spec => ReportIsTrue
<1> DEFINE True ==
      \A e \in Entries : Finalizing(e) =>
        /\ report'[e] = "Imported" => system'[e] = config[e]
        /\ report'[e] \in {"Imported", "Failed"} <=> choice[e] \notin {"none", "DISCARD"}
        /\ report'[e] \notin {"Imported", "Failed"} => system'[e] = system[e]
<1>1. ImportInv /\ [Next]_vars => [True]_vars
  <2> SUFFICES ASSUME ImportInv, [Next]_vars, NEW e \in Entries, Finalizing(e)
               PROVE  /\ report'[e] = "Imported" => system'[e] = config[e]
                      /\ report'[e] \in {"Imported", "Failed"}
                           <=> choice[e] \notin {"none", "DISCARD"}
                      /\ report'[e] \notin {"Imported", "Failed"} => system'[e] = system[e]
    OBVIOUS
  <2>1. FinalizeEntry /\ index = e /\ pc = "writing"
    BY FinalizingStep DEF ImportInv, Finalizing
  <2>2. /\ import[e] => status[e] = "OK"
        /\ import[e] <=> choice[e] \notin {"none", "DISCARD"}
    BY <2>1 DEF ImportInv, MarkedAreOk, LastDecisionCounts
  <2>3. PICK written \in BOOLEAN :
          /\ report'[e] = Line(e, written)
          /\ import[e] /\ written => system' = [system EXCEPT ![e] = config[e]]
          /\ ~import[e] => UNCHANGED system /\ written
    BY <2>1, <2>2 DEF FinalizeEntry, ImportInv, TypeOK
  <2>4. CASE import[e]
    BY <2>2, <2>3, <2>4 DEF Line, ImportInv, TypeOK
  <2>5. CASE ~import[e]
    BY <2>2, <2>3, <2>5 DEF Line
  <2> QED BY <2>4, <2>5
<1> QED BY ImportInvHolds, <1>1, PTL DEF Spec, ReportIsTrue
=============================================================================
