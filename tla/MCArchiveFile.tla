--------------------------- MODULE MCArchiveFile ---------------------------
(* Instances of ArchiveFile for TLC: two files, one of which has two paths; *)
(* a group of two entries and one of a single entry.                       *)
EXTENDS ArchiveFile

CONSTANTS A, B, a, alias, b

TwoFiles == [p \in {a, alias, b} |-> IF p = b THEN B ELSE A]

TwoGroups == [e \in {1, 2, 3} |-> IF e = 3 THEN "small" ELSE "big"]
=============================================================================
