---------------------------- MODULE MCDirStream ----------------------------
(* Two objects below the root, two names, and listings of each directory.    *)
EXTENDS DirStream

MCLossy == [n \in OsName |-> n]
=============================================================================
