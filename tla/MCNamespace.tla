----------------------------- MODULE MCNamespace -----------------------------
(* Three objects below the root, two stored names, one of which stands for   *)
(* two different names of the kernel.                                        *)
EXTENDS Namespace

MCLossy == [n \in OsName |-> IF n = "b_invalid_utf8" THEN "b" ELSE n]
=============================================================================
