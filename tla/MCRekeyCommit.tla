---------------------------- MODULE MCRekeyCommit ----------------------------
(* Two rekeys, two edits or saves and two crashes, in any order.             *)
EXTENDS RekeyCommit
=============================================================================
