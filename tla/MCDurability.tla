---------------------------- MODULE MCDurability ----------------------------
(* Two inode numbers, two lengths, five requests, two faults.                 *)
EXTENDS Durability
=============================================================================
