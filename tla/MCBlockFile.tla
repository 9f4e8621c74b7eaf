----------------------------- MODULE MCBlockFile -----------------------------
(* One file of up to two blocks of two bytes.                               *)
EXTENDS BlockFile
=============================================================================
