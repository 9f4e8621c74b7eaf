----------------------------- MODULE MCKeySlots -----------------------------
(* Two passwords, two recipients, two processes at the same time.          *)
EXTENDS KeySlots

Symmetry == Permutations(Password) \cup Permutations(Identity) \cup Permutations(Proc)
=============================================================================
