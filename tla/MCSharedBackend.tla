-------------------------- MODULE MCSharedBackend --------------------------
(* Two processes, three writes, up to two failures or power losses.          *)
EXTENDS SharedBackend, TLC

Symmetry == Permutations(Proc)
=============================================================================
