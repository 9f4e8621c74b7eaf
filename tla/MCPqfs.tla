------------------------------- MODULE MCPqfs -------------------------------
(* Two workers, blocks of two bytes.  Writes and truncates take a file to    *)
(* three bytes or to one, so that each can grow it, shrink it or keep it.    *)
EXTENDS Pqfs, TLC

MCReadOps == {<<0, 3>>}
MCWriteOps == {<<1, 2>>}
MCSizes == {1}

WorkerSymmetry == Permutations(Worker)
=============================================================================
