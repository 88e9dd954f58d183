---------------------------- MODULE MCEsqWorker ----------------------------
(* Small instances of EsqWorker. *)
EXTENDS EsqWorker, TLC

MCFds == {-1, 0, 1}
Symmetry == Permutations(Sessions)
=============================================================================
