----------------------------- MODULE MCFileLRU -----------------------------
(* Model-checking instance of FileLRU: a small file, a large one, and a     *)
(* limit both together exceed; setup may also lift the limit.               *)
EXTENDS FileLRU, TLC

CONSTANTS a, b

MCSize == a :> 1 @@ b :> 2
MCLimits == {0, 1, 2}

Symmetry == Permutations(Threads) \cup Permutations(Objs)
=============================================================================
