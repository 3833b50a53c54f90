--------------------------- MODULE MCMemorySpine ---------------------------
(* Small instances of MemorySpine.                                         *)
EXTENDS MemorySpine, TLC

NoBreaks  == {}
AllBreaks == {"raise", "die"}

ThreadSymmetry == Permutations(Threads)
=============================================================================
