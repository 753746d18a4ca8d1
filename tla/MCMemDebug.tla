----------------------------- MODULE MCMemDebug -----------------------------
(* Instances of MemDebug for TLC.                                          *)
EXTENDS MemDebug, TLC

Symmetry == Permutations(Ptr) \cup Permutations(Thread) \cup Permutations(Site)
=============================================================================
