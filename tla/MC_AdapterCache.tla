-------------------------- MODULE MC_AdapterCache --------------------------
(***************************************************************************)
(* A few drivers, one after the other or at once, on one adapter cache.    *)
(***************************************************************************)
EXTENDS AdapterCache, TLC
CONSTANTS d1, d2, d3, j1, j2, none, empty

Symmetry == Permutations(Drivers) \cup Permutations(Javas)
=============================================================================
