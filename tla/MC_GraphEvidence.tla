-------------------------- MODULE MC_GraphEvidence --------------------------
(***************************************************************************)
(* A few captures, analyses and summaries of one case.                     *)
(***************************************************************************)
EXTENDS GraphEvidence, TLC
CONSTANTS c1, c2, a1, a2, s1, s2, none, torn
=============================================================================
