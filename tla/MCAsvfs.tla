------------------------------- MODULE MCAsvfs ---------------------------------
(***************************************************************************)
(* Asvfs for TLC: names are interchangeable.                               *)
(***************************************************************************)
EXTENDS Asvfs, TLC

Symmetry == Permutations(Name)
=============================================================================
