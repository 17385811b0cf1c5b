------------------------------ MODULE MCAvsList ------------------------------
(***************************************************************************)
(* AvsList for TLC.  The functions of list.c compare nodes and data for    *)
(* equality only, so renaming either changes nothing.                      *)
(***************************************************************************)
EXTENDS AvsList, TLC

Symmetry == Permutations(Node) \cup Permutations(Data)
=============================================================================
