------------------------------ MODULE MCMarks ------------------------------
(***************************************************************************)
(* Instances of Marks for TLC.  Requests are interchangeable.              *)
(***************************************************************************)
EXTENDS Marks, TLC

Symmetry == Permutations(Requests)
=============================================================================
