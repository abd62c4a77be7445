------------------------------- MODULE MCHire -------------------------------
(***************************************************************************)
(* Instances of Hire for TLC: two authorizations of one payer.  Requests   *)
(* are interchangeable, and so are the authorizations.                     *)
(***************************************************************************)
EXTENDS Hire, TLC

CONSTANT p1

MCPayerOf == [n \in Nonces |-> p1]

Symmetry == Permutations(Requests) \cup Permutations(Nonces)
=============================================================================
