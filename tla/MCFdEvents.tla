----------------------------- MODULE MCFdEvents -----------------------------
(***************************************************************************)
(* FdEvents for TLC: the workers are interchangeable.                      *)
(***************************************************************************)
EXTENDS FdEvents, TLC

Symmetry == Permutations(Worker)
=============================================================================
