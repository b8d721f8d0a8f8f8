------------------------------- MODULE MCSend -------------------------------
(* Send for TLC.  Callers are interchangeable.                             *)
EXTENDS Send, TLC

Symmetry == Permutations(Callers)
=============================================================================
