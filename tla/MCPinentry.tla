----------------------------- MODULE MCPinentry -----------------------------
(* Pinentry on small instances: the cfg files give the constants.  The     *)
(* processes are interchangeable.                                          *)
EXTENDS Pinentry, TLC

Symmetry == Permutations(Procs)
=============================================================================
