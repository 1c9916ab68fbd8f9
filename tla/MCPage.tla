------------------------------- MODULE MCPage -------------------------------
(* A small instance of Document for TLC.                                   *)
EXTENDS Document, TLC

ASSUME TreesAssumption == ConstantsBounded

Symmetry == Permutations(Nodes)
=============================================================================
