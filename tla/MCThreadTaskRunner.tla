------------------------- MODULE MCThreadTaskRunner -------------------------
(* Small instances of ThreadTaskRunner for TLC.                            *)
EXTENDS ThreadTaskRunner, TLC
=============================================================================
