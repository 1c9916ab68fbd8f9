------------------------- MODULE MCDirtyTaskPipeline -------------------------
(* A small instance of DirtyTaskPipeline for TLC.                          *)
EXTENDS DirtyTaskPipeline, TLC
=============================================================================
