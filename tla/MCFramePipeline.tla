--------------------------- MODULE MCFramePipeline ---------------------------
(* Small instances of FramePipeline for TLC.                               *)
EXTENDS FramePipeline, TLC
=============================================================================
