---------------------------- MODULE MCRenderMarks ----------------------------
(* A small instance of RenderMarks for TLC.                                *)
EXTENDS RenderMarks, TLC
=============================================================================
