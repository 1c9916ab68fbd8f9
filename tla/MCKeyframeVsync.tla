--------------------------- MODULE MCKeyframeVsync ---------------------------
(* Small instances of KeyframeVsync for TLC: priorities as definitions,    *)
(* since a cfg cannot write a function.                                    *)
EXTENDS KeyframeVsync

CONSTANTS c1, c2, c3

(* c2 is attached above the others; c1 and c3 share a priority.            *)
MixedPriority == [c \in Callbacks |-> IF c = c2 THEN 2 ELSE 0]
=============================================================================
