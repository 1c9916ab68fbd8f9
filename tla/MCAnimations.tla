---------------------------- MODULE MCAnimations -----------------------------
(* An instance of NodeAnimations, for MCFrames to check and for proofs.    *)
CONSTANTS Values, MaxStyles, MaxTasks, AvoidedStyles
VARIABLES style, old, setting, node, animated, anim_version_, keyframes, transitions, known,
          deleted, resets, tasks, operate_queue, triggered, ids

animations == <<style, old, setting, node, animated, anim_version_, keyframes, transitions, known,
                deleted, resets, tasks, operate_queue, triggered, ids>>

Animation == INSTANCE NodeAnimations WITH Avoided <- AvoidedStyles

Ticked == Animation!Ticked
Settled == Animation!Settled
=============================================================================
