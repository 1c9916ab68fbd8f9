-------------------------------- MODULE Lists --------------------------------
(* The loops over a std::list, std::deque or std::vector that drop what    *)
(* meets a condition and keep the rest in its order.                       *)
EXTENDS Naturals, Sequences, SequencesExt

KeepAll(s, ids) == s  \* variant: nothing is dropped

Without(s, ids) ==
    FoldLeft(LAMBDA kept, e : IF e \in ids THEN kept ELSE Append(kept, e), <<>>, s)
=============================================================================
