---------------------------- MODULE MCMergeQueue ----------------------------
(* Two pull requests: the smallest queue with a prefix to test again. *)
EXTENDS MergeQueue

TwoPRs == {1, 2}

\* People move, or something goes wrong.
FewTroubles == moves = 0 \/ faults = 0
=============================================================================
