----------------------------- MODULE MCPipeline -----------------------------
(***************************************************************************)
(* Small instances of IngestPipeline for TLC.                              *)
(***************************************************************************)
EXTENDS IngestPipeline, TLC

CONSTANTS j1, j2, j3, r1, r2, k1, k2, w1, w2, t1

\* Two turns of one conversation, in order: they may be extracted together.
SameTalk == [j \in Jobs |->
                [conv |-> 1, turn |-> IF j = j1 THEN 1 ELSE 2, skip |-> FALSE]]

\* Three turns, of which the second holds NESY_FACTS and goes first.
PriorityTalk ==
    [j \in Jobs |->
        [conv |-> 1, skip |-> j = j2,
         turn |-> CASE j = j1 -> 1 [] j = j2 -> 2 [] j = j3 -> 3]]

RecordSymmetry == Permutations(Records)
=============================================================================
