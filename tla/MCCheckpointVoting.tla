------------------------- MODULE MCCheckpointVoting --------------------------
(* CheckpointVoting with model values for TLC. *)
EXTENDS CheckpointVoting

CONSTANTS A, B, me, other, third

MCHash == {A, B}
MCOneHash == {A}
MCVoter == {me, other}
MCThreeVoters == {me, other, third}
MCAttached == {[block_hash |-> A, signatures |-> {other}]}
=============================================================================
