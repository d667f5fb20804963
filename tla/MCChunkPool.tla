---------------------------- MODULE MCChunkPool ----------------------------
EXTENDS ChunkPool, TLC

(***************************************************************************)
(* Steady: concurrent uploads on one shard, and uploads that come one      *)
(* after the other on two shards or with a reorganisation.  Sharded:       *)
(* concurrent uploads on two shards.                                       *)
(***************************************************************************)
Load(n, r, alone) == [num_shard |-> n, reorgs |-> r, alone |-> alone]
Steady == {Load(1, 0, FALSE), Load(2, 0, TRUE), Load(1, 1, TRUE)}
Sharded == {Load(2, 0, FALSE)}

Symmetry == Permutations(Uploads) \cup Permutations(Files)
=============================================================================
