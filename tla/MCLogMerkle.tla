---------------------------- MODULE MCLogMerkle ----------------------------
(***************************************************************************)
(* Small instances of LogMerkle, with 8 entries in a chunk.  MixedFiles    *)
(* are within a chunk, across a chunk boundary and of several chunks;      *)
(* OddFiles never end on a chunk boundary; LargeFiles do not either, and   *)
(* start on one.                                                           *)
(***************************************************************************)
EXTENDS LogMerkle

MixedFiles == {<<1>>, <<2>>, <<4, 2>>, <<8>>, <<16, 1>>, <<32>>}
OddFiles == {<<2, 1>>, <<4, 1>>, <<16, 1>>}
LargeFiles == {<<8, 1>>, <<16, 1>>, <<32, 2, 1>>}

Load(files, r, c) == [files |-> files, reverts |-> r, crashes |-> c]

SoundLoads == {Load(MixedFiles, 0, 0), Load(OddFiles, 2, 0), Load(LargeFiles, 0, 2)}
RevertLoads == {Load(OddFiles, 1, 0)}
=============================================================================
