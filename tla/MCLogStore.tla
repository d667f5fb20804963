---------------------------- MODULE MCLogStore ----------------------------
EXTENDS LogStore, FiniteSets

Symmetry == Permutations(Clients) \cup Permutations(Roots)

(***************************************************************************)
(* Without faults, put_tx overlaps with two clients, on a node that stores *)
(* everything or half of the segments, and the node may crash once.        *)
(* Otherwise reorganisations inside the first chunk and prunings happen    *)
(* between the calls.  RacingLoads lets a reorganisation overlap too.      *)
(***************************************************************************)
Load(ids, shards, overlap, r, p, c) ==
    [ids |-> ids, shards |-> shards, overlap |-> overlap, reverts |-> r, prunes |-> p, crashes |-> c]

OverlapLoads == {Load({1}, n, {"put_tx"}, 0, 0, 1) : n \in {1, 2}}
ReorgLoads == {Load({1, 2}, 1, {}, 2, 1, 0), Load({1}, 2, {}, 1, 1, 0)}
SoundLoads == OverlapLoads \cup ReorgLoads
RacingLoads == {Load({1, 2}, 1, {"put_tx", "revert_to"}, 1, 0, 0)}
=============================================================================
