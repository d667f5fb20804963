----------------------------- MODULE MCFileSync -----------------------------
(* Small instances of FileSync. *)
EXTENDS FileSync

CONSTANTS n1, n2, n3

Whole == [num |-> 1, id |-> 0]
Half(i) == [num |-> 2, id |-> i]
Quarter(i) == [num |-> 4, id |-> i]
Range(i, j) == [start |-> i, end |-> j]

Bound(starts, faults, reorgs) ==
    [starts |-> starts, faults |-> faults, reorgs |-> reorgs, finds |-> 0, terms |-> 0, joins |-> 0]
Basic ==
    [local |-> Whole, shards |-> [p \in Peers |-> Whole], peers |-> {n1, n2}, links |-> {},
     seqs |-> {1}, segs |-> 2, start |-> 1,
     neighbors_only |-> FALSE, on_announcement |-> FALSE, ranges |-> {}, tidy |-> TRUE,
     bound |-> Bound(1, 0, 0)]
Neighbor == [Basic EXCEPT !.neighbors_only = TRUE, !.peers = {n1}, !.links = {n1}]

\* Two peers, each of which has half of the file; a fault.
Halves == [Basic EXCEPT !.shards = (n1 :> Half(0)) @@ (n2 :> Half(1)) @@ (n3 :> Whole), !.bound = Bound(1, 1, 0)]
\* Three peers, whose shards are of different sizes.
Thirds == [Halves EXCEPT !.shards = (n1 :> Half(0)) @@ (n2 :> Quarter(1)) @@ (n3 :> Quarter(3)),
                         !.peers = {n1, n2, n3}, !.segs = 3, !.bound = Bound(1, 0, 0)]
\* A neighbor has the file; its transaction is replaced; the file is asked for again.
Reverted == [Neighbor EXCEPT !.bound = Bound(2, 1, 1)]
\* Part of the file, then all of it.
Part == [Neighbor EXCEPT !.neighbors_only = FALSE, !.ranges = {Range(1, 2), Range(0, 2)}, !.bound = Bound(2, 2, 0)]
\* A sharded node syncs on announcement.
Announced == [Basic EXCEPT !.local = Half(1), !.segs = 4, !.shards[n2] = Half(0), !.on_announcement = TRUE,
                           !.bound = [Bound(0, 0, 0) EXCEPT !.finds = 1]]
\* Two files; neighbors that come and go, syncs that are terminated.
Two == [Neighbor EXCEPT !.seqs = {1, 2}, !.links = {}, !.segs = 1,
                        !.bound = [Bound(2, 0, 0) EXCEPT !.terms = 1, !.joins = 2]]
\* A file that is done is asked for again, meets a failed dial, is mined again.
Untidy == [Neighbor EXCEPT !.segs = 1, !.tidy = FALSE, !.bound = Bound(2, 1, 1)]
MCWorkloads == {Halves, Thirds, Reverted, Part, Announced, Two, Untidy}
=============================================================================
