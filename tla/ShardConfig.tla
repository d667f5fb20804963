----------------------------- MODULE ShardConfig -----------------------------
(***************************************************************************)
(* Shards of the flow: the node of shard id out of num keeps the segments  *)
(* whose index is id modulo num, and num is a power of two.                *)
(***************************************************************************)
EXTENDS Integers, FiniteSets

Nums == {1, 2, 4}  \* the numbers of shards in use: validate() asks for a power of two
Finest == 4        \* the largest of them
Shards == {s \in [num : Nums, id : 0 .. Finest - 1] : s.id < s.num}

in_range(s, segment) == segment % s.num = s.id

next_segment_index(s, current, start) ==
    LET shift == (start + current + s.num - s.id) % s.num IN current + s.num - shift

\* The side with more shards is halved until both have as many.
intersect(a, b) ==
    LET n == IF a.num <= b.num THEN a.num ELSE b.num
    IN  a.id \div (a.num \div n) = b.id \div (b.num \div n)

\* In the tree of shards, the two children of a shard split its segments by
\* the next bit of their index.
Child(s, i) == [num |-> 2 * s.num, id |-> s.id + i * s.num]

\* Slip: one covered child covers its parent.
all_shards_available_any(S) ==
    LET covered[n \in Shards] ==
            n \in S \/ (n.num < Finest /\ \E i \in {0, 1} : covered[Child(n, i)])
    IN  covered[[num |-> 1, id |-> 0]]

all_shards_available(S) ==
    LET covered[n \in Shards] ==
            n \in S \/ (n.num < Finest /\ \A i \in {0, 1} : covered[Child(n, i)])
    IN  covered[[num |-> 1, id |-> 0]]
=============================================================================
