----------------------------- MODULE LogMerkle -----------------------------
(***************************************************************************)
(* The log manager's two Merkle trees and what keeps them in step with the *)
(* transaction table: put_tx with the padding before it, revert_to, the    *)
(* crash of the process between any two database writes, the recovery in   *)
(* LogManager::new and the background task that writes the padding of      *)
(* whole chunks.                                                           *)
(*                                                                         *)
(* pora_chunks_merkle has one leaf per chunk of the flow and is in the     *)
(* database; last_chunk_merkle has the entries of the last, incomplete     *)
(* chunk and is in memory.  A tree is represented by its number of leaves, *)
(* the versions commit() keeps by the leaves at that version, a file by    *)
(* the sizes of its subtrees in entries (merkle_nodes).  Hashes and file   *)
(* data are left out; the zeros that fill the gaps between files are       *)
(* there.  put_tx and revert_to hold the write lock of the trees, so they  *)
(* do not interleave with each other; each runs as a list of operations    *)
(* (job), one for each database write, and a crash may come between any    *)
(* two of them.                                                            *)
(***************************************************************************)
EXTENDS Integers, Sequences, SequencesExt, FiniteSets

CONSTANTS
    Chunk,       \* PORA_CHUNK_SIZE, in entries
    PadMax,      \* PAD_MAX_SIZE, in entries
    Workloads,   \* what happens to the node: [files, reverts, crashes]; files
                 \* are the subtree sizes of the files the chain submits,
                 \* reverts and crashes bound the reorganisations and crashes
    MaxTx,       \* bound on the transactions in the flow
    MaxFlow      \* bound on the length of the flow

ASSUME LogMerkleAssumption ==
    /\ Chunk \in Nat \ {0}
    /\ PadMax \in Nat /\ PadMax > 0 /\ PadMax % Chunk = 0
    /\ \A w \in Workloads :
          /\ \A f \in w.files : f # <<>> /\ \A i \in 1 .. Len(f) : f[i] \in Nat \ {0}
          /\ {w.reverts, w.crashes} \subseteq Nat
    /\ {MaxTx, MaxFlow} \subseteq Nat

Seqs == 0 .. MaxTx - 1
NoVersion == -1

VARIABLES
    workload,   \* the workload of this behaviour
    txs,        \* COL_TX: the transactions in order; tx_seq s is txs[s + 1]
    completed,  \* COL_TX_COMPLETED: the tx_seqs marked Finalized
    pora,       \* leaves of pora_chunks_merkle
    last,       \* leaves of last_chunk_merkle
    poraVer,    \* pora_chunks_merkle.delta_nodes_map: tx_seq -> leaves
    lastVer,    \* last_chunk_merkle.delta_nodes_map: tx_seq -> leaves
    dbtx,       \* a NodeManager transaction was started and not committed
    job,        \* what put_tx or revert_to still has to do
    up,         \* the process runs
    pad_list,   \* pad_tx's list of full empty pads
    pad_data,   \* COL_PAD_DATA_LIST: tx_seq -> set of <<start, size>>
    written,    \* the positions of the flow that hold padding zeros
    padNext,    \* start_index of the padding task
    padHeight,  \* COL_PAD_DATA_SYNC_HEIGH
    panic,      \* the assertion that failed, or "none"
    reverts, crashes

memory == <<last, poraVer, lastVer, dbtx, pad_list>>
pads == <<pad_data, written, padNext, padHeight>>
bounds == <<workload, reverts, crashes>>
vars == <<txs, completed, pora, memory, job, up, pads, panic, bounds>>

CeilDiv(a, b) == (a + b - 1) \div b
Total(nodes) == FoldLeft(LAMBDA a, b : a + b, 0, nodes)
Tx(s) == txs[s + 1]
TxEnd(tx) == tx.start + Total(tx.nodes)

\* The length of the flow on the chain: entry 0 is reserved.
ChainLen == IF txs = <<>> THEN 1 ELSE TxEnd(txs[Len(txs)])

last_chunk_start_index ==
    IF pora = 0 THEN 0 ELSE Chunk * (IF last = 0 THEN pora ELSE pora - 1)

FlowLen == last_chunk_start_index + last

Init ==
    /\ workload \in Workloads
    /\ txs = <<>> /\ completed = {}
    /\ pora = 1 /\ last = 1
    /\ poraVer = [s \in Seqs |-> NoVersion] /\ lastVer = [s \in Seqs |-> NoVersion]
    /\ dbtx = FALSE /\ job = <<>> /\ up = TRUE
    /\ pad_list = {} /\ pad_data = [s \in 0 .. MaxTx |-> {}] /\ written = {}
    /\ padNext = 0 /\ padHeight = 0
    /\ panic = "none" /\ reverts = 0 /\ crashes = 0

Idle == up /\ job = <<>> /\ panic = "none"
Head1(op) == up /\ panic = "none" /\ job # <<>> /\ Head(job).op = op

\* A failed assertion ends the process.
Fail(why) ==
    /\ panic' = why
    /\ UNCHANGED <<txs, completed, pora, memory, job, up, pads, bounds>>

(***************************************************************************)
(* LogManager::put_tx.  The transaction table is written first; pad_tx and *)
(* append_subtree_list follow as a job that ends with commit_merkle.  The  *)
(* remainder of a long padding comes first, so that the rest is aligned.   *)
(***************************************************************************)
padding(len) ==
    (IF len % PadMax = 0 THEN <<>> ELSE <<len % PadMax>>)
        \o [i \in 1 .. len \div PadMax |-> PadMax]

PutOps(s, tx, len) ==
    LET sizes == padding(tx.start - len)
    IN [i \in 1 .. Len(sizes) |-> [op |-> "pad", n |-> sizes[i]]]
         \o <<[op |-> "put_pad_data", n |-> s]>>
         \o [i \in 1 .. Len(tx.nodes) |-> [op |-> "subtree", n |-> tx.nodes[i]]]
         \o <<[op |-> "commit", n |-> s]>>

put_tx(f) ==
    LET tx == [start |-> CeilDiv(ChainLen, f[1]) * f[1], nodes |-> f]
    IN /\ Idle
       /\ Len(txs) < MaxTx /\ TxEnd(tx) <= MaxFlow
       /\ IF tx.start < FlowLen THEN Fail("pad_size underflow")
          ELSE /\ txs' = Append(txs, tx)
               /\ job' = PutOps(Len(txs), tx, FlowLen)
               /\ pad_list' = {}
               /\ UNCHANGED <<completed, pora, last, poraVer, lastVer, dbtx, up, pads, panic, bounds>>

(***************************************************************************)
(* One round of pad_tx's loop.  A pad that does not reach the end of the   *)
(* last chunk is appended and written.  Another one first fills the last   *)
(* chunk, then adds whole chunks of zeros to pora_chunks_merkle one by one *)
(* (add_chunk), and ends with its write (end_pad): zeros that filled part  *)
(* of the last chunk go to the flow at once, and the chunk is closed by    *)
(* complete_last_chunk_merkle; whole chunks are only listed.               *)
(***************************************************************************)
last_chunk_pad == IF last = 0 THEN 0 ELSE Chunk - last

pad ==
    LET n == Head(job).n IN
    /\ Head1("pad")
    /\ IF dbtx THEN Fail("start new tx before commit")
       ELSE IF n < last_chunk_pad
       THEN /\ last' = last + n
            /\ written' = written \cup FlowLen .. FlowLen + n - 1
            /\ job' = Tail(job)
            /\ UNCHANGED <<txs, completed, pora, poraVer, lastVer, dbtx, up, pad_list,
                           pad_data, padNext, padHeight, panic, bounds>>
       ELSE IF (n - last_chunk_pad) % Chunk # 0 THEN Fail("pad_data.len() == start_index")
       ELSE /\ last' = last + last_chunk_pad
            /\ job' = [i \in 1 .. (n - last_chunk_pad) \div Chunk |-> [op |-> "add_chunk", n |-> 1]]
                        \o <<[op |-> "end_pad", n |-> n, at |-> FlowLen, full |-> last_chunk_pad = 0]>> \o Tail(job)
            /\ UNCHANGED <<txs, completed, pora, poraVer, lastVer, dbtx, up, pad_list,
                           pads, panic, bounds>>

\* Slip: the chunk is not counted.
add_chunk_lost ==
    /\ Head1("add_chunk")
    /\ job' = Tail(job)
    /\ UNCHANGED <<txs, completed, pora, memory, up, pads, panic, bounds>>

add_chunk ==
    /\ Head1("add_chunk")
    /\ pora' = pora + 1
    /\ job' = Tail(job)
    /\ UNCHANGED <<txs, completed, memory, up, pads, panic, bounds>>

\* complete_last_chunk_merkle: the last chunk becomes an empty tree.
complete_last_chunk_merkle == 0

EmptyVersions == [s \in Seqs |-> NoVersion]

end_pad ==
    LET o == Head(job)
        zeros == o.at .. o.at + o.n - 1
    IN /\ Head1("end_pad")
       /\ IF o.full
          THEN pad_list' = pad_list \cup {<<o.at, o.n>>} /\ UNCHANGED <<written, last, lastVer>>
          ELSE /\ written' = written \cup zeros
               /\ last' = complete_last_chunk_merkle
               /\ lastVer' = EmptyVersions
               /\ UNCHANGED pad_list
       /\ job' = Tail(job)
       /\ UNCHANGED <<txs, completed, pora, poraVer, dbtx, up, pad_data, padNext, padHeight,
                      panic, bounds>>

\* Slip: the list is stored under the next sequence number.
put_pad_data_next ==
    /\ Head1("put_pad_data")
    /\ pad_data' = [pad_data EXCEPT ![Head(job).n + 1] = pad_list]
    /\ job' = Tail(job)
    /\ UNCHANGED <<txs, completed, pora, memory, up, written, padNext, padHeight, panic, bounds>>

put_pad_data ==
    /\ Head1("put_pad_data")
    /\ pad_data' = [pad_data EXCEPT ![Head(job).n] = pad_list]
    /\ job' = Tail(job)
    /\ UNCHANGED <<txs, completed, pora, memory, up, written, padNext, padHeight, panic, bounds>>

(***************************************************************************)
(* One round of append_subtree_list's loop.                                *)
(***************************************************************************)
\* Slip: the chunk is full one entry later.
ChunkFull_over(leaves) == leaves > Chunk

ChunkFull(leaves) == leaves = Chunk

append_subtree ==
    LET n == Head(job).n IN
    /\ Head1("subtree")
    /\ IF dbtx THEN Fail("start new tx before commit")
       ELSE IF last + n <= Chunk
       THEN /\ pora' = IF last = 0 \/ pora = 0 THEN pora + 1 ELSE pora
            /\ IF ChunkFull(last + n)
               THEN last' = complete_last_chunk_merkle /\ lastVer' = EmptyVersions
               ELSE last' = last + n /\ UNCHANGED lastVer
            /\ job' = Tail(job)
            /\ UNCHANGED <<txs, completed, poraVer, dbtx, pad_list, up, pads, panic, bounds>>
       ELSE IF last # 0 \/ n < Chunk THEN Fail("last_chunk_merkle.leaves() == 0")
       ELSE /\ pora' = pora + n \div Chunk
            /\ job' = Tail(job)
            /\ UNCHANGED <<txs, completed, memory, up, pads, panic, bounds>>

commit_merkle ==
    /\ Head1("commit")
    /\ poraVer' = [poraVer EXCEPT ![Head(job).n] = pora]
    /\ lastVer' = [lastVer EXCEPT ![Head(job).n] = last]
    /\ job' = Tail(job)
    /\ UNCHANGED <<txs, completed, pora, last, dbtx, pad_list, up, pads, panic, bounds>>

\* The data of a transaction arrives and is finalized (modelled in LogStore).
finalize_tx(s) ==
    /\ Idle
    /\ s < Len(txs) /\ s \notin completed
    /\ completed' = completed \cup {s}
    /\ UNCHANGED <<txs, pora, memory, job, up, pads, panic, bounds>>

(***************************************************************************)
(* TransactionStore::rebuild_last_chunk_merkle for chunk c and the         *)
(* transactions up to t: Contribution(c, s) is what transaction s adds to  *)
(* the chunk, and RebuildFrom(c, t) the oldest transaction looked at.      *)
(***************************************************************************)
PrefixTotal(nodes, i) == Total(SubSeq(nodes, 1, i))

\* Slip: the subtree that ends at the boundary is included.
Contribution_early(c, s) ==
    LET tx == Tx(s)
        cut == {i \in 1 .. Len(tx.nodes) : tx.start + PrefixTotal(tx.nodes, i) = c * Chunk}
    IN IF tx.start >= c * Chunk THEN tx.nodes
       ELSE IF cut = {} THEN <<>>
       ELSE SubSeq(tx.nodes, CHOOSE i \in cut : TRUE, Len(tx.nodes))

Contribution(c, s) ==
    LET tx == Tx(s)
        cut == {i \in 1 .. Len(tx.nodes) : tx.start + PrefixTotal(tx.nodes, i) = c * Chunk}
    IN IF tx.start >= c * Chunk THEN tx.nodes
       ELSE IF cut = {} THEN <<>>
       ELSE SubSeq(tx.nodes, (CHOOSE i \in cut : TRUE) + 1, Len(tx.nodes))

RebuildFrom(c, t) ==
    CHOOSE s \in 0 .. t :
        /\ s = 0 \/ Tx(s).start <= c * Chunk
        /\ \A j \in s + 1 .. t : Tx(j).start > c * Chunk

\* Slip: the subtrees are appended without padding.
AddFile_unpadded(leaves, nodes) == leaves + Total(nodes)

AddFile(leaves, nodes) ==
    IF nodes = <<>> THEN leaves
    ELSE LET over == leaves % nodes[1]
             first == IF nodes[1] < Chunk THEN nodes[1] ELSE Chunk
         IN (IF over = 0 THEN leaves ELSE leaves + first - over) + Total(nodes)

\* The leaves of the tree after each transaction of the chunk.
RebuildLeaves(c, t) ==
    LET lo == RebuildFrom(c, t)
        leaves[s \in lo - 1 .. t] ==
            IF s < lo THEN IF c = 0 THEN 1 ELSE 0
            ELSE AddFile(leaves[s - 1], Contribution(c, s))
    IN leaves

rebuild_last_chunk_merkle(c, t) == RebuildLeaves(c, t)[t]

\* Slip: all versions get the final tree.
RebuildVersions_last(c, t) ==
    [s \in Seqs |->
        IF s \in RebuildFrom(c, t) .. t /\ Contribution(c, s) # <<>>
        THEN RebuildLeaves(c, t)[t] ELSE NoVersion]

RebuildVersions(c, t) ==
    [s \in Seqs |->
        IF s \in RebuildFrom(c, t) .. t /\ Contribution(c, s) # <<>>
        THEN RebuildLeaves(c, t)[s] ELSE NoVersion]

(***************************************************************************)
(* LogManager::revert_to(t): the trees, the zero entry of an empty flow    *)
(* and the comparison of the two trees, the truncation of the flow, and    *)
(* the removal of the transactions with one write for each database.       *)
(* clear_after drops the versions that follow t without a gap.             *)
(***************************************************************************)
clear_after(ver, t) ==
    [s \in Seqs |-> IF s > t /\ \A j \in t + 1 .. s : ver[j] # NoVersion THEN NoVersion ELSE ver[s]]

revert_to(t) ==
    /\ Idle
    /\ reverts < workload.reverts
    /\ reverts' = reverts + 1
    /\ job' = <<[op |-> "revert_merkle_tree", n |-> t], [op |-> "try_initialize", n |-> t],
                [op |-> "truncate", n |-> t], [op |-> "remove_completed", n |-> t],
                [op |-> "remove_tx", n |-> t]>>
    /\ UNCHANGED <<txs, completed, pora, memory, up, pads, panic, workload, crashes>>

\* AppendMerkleTree::revert_to of a version that is gone: an error, after
\* start_transaction.  The log sync logs it and goes on.
RevertFails(pora1, poraVer1) ==
    /\ pora' = pora1 /\ poraVer' = poraVer1
    /\ dbtx' = TRUE
    /\ job' = <<>>
    /\ UNCHANGED <<last, lastVer>>

revert_merkle_tree ==
    LET t == Head(job).n
        cleared == clear_after(poraVer, t)
    IN /\ Head1("revert_merkle_tree")
       /\ IF dbtx THEN Fail("start new tx before commit")
          ELSE /\ IF t = -1
                  THEN /\ pora' = 0 /\ last' = 0
                       /\ job' = Tail(job)
                       /\ UNCHANGED <<poraVer, lastVer, dbtx>>
                  ELSE IF poraVer[t] = NoVersion THEN RevertFails(pora, poraVer)
                  ELSE IF poraVer[t] = pora /\ last # 0 /\ lastVer[t] = NoVersion
                  THEN RevertFails(pora, cleared)
                  ELSE /\ pora' = poraVer[t] /\ poraVer' = cleared
                       /\ job' = Tail(job)
                       /\ IF poraVer[t] # pora
                          THEN /\ last' = rebuild_last_chunk_merkle(poraVer[t] - 1, t)
                               /\ lastVer' = RebuildVersions(poraVer[t] - 1, t)
                          ELSE IF last = 0 THEN UNCHANGED <<last, lastVer>>
                          ELSE last' = lastVer[t] /\ lastVer' = clear_after(lastVer, t)
                       /\ UNCHANGED dbtx
               /\ UNCHANGED <<txs, completed, up, pad_list, pads, panic, bounds>>

\* An empty last_chunk_merkle has no root to compare.
try_initialize ==
    /\ Head1("try_initialize")
    /\ IF pora = 0 /\ last = 0
       THEN /\ pora' = 1 /\ last' = 1 /\ job' = Tail(job)
            /\ UNCHANGED <<txs, completed, poraVer, lastVer, dbtx, pad_list, up, pads, panic, bounds>>
       ELSE IF last = 0 THEN Fail("last_chunk_merkle.root()")
       ELSE job' = Tail(job)
            /\ UNCHANGED <<txs, completed, pora, memory, up, pads, panic, bounds>>

\* The position revert_to truncates at, multiplying by the chunk size twice.
truncate_index == last_chunk_start_index * Chunk + last

truncate ==
    /\ Head1("truncate")
    /\ written' = {p \in written : p < truncate_index}
    /\ job' = Tail(job)
    /\ UNCHANGED <<txs, completed, pora, memory, up, pad_data, padNext, padHeight, panic, bounds>>

\* remove_tx_after: data_kvdb first, then flow_kvdb.
remove_completed ==
    /\ Head1("remove_completed")
    /\ completed' = {s \in completed : s <= Head(job).n}
    /\ job' = Tail(job)
    /\ UNCHANGED <<txs, pora, memory, up, pads, panic, bounds>>

remove_tx ==
    /\ Head1("remove_tx")
    /\ txs' = SubSeq(txs, 1, Head(job).n + 1)
    /\ job' = Tail(job)
    /\ UNCHANGED <<completed, pora, memory, up, pads, panic, bounds>>

(***************************************************************************)
(* The padding task: it writes the listed pads of start_index and goes on  *)
(* to the next one, also when there is no list for it yet.  The index      *)
(* grows for ever; MaxTx stands for all those above it.                    *)
(***************************************************************************)
Zeros(list) == UNION {p[1] .. p[1] + p[2] - 1 : p \in list}

start_padding ==
    /\ up /\ panic = "none"
    /\ written' = written \cup Zeros(pad_data[padNext])
    /\ padHeight' = padNext
    /\ padNext' = IF padNext < MaxTx THEN padNext + 1 ELSE padNext
    /\ UNCHANGED <<txs, completed, pora, memory, job, up, pad_data, panic, bounds>>

(***************************************************************************)
(* A crash loses everything that is in memory.                             *)
(***************************************************************************)
crash ==
    /\ up /\ panic = "none"
    /\ crashes < workload.crashes
    /\ crashes' = crashes + 1
    /\ up' = FALSE
    /\ job' = <<>> /\ last' = 0 /\ dbtx' = FALSE /\ pad_list' = {} /\ padNext' = 0
    /\ poraVer' = EmptyVersions /\ lastVer' = EmptyVersions
    /\ UNCHANGED <<txs, completed, pora, pad_data, written, padHeight, panic, workload, reverts>>

(***************************************************************************)
(* LogManager::new.  StartTx(s, leaves, ops) starts with the trees of      *)
(* transaction s over that many chunks; ops is the put_tx that is run      *)
(* again.                                                                  *)
(***************************************************************************)
last_chunk_leaves(s, leaves) ==
    IF TxEnd(Tx(s)) % Chunk = 0 THEN 0 ELSE rebuild_last_chunk_merkle(leaves - 1, s)

StartTx(s, leaves, rerun) ==
    IF leaves = 0 THEN Fail("pora_chunks_merkle.leaves() - 1")
    ELSE LET l == last_chunk_leaves(s, leaves)
             len == IF l = 0 THEN Chunk * leaves ELSE Chunk * (leaves - 1) + l
             ops == IF rerun THEN PutOps(s + 1, Tx(s + 1), len) ELSE <<>>
         IN IF rerun /\ Tx(s + 1).start < len THEN Fail("pad_size underflow")
            ELSE /\ pora' = leaves
                 /\ last' = l
                 /\ poraVer' = [EmptyVersions EXCEPT ![s] = leaves]
                 /\ lastVer' = IF l = 0 THEN EmptyVersions ELSE RebuildVersions(leaves - 1, s)
                 /\ job' = ops
                 /\ up' = TRUE
                 /\ padNext' = padHeight
                 /\ UNCHANGED <<txs, completed, dbtx, pad_list, pad_data, written, padHeight,
                                panic, bounds>>

\* The first transaction is put again on trees without the zero entry.
StartEmpty(ops) ==
    /\ pora' = IF ops = <<>> THEN 1 ELSE 0
    /\ last' = IF ops = <<>> THEN 1 ELSE 0
    /\ job' = ops
    /\ up' = TRUE
    /\ padNext' = padHeight
    /\ UNCHANGED <<txs, completed, poraVer, lastVer, dbtx, pad_list, pad_data, written, padHeight,
                   panic, bounds>>

\* Slip: rounded down.
expected_len_floor == TxEnd(Tx(Len(txs) - 1)) \div Chunk

expected_len == CeilDiv(TxEnd(Tx(Len(txs) - 1)), Chunk)

new ==
    LET s == Len(txs) - 1
        prev_len == TxEnd(Tx(s - 1)) \div Chunk
    IN /\ ~up /\ panic = "none"
       /\ IF s = -1 THEN StartEmpty(<<>>)
          ELSE IF s \in completed \/ expected_len = pora THEN StartTx(s, pora, FALSE)
          ELSE IF expected_len < pora THEN Fail("Unexpected DB")
          ELSE IF s = 0 THEN StartEmpty(PutOps(0, Tx(0), 0))
          ELSE IF pora < prev_len THEN Fail("current_len == expected_len")
          ELSE IF pora = prev_len THEN StartTx(s - 1, pora, TRUE)
          ELSE IF prev_len = 0 THEN Fail("revert_to_leaves")
          ELSE StartTx(s - 1, prev_len + 1, TRUE)

Next ==
    \/ \E f \in workload.files : put_tx(f)
    \/ pad
    \/ add_chunk
    \/ end_pad
    \/ put_pad_data
    \/ append_subtree
    \/ commit_merkle
    \/ \E s \in Seqs : finalize_tx(s)
    \/ \E t \in -1 .. Len(txs) - 2 : revert_to(t)
    \/ revert_merkle_tree
    \/ try_initialize
    \/ truncate
    \/ remove_completed
    \/ remove_tx
    \/ start_padding
    \/ crash
    \/ new

Spec == Init /\ [][Next]_vars

-----------------------------------------------------------------------------
FilePositions(s) == Tx(s).start .. TxEnd(Tx(s)) - 1
AllFiles == UNION {FilePositions(s) : s \in 0 .. Len(txs) - 1}
Gaps == (1 .. ChainLen - 1) \ AllFiles

\* The variables have their types.
TypeOK ==
    /\ \A i \in 1 .. Len(txs) : txs[i].start \in Nat /\ txs[i].nodes \in workload.files
    /\ Len(txs) <= MaxTx
    /\ completed \subseteq Seqs
    /\ pora \in Nat /\ last \in 0 .. Chunk
    /\ poraVer \in [Seqs -> Nat \cup {NoVersion}]
    /\ lastVer \in [Seqs -> Nat \cup {NoVersion}]
    /\ {dbtx, up} \subseteq BOOLEAN
    /\ \A i \in 1 .. Len(job) : job[i].n \in Int
    /\ written \subseteq Nat
    /\ \A s \in Seqs : \A p \in pad_data[s] : p[1] \in Nat /\ p[2] \in Nat
    /\ {padNext, padHeight} \subseteq 0 .. MaxTx

(***************************************************************************)
(* Whenever put_tx, revert_to or the recovery is done, the two trees       *)
(* together cover exactly the flow up to the end of the last transaction   *)
(* (get_context returns that length).                                      *)
(***************************************************************************)
FlowMatchesTxs == Idle => FlowLen = ChainLen

(***************************************************************************)
(* "The in-memory structure of the sub merkle tree of the last chunk.  The *)
(* size is always less than PORA_CHUNK_SIZE." (MerkleManager), also after  *)
(* every subtree of an unfinished put_tx; only pad_tx fills the chunk      *)
(* before it closes it.                                                    *)
(***************************************************************************)
LastChunkPartial ==
    (job = <<>> \/ Head(job).op \notin {"add_chunk", "end_pad"}) => last < Chunk

(***************************************************************************)
(* No assertion of put_tx, revert_to, new and the trees fails, and no      *)
(* subtraction wraps, whatever files follow each other.                    *)
(***************************************************************************)
NoPanic == panic = "none"

(***************************************************************************)
(* A version kept for a transaction that is still there is the state of    *)
(* the trees after that transaction, also after reorganisations that       *)
(* rebuilt the last chunk (commit_merkle, rebuild_last_chunk_merkle).      *)
(***************************************************************************)
VersionsMatchTxs ==
    Idle => \A s \in 0 .. Len(txs) - 1 :
        /\ poraVer[s] \in {NoVersion, CeilDiv(TxEnd(Tx(s)), Chunk)}
        /\ lastVer[s] \in {NoVersion, TxEnd(Tx(s)) % Chunk}

(***************************************************************************)
(* rebuild_last_chunk_merkle computes, from the transactions alone, the    *)
(* tree that put_tx built step by step, for any last transaction that      *)
(* leaves its chunk incomplete.                                            *)
(***************************************************************************)
RebuildMatchesPut ==
    \A t \in 0 .. Len(txs) - 1 :
        TxEnd(Tx(t)) % Chunk # 0 =>
            rebuild_last_chunk_merkle(TxEnd(Tx(t)) \div Chunk, t) = TxEnd(Tx(t)) % Chunk

(***************************************************************************)
(* Every position between two files is a zero in the flow, or is listed    *)
(* for the padding task (pad_tx), as long as the process does not crash.   *)
(***************************************************************************)
PadsCovered ==
    (Idle /\ crashes = 0) => Gaps \subseteq written \cup UNION {Zeros(pad_data[s]) : s \in 0 .. Len(txs) - 1}

(***************************************************************************)
(* Padding zeros are never where a file of the current chain is, nor at    *)
(* entry 0: a reorganisation removes the padding of the abandoned fork     *)
(* (revert_to, FlowWrite::truncate).                                       *)
(***************************************************************************)
PadsOutsideFiles == Idle => written \cap (AllFiles \cup {0}) = {}
=============================================================================
