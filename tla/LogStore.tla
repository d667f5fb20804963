------------------------------ MODULE LogStore ------------------------------
(***************************************************************************)
(* How a file becomes finalized: the transaction table, the index from     *)
(* data roots to sequence numbers and the status table of TransactionStore,*)
(* and the operations of LogManager on them.  They are called by the log   *)
(* sync thread (put_tx, revert_to), by clients (the chunk pool and the     *)
(* file sync: put_chunks_with_tx_hash, finalize_tx_with_hash) and by the   *)
(* pruner (prune_tx).  The Merkle lock covers put_tx up to its commit,     *)
(* every write of data, a copy with its marks, and revert_to; a            *)
(* finalization between its writes, and prune_tx, run without it.          *)
(*                                                                         *)
(* A transaction is its data root and an id that tells the transactions of *)
(* two forks apart; together with the sequence number they are what        *)
(* tx.hash() covers.  The flow has one segment for each sequence number:   *)
(* body is the content of the file's own entries (named by its data root)  *)
(* and rear the segments whose rear padding is there.  Merkle trees and    *)
(* front padding are modelled in LogMerkle, sealing in FlowSeal.           *)
(***************************************************************************)
EXTENDS Integers, Sequences, SequencesExt, TLC

CONSTANTS
    Clients,    \* threads that upload and finalize files
    Roots,      \* data roots
    MaxTx,      \* bound on the sequence numbers
    FirstChunk, \* the sequence numbers below it lie in the first chunk
    Ttl,        \* CacheConfig.tx_seq_ttl
    Workloads   \* records [ids, shards, overlap, reverts, prunes, crashes]

\* A workload: the ids transactions may have, the number of shards, the
\* operations that may overlap with a finalization, and how many
\* reorganisations, prunings and crashes happen.
ASSUME LogStoreAssumption ==
    /\ MaxTx \in Nat \ {0} /\ FirstChunk \in Nat /\ Ttl \in Nat
    /\ Clients \cap {"log_sync", "pruner", "none"} = {}
    /\ \A w \in Workloads :
          /\ w.shards \in {1, 2}
          /\ w.overlap \subseteq {"put_tx", "revert_to", "prune_tx"}
          /\ {w.reverts, w.prunes, w.crashes} \subseteq Nat

Procs == Clients \cup {"log_sync", "pruner"}
Seqs == 0 .. MaxTx - 1
NoTx == [root |-> "none", id |-> 0]
NoData == "none"
Uncached == -1

VARIABLES
    workload,
    next_tx_seq, \* TransactionStore.next_tx_seq, in memory
    next_tx_key, \* NEXT_TX_KEY, in the database
    txs,         \* COL_TX
    index,       \* COL_TX_DATA_ROOT_INDEX
    status,      \* COL_TX_COMPLETED
    body, rear,  \* the flow
    cache,       \* DataCache.root_to_data: data root -> last_seen_tx_seq
    lock,        \* the thread that holds the Merkle lock, or "none"
    proc,        \* the call each thread is in
    first_tx_seq, \* Pruner.first_tx_seq
    panic,       \* a failed assertion
    reverts, prunes, crashes

table == <<next_tx_seq, next_tx_key, txs, index>>
flow == <<body, rear>>
bounds == <<workload, reverts, prunes, crashes>>
vars == <<table, flow, bounds, status, cache, lock, proc, first_tx_seq, panic>>

\* The locals of a call: the transaction it is about, the list it has read,
\* the source and the targets of a copy, and where the copy returns to.
NoCall == [pc |-> "idle", seq |-> 0, tx |-> NoTx, list |-> <<>>, from |-> 0, to |-> <<>>, ret |-> "idle"]

Init ==
    /\ workload \in Workloads
    /\ next_tx_seq = 0 /\ next_tx_key = 0
    /\ txs = [s \in Seqs |-> NoTx]
    /\ index = [r \in Roots |-> <<>>]
    /\ status = [s \in Seqs |-> "none"]
    /\ body = [s \in Seqs |-> NoData] /\ rear = {}
    /\ cache = [r \in Roots |-> Uncached]
    /\ lock = "none"
    /\ proc = [p \in Procs |-> NoCall]
    /\ first_tx_seq = 0
    /\ panic = FALSE
    /\ reverts = 0 /\ prunes = 0 /\ crashes = 0

At(p, pc) == proc[p].pc = pc /\ ~panic
Go(p, pc) == proc' = [proc EXCEPT ![p].pc = pc]

\* A call that fails: a client's returns, the log sync stops the node.
Failed(p) == [NoCall EXCEPT !.pc = IF p = "log_sync" THEN "stopped" ELSE "idle"]
Fail(p) == proc' = [proc EXCEPT ![p] = Failed(p)]

\* A workload keeps the operations outside its overlap apart from other calls.
Exclusive(op) == op \in {"put_tx", "revert_to", "prune_tx", "new"} \ workload.overlap
Busy(p) == proc[p].pc \notin {"idle", "stopped"}
Current(p) ==
    IF p \in Clients THEN "finalize_tx"
    ELSE IF p = "pruner" THEN "prune_tx"
    ELSE IF proc[p].pc \in {"revert_to", "remove_tx_after", "remove_tx"} THEN "revert_to"
    ELSE IF proc[p].ret = "idle" THEN "new"
    ELSE "put_tx"
MayStart(p, op) ==
    /\ At(p, "idle")
    /\ \A q \in Procs \ {p} : Busy(q) => ~Exclusive(op) /\ ~Exclusive(Current(q))

get_tx_by_seq_number(s) == IF s < next_tx_seq THEN txs[s] ELSE NoTx
check_tx_completed(s) == status[s] = "Finalized"

\* ShardConfig::in_range for the segment of sequence number s, with shard 0.
ShardOf(s) == s % workload.shards
in_range(s) == ShardOf(s) = 0

HasData(s) == in_range(s) => body[s] # NoData /\ s \in rear
\* insert_data refuses to change the content.
Refused(s, content) == in_range(s) /\ body[s] \notin {NoData, content}
Fill(S, content) == [s \in Seqs |-> IF s \in S /\ in_range(s) THEN content ELSE body[s]]

(***************************************************************************)
(* put_tx, and put_tx_inner around it.  The list of transactions with the  *)
(* same root is read first, then next_tx_seq and the tables are written;   *)
(* the lock is held from the read to the commit of the trees.              *)
(***************************************************************************)
put_tx(tx) ==
    /\ MayStart("log_sync", "put_tx")
    /\ lock = "none"
    /\ next_tx_seq < MaxTx
    /\ lock' = "log_sync"
    /\ proc' = [proc EXCEPT !["log_sync"] =
                   [NoCall EXCEPT !.pc = "tx_store", !.seq = next_tx_seq, !.tx = tx,
                                  !.list = index[tx.root], !.ret = "cached"]]
    /\ UNCHANGED <<table, flow, bounds, status, cache, first_tx_seq, panic>>

\* "The last tx is inserted again, so no need to process it."
Inserted(list, seq) == list # <<>> /\ Last(list) = seq

\* Slip: the lock is kept for the copy.
LockAfterCommit_kept == "log_sync"

\* "Drop the lock because copy_tx_data will lock again."
LockAfterCommit == "none"

tx_store_put_tx ==
    LET l == proc["log_sync"]
        sorted == l.list = <<>> \/ Last(l.list) < l.seq
    IN /\ At("log_sync", "tx_store")
       /\ lock' = LockAfterCommit
       /\ IF Inserted(l.list, l.seq)
          THEN next_tx_seq' = l.seq + 1 /\ UNCHANGED <<next_tx_key, txs, index, panic>>
          ELSE IF ~sorted THEN panic' = TRUE /\ UNCHANGED table
          ELSE /\ next_tx_seq' = l.seq + 1 /\ next_tx_key' = l.seq + 1
               /\ txs' = [txs EXCEPT ![l.seq] = l.tx]
               /\ index' = [index EXCEPT ![l.tx.root] = Append(l.list, l.seq)]
               /\ UNCHANGED panic
       /\ Go("log_sync", "same_data")
       /\ UNCHANGED <<flow, bounds, status, cache, first_tx_seq>>

\* The first transaction with the same root is the source of the data.
check_same_data ==
    LET l == proc["log_sync"] IN
    /\ At("log_sync", "same_data")
    /\ proc' = [proc EXCEPT !["log_sync"] =
                   IF l.list # <<>> /\ check_tx_completed(Head(l.list))
                   THEN [l EXCEPT !.pc = "copy", !.from = Head(l.list), !.to = <<l.seq>>]
                   ELSE IF l.ret = "idle" THEN NoCall ELSE [l EXCEPT !.pc = l.ret]]
    /\ UNCHANGED <<table, flow, bounds, status, cache, lock, first_tx_seq, panic>>

\* put_tx_inner: data of an abandoned fork with the same root is put again, and
\* a file outside the shard is finalized without data.
pop_data ==
    LET l == proc["log_sync"] IN
    /\ At("log_sync", "cached")
    /\ IF cache[l.tx.root] # Uncached
       THEN /\ lock = "none"
            /\ cache' = [cache EXCEPT ![l.tx.root] = Uncached]
            /\ IF Refused(l.seq, l.tx.root) THEN Fail("log_sync") /\ UNCHANGED flow
               ELSE /\ body' = Fill({l.seq}, l.tx.root)
                    /\ rear' = rear \cup {l.seq}
                    /\ Go("log_sync", "finalize")
       ELSE /\ Go("log_sync", IF in_range(l.seq) THEN "garbage_collect" ELSE "finalize")
            /\ UNCHANGED <<flow, cache>>
    /\ UNCHANGED <<table, bounds, status, lock, first_tx_seq, panic>>

garbage_collect ==
    LET l == proc["log_sync"] IN
    /\ At("log_sync", "garbage_collect")
    /\ cache' = [r \in Roots |-> IF cache[r] + Ttl >= l.seq THEN cache[r] ELSE Uncached]
    /\ proc' = [proc EXCEPT !["log_sync"] = NoCall]
    /\ UNCHANGED <<table, flow, bounds, status, lock, first_tx_seq, panic>>

(***************************************************************************)
(* put_chunks_with_tx_hash by a client, for a transaction it has read; one *)
(* with another hash, and content the flow refuses, change nothing.        *)
(***************************************************************************)
put_chunks_with_tx_hash(c, s) ==
    /\ MayStart(c, "put_chunks")
    /\ lock = "none"
    /\ get_tx_by_seq_number(s) # NoTx
    /\ status[s] = "none"
    /\ in_range(s) /\ body[s] = NoData
    /\ body' = Fill({s}, txs[s].root)
    /\ UNCHANGED <<table, rear, bounds, status, cache, lock, proc, first_tx_seq, panic>>

(***************************************************************************)
(* finalize_tx_with_hash, called by a client for a file that has no status *)
(* yet, or by put_tx_inner.  finalize_tx_common pads the rear, checks the  *)
(* file's own entries, finds the transactions with the same root and       *)
(* copies the data to them before it marks its own transaction.            *)
(***************************************************************************)
finalize_tx_with_hash(c, s) ==
    /\ MayStart(c, "finalize_tx")
    /\ get_tx_by_seq_number(s) # NoTx
    /\ status[s] = "none"
    /\ proc' = [proc EXCEPT ![c] = [NoCall EXCEPT !.pc = "pad_rear", !.seq = s, !.tx = txs[s], !.ret = "mark"]]
    /\ UNCHANGED <<table, flow, bounds, status, cache, lock, first_tx_seq, panic>>

finalize_inner ==
    /\ At("log_sync", "finalize")
    /\ proc' = [proc EXCEPT !["log_sync"].pc = "pad_rear", !["log_sync"].ret = "mark"]
    /\ UNCHANGED <<table, flow, bounds, status, cache, lock, first_tx_seq, panic>>

\* The hash is compared again under the lock; a mismatch is not an error.
padding_rear_data(p) ==
    LET l == proc[p]
        tx == get_tx_by_seq_number(l.seq)
    IN /\ At(p, "pad_rear")
       /\ lock = "none"
       /\ IF tx = NoTx THEN Fail(p) ELSE Go(p, "check_data")
       /\ rear' = IF tx = l.tx THEN rear \cup {l.seq} ELSE rear
       /\ UNCHANGED <<table, body, bounds, status, cache, lock, first_tx_seq, panic>>

check_data_completed(p) ==
    LET l == proc[p] IN
    /\ At(p, "check_data")
    /\ IF in_range(l.seq) => body[l.seq] # NoData THEN Go(p, "same_root") ELSE Fail(p)
    /\ UNCHANGED <<table, flow, bounds, status, cache, lock, first_tx_seq, panic>>

\* get_tx_seq_list_by_data_root: the list from the first that is not pruned.
SeqList(root) ==
    LET list == index[root]
        kept == {i \in 1 .. Len(list) : status[list[i]] # "Pruned"}
    IN IF kept = {} THEN <<>> ELSE SubSeq(list, CHOOSE i \in kept : \A j \in kept : i <= j, Len(list))

\* Slip: only the transactions after this one are looked at.
CopyTargets_after(seq, list) == SelectSeq(list, LAMBDA s : s > seq)

CopyTargets(seq, list) == IF Head(list) = seq THEN Tail(list) ELSE list

same_root(p) ==
    LET l == proc[p]
        list == SeqList(l.tx.root)
        copies == list # <<>> /\ (Head(list) = l.seq \/ ~check_tx_completed(Head(list)))
    IN /\ At(p, "same_root")
       /\ proc' = [proc EXCEPT ![p] =
                      IF copies
                      THEN [l EXCEPT !.pc = "copy", !.from = l.seq, !.to = CopyTargets(l.seq, list)]
                      ELSE [l EXCEPT !.pc = "mark"]]
       /\ UNCHANGED <<table, flow, bounds, status, cache, lock, first_tx_seq, panic>>

(***************************************************************************)
(* copy_tx_and_finalize: the unfinished transactions of the list whose     *)
(* segment is in the same shard receive the data under the lock, one after *)
(* the other, and are then marked one by one before the lock is dropped.   *)
(***************************************************************************)
\* Slip: the shards are not compared.
SameShard_any(s, from) == TRUE

SameShard(s, from) == ShardOf(s) = ShardOf(from)

Return(p) ==
    LET l == proc[p] IN
    proc' = [proc EXCEPT ![p] = IF l.ret = "idle" THEN NoCall ELSE [l EXCEPT !.pc = l.ret, !.to = <<>>]]

copy_tx_and_finalize(p) ==
    LET l == proc[p]
        open == SelectSeq(l.to, LAMBDA s : ~check_tx_completed(s) /\ s # l.from)
        missing == \E i \in 1 .. Len(open) : get_tx_by_seq_number(open[i]) = NoTx
        to == SelectSeq(open, LAMBDA s : SameShard(s, l.from))
        refused == {i \in 1 .. Len(to) : Refused(to[i], body[l.from])}
        filled == {to[i] : i \in {j \in 1 .. Len(to) : \A k \in refused : j < k}}
    IN /\ At(p, "copy")
       /\ lock = "none"
       /\ IF get_tx_by_seq_number(l.from) = NoTx \/ missing \/ (to # <<>> /\ ~HasData(l.from))
          THEN Fail(p) /\ UNCHANGED <<flow, lock>>
          ELSE IF to = <<>>
          THEN Return(p) /\ UNCHANGED <<flow, lock>>
          ELSE /\ body' = Fill(filled, body[l.from])
               /\ rear' = rear \cup filled
               /\ IF refused # {} THEN Fail(p) /\ UNCHANGED lock
                  ELSE /\ proc' = [proc EXCEPT ![p].pc = "copied", ![p].to = to]
                       /\ lock' = p
       /\ UNCHANGED <<table, bounds, status, cache, first_tx_seq, panic>>

mark_copied(p) ==
    LET l == proc[p] IN
    /\ At(p, "copied")
    /\ status' = [status EXCEPT ![Head(l.to)] = "Finalized"]
    /\ IF Len(l.to) = 1 THEN lock' = "none" /\ Return(p)
       ELSE UNCHANGED lock /\ proc' = [proc EXCEPT ![p].to = Tail(@)]
    /\ UNCHANGED <<table, flow, bounds, cache, first_tx_seq, panic>>

tx_store_finalize_tx(p) ==
    LET l == proc[p] IN
    /\ At(p, "mark")
    /\ status' = [status EXCEPT ![l.seq] = "Finalized"]
    /\ IF p = "log_sync" THEN Go(p, "garbage_collect") ELSE proc' = [proc EXCEPT ![p] = NoCall]
    /\ UNCHANGED <<table, flow, bounds, cache, lock, first_tx_seq, panic>>

(***************************************************************************)
(* process_reverted: the data of completed transactions from t on is kept  *)
(* in the cache, then revert_to truncates the flow, takes the transactions *)
(* out of memory and of the status table, and last out of the other tables *)
(* (two databases, two writes).  The position the flow is truncated at is  *)
(* multiplied by the chunk size twice, so beyond the first chunk nothing   *)
(* is removed.                                                             *)
(***************************************************************************)
process_reverted(t) ==
    LET kept == {s \in t .. next_tx_seq - 1 : check_tx_completed(s) /\ txs[s] # NoTx /\ body[s] # NoData /\ s \in rear} IN
    /\ MayStart("log_sync", "revert_to")
    /\ reverts < workload.reverts
    /\ cache' = [r \in Roots |->
                   LET seen == {s \in kept : txs[s].root = r} \cup {cache[r]}
                   IN CHOOSE s \in seen : \A u \in seen : u <= s]
    /\ proc' = [proc EXCEPT !["log_sync"] = [NoCall EXCEPT !.pc = "revert_to", !.seq = t]]
    /\ reverts' = reverts + 1
    /\ UNCHANGED <<table, flow, workload, prunes, crashes, status, lock, first_tx_seq, panic>>

TruncatedFrom(t) == IF t < FirstChunk THEN t ELSE MaxTx

revert_to ==
    LET cut == TruncatedFrom(proc["log_sync"].seq) IN
    /\ At("log_sync", "revert_to")
    /\ lock = "none"
    /\ lock' = "log_sync"
    /\ body' = [s \in Seqs |-> IF s >= cut THEN NoData ELSE body[s]]
    /\ rear' = {s \in rear : s < cut}
    /\ Go("log_sync", "remove_tx_after")
    /\ UNCHANGED <<table, bounds, status, cache, first_tx_seq, panic>>

\* Slip: the reverted transaction itself stays in the list.
KeptSeqs_own(list, t) == SelectSeq(list, LAMBDA s : s <= t)

KeptSeqs(list, t) == SelectSeq(list, LAMBDA s : s < t)

\* The transactions to remove, and their roots, are read before the first write.
remove_tx_after ==
    LET t == proc["log_sync"].seq
        modified == {txs[s].root : s \in t .. next_tx_seq - 1}
    IN
    /\ At("log_sync", "remove_tx_after")
    /\ next_tx_seq' = t
    /\ status' = [s \in Seqs |-> IF s >= t THEN "none" ELSE status[s]]
    /\ proc' = [proc EXCEPT !["log_sync"].pc = "remove_tx",
                            !["log_sync"].list = [r \in modified |-> KeptSeqs(index[r], t)]]
    /\ UNCHANGED <<next_tx_key, txs, index, flow, bounds, cache, lock, first_tx_seq, panic>>

remove_tx ==
    LET t == proc["log_sync"].seq IN
    /\ At("log_sync", "remove_tx")
    /\ next_tx_key' = t
    /\ txs' = [s \in Seqs |-> IF s >= t THEN NoTx ELSE txs[s]]
    /\ index' = proc["log_sync"].list @@ index
    /\ lock' = "none"
    /\ proc' = [proc EXCEPT !["log_sync"] = NoCall]
    /\ UNCHANGED <<next_tx_seq, flow, bounds, status, cache, first_tx_seq, panic>>

(***************************************************************************)
(* The pruner marks the next transaction as pruned, takes it out of the    *)
(* index with a list it has read before, and deletes the data.             *)
(***************************************************************************)
prune_tx ==
    LET s == first_tx_seq IN
    /\ MayStart("pruner", "prune_tx")
    /\ prunes < workload.prunes
    /\ s < MaxTx /\ get_tx_by_seq_number(s) # NoTx
    /\ proc' = [proc EXCEPT !["pruner"] =
                   [NoCall EXCEPT !.pc = "prune_status", !.seq = s, !.tx = txs[s],
                                  !.list = SelectSeq(index[txs[s].root], LAMBDA u : u # s)]]
    /\ prunes' = prunes + 1
    /\ UNCHANGED <<table, flow, workload, reverts, crashes, status, cache, lock, first_tx_seq, panic>>

prune_status ==
    /\ At("pruner", "prune_status")
    /\ status' = [status EXCEPT ![proc["pruner"].seq] = "Pruned"]
    /\ Go("pruner", "prune_index")
    /\ UNCHANGED <<table, flow, bounds, cache, lock, first_tx_seq, panic>>

prune_index ==
    LET l == proc["pruner"] IN
    /\ At("pruner", "prune_index")
    /\ index' = [index EXCEPT ![l.tx.root] = l.list]
    /\ first_tx_seq' = l.seq + 1
    /\ Go("pruner", "prune_data")
    /\ UNCHANGED <<next_tx_seq, next_tx_key, txs, flow, bounds, status, cache, lock, panic>>

prune_in_batch ==
    LET s == proc["pruner"].seq IN
    /\ At("pruner", "prune_data")
    /\ body' = [body EXCEPT ![s] = NoData]
    /\ rear' = rear \ {s}
    /\ proc' = [proc EXCEPT !["pruner"] = NoCall]
    /\ UNCHANGED <<table, bounds, status, cache, lock, first_tx_seq, panic>>

(***************************************************************************)
(* A crash loses what is in memory.  LogManager::new runs put_tx again for *)
(* a last transaction that is not finalized, if the trees are shorter than *)
(* it needs (LogMerkle tells when; here it may or may not happen).         *)
(***************************************************************************)
crash ==
    /\ ~panic
    /\ crashes < workload.crashes
    /\ crashes' = crashes + 1
    /\ next_tx_seq' = next_tx_key
    /\ cache' = [r \in Roots |-> Uncached]
    /\ lock' = "none"
    /\ proc' = [[p \in Procs |-> NoCall] EXCEPT !["log_sync"].pc = "new"]
    /\ first_tx_seq' = 0
    /\ UNCHANGED <<next_tx_key, txs, index, flow, workload, reverts, prunes, status, panic>>

new ==
    LET s == next_tx_seq - 1 IN
    /\ At("log_sync", "new")
    /\ \/ proc' = [proc EXCEPT !["log_sync"] = NoCall] /\ UNCHANGED lock
       \/ /\ next_tx_seq > 0 /\ ~check_tx_completed(s)
          /\ lock' = "log_sync"
          /\ proc' = [proc EXCEPT !["log_sync"] =
                        [NoCall EXCEPT !.pc = "tx_store", !.seq = s, !.tx = txs[s], !.list = index[txs[s].root]]]
    /\ UNCHANGED <<table, flow, bounds, status, cache, first_tx_seq, panic>>

\* All transactions are there (the bound) and every thread waits for the next one.
wait ==
    /\ next_tx_seq = MaxTx
    /\ \A p \in Procs : At(p, "idle")
    /\ UNCHANGED vars

Next ==
    \/ \E r \in Roots, i \in workload.ids : put_tx([root |-> r, id |-> i])
    \/ tx_store_put_tx \/ check_same_data \/ pop_data \/ garbage_collect \/ finalize_inner
    \/ \E c \in Clients, s \in Seqs : put_chunks_with_tx_hash(c, s) \/ finalize_tx_with_hash(c, s)
    \/ \E p \in Clients \cup {"log_sync"} :
          \/ padding_rear_data(p) \/ check_data_completed(p) \/ same_root(p)
          \/ copy_tx_and_finalize(p) \/ mark_copied(p) \/ tx_store_finalize_tx(p)
    \/ \E t \in 0 .. next_tx_seq - 1 : process_reverted(t)
    \/ revert_to \/ remove_tx_after \/ remove_tx
    \/ prune_tx \/ prune_status \/ prune_index \/ prune_in_batch
    \/ crash \/ new \/ wait

Spec == Init /\ [][Next]_vars

-----------------------------------------------------------------------------
\* Every variable has its type; the lock is held by a thread inside a call.
TypeOK ==
    /\ {next_tx_seq, next_tx_key, first_tx_seq} \subseteq 0 .. MaxTx
    /\ \A s \in Seqs : txs[s] = NoTx \/ (txs[s].root \in Roots /\ txs[s].id \in workload.ids)
    /\ \A r \in Roots : Range(index[r]) \subseteq Seqs
    /\ status \in [Seqs -> {"none", "Finalized", "Pruned"}]
    /\ body \in [Seqs -> Roots \cup {NoData}] /\ rear \subseteq Seqs
    /\ cache \in [Roots -> Seqs \cup {Uncached}]
    /\ lock # "none" => proc[lock].pc \in {"tx_store", "copied", "remove_tx_after", "remove_tx"}

Reverting == proc["log_sync"].pc \in {"remove_tx_after", "remove_tx"}

(***************************************************************************)
(* "If a tx has been finalized, the data in flow must have been updated    *)
(* correctly." (put_tx): a transaction marked as finalized whose segment   *)
(* is in this node's shard has the content of its own data root and its    *)
(* rear padding, whoever marked it.                                        *)
(***************************************************************************)
FinalizedHasData ==
    \A s \in 0 .. next_tx_seq - 1 :
        check_tx_completed(s) /\ in_range(s) /\ ~Reverting => body[s] = txs[s].root /\ s \in rear

(***************************************************************************)
(* The index names exactly the transactions with a root that are not       *)
(* pruned, in order, whatever was put again, reverted and pruned before;   *)
(* so the assertion of TransactionStore::put_tx on its order holds.        *)
(***************************************************************************)
IndexExact ==
    /\ ~panic
    /\ ~Reverting /\ ~Busy("pruner") =>
          \A r \in Roots :
              index[r] = SelectSeq([i \in 1 .. next_tx_seq |-> i - 1],
                                   LAMBDA s : txs[s].root = r /\ status[s] # "Pruned")

(***************************************************************************)
(* "copy and finalize all same-root txs": once no call is in progress, the *)
(* data of one finalized transaction has reached every other transaction   *)
(* with its root that is not pruned.  Stated for one shard, without        *)
(* crashes and with put_tx and finalizations one after the other.          *)
(***************************************************************************)
SameRootFinalized ==
    workload.shards = 1 /\ crashes = 0 /\ Exclusive("put_tx") /\ (\A p \in Procs : ~Busy(p)) =>
        \A s, u \in 0 .. next_tx_seq - 1 :
            check_tx_completed(s) /\ txs[u].root = txs[s].root /\ status[u] # "Pruned"
                => check_tx_completed(u)
=============================================================================
