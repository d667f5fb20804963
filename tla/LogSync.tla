------------------------------- MODULE LogSync -------------------------------
(***************************************************************************)
(* The log sync: a fetcher task watches the chain for submissions and      *)
(* sends them, with the blocks it has read and the reverts of a            *)
(* reorganisation, through a channel to the manager, which stores the      *)
(* transactions and the progress.  Both share block_hash_cache.  After a   *)
(* restart the manager finds out where to go on, and whether the chain was *)
(* reorganised meanwhile.                                                  *)
(*                                                                         *)
(* A block is its hash, an index of blocks; its record has the path of     *)
(* hashes from genesis (block number 0) and the submissions of the path,   *)
(* each as the hash of its block, so that a submission is another one on   *)
(* another fork.  The fetcher's reads of one watch_loop that must be       *)
(* linked by parent hashes are one step; the logs are read later, when the *)
(* chain may have changed.  Store errors are left to LogStore.             *)
(***************************************************************************)
EXTENDS Integers, Sequences, FiniteSets, SequencesExt

CONSTANTS
    MaxBlocks,  \* bound on the blocks that are mined, genesis included
    MaxHeight,  \* bound on block numbers
    TxCounts,   \* the numbers of submissions a block may have
    FinalDepth, \* blocks on top of a finalized block
    CatchUpGap, \* CATCH_UP_END_GAP
    Workloads   \* records [reorgs, crashes, lost, clean]: bounds on reorganisations, crashes and
                \* lost logs; with clean, no crash within a block, no reorganisation while the node is
                \* down, and no return to a block that was read without its logs

ASSUME LogSyncAssumption ==
    /\ {MaxBlocks, MaxHeight, FinalDepth} \subseteq Nat \ {0}
    /\ CatchUpGap \in Nat /\ TxCounts \subseteq Nat
    /\ \A w \in Workloads : {w.reorgs, w.crashes, w.lost} \subseteq Nat /\ w.clean \in BOOLEAN

None == -1
Genesis == 1
Numbers == 0 .. MaxHeight
Absent == [hash |-> 0, first |-> None]
Pending == [hash |-> None, first |-> None] \* a cache entry that is None in the code
MaxResets == 3

VARIABLES
    workload,
    blocks, head,  \* every block there ever was, and the head of the chain
    txs,           \* the transaction store: next_tx_seq is its length
    latest,        \* LOG_LATEST_BLOCK_NUMBER, or None
    synced,        \* LOG_SYNC_PROGRESS: [number, hash], or number None
    block_db,      \* COL_BLOCK_PROGRESS
    mode,          \* what the manager does: down, reorg, recover or watch
    boot,          \* [start, hash, fin] of the start-up
    cache,         \* block_hash_cache
    queue,         \* LogFetchProgress messages in the channel
    stored,        \* the block number of a transaction just stored, or None
    resets,        \* the watch_progress channel
    history,       \* progress_reset_history: resets to each block number
    closed,        \* watch_progress_rx is closed
    fetcher,       \* [pc, progress, parent, read]
    panic,
    missed,        \* blocks that were sent without their logs
    reorgs, crashes, losses

chain == <<blocks, head>>
db == <<txs, latest, synced, block_db>>
watch == <<resets, history, closed>>
bounds == <<workload, missed, reorgs, crashes, losses>>
vars == <<chain, db, watch, bounds, mode, boot, cache, queue, stored, fetcher, panic>>

Idle == [pc |-> "check", progress |-> 0, parent |-> Genesis, read |-> <<>>]
NoBoot == [start |-> 0, hash |-> 0, fin |-> 0]

Init ==
    /\ workload \in Workloads
    /\ blocks = <<[path |-> <<Genesis>>, txs |-> <<>>, first |-> None]>> /\ head = Genesis
    /\ txs = <<>> /\ latest = None /\ synced = [number |-> None, hash |-> 0]
    /\ block_db = [n \in Numbers |-> Absent] /\ cache = block_db
    /\ mode = "down" /\ boot = NoBoot
    /\ queue = <<>> /\ stored = None /\ resets = <<>> /\ history = [n \in Numbers |-> 0] /\ closed = FALSE
    /\ fetcher = Idle /\ panic = FALSE /\ missed = {} /\ reorgs = 0 /\ crashes = 0 /\ losses = 0

-----------------------------------------------------------------------------
(***************************************************************************)
(* The chain, as its RPC shows it.                                         *)
(***************************************************************************)
Number(h) == Len(blocks[h].path) - 1
Exists(n) == n <= Number(head)
BlockAt(n) == blocks[head].path[n + 1]
Finalized == IF Number(head) > FinalDepth THEN Number(head) - FinalDepth ELSE 0

\* The record of a block with n submissions on top of block p.
Mined(p, h, n) ==
    LET b == blocks[p] IN
    [path |-> Append(b.path, h), txs |-> b.txs \o [i \in 1 .. n |-> h],
     first |-> IF n = 0 THEN None ELSE Len(b.txs)]

mine(n) ==
    /\ Len(blocks) < MaxBlocks /\ Number(head) < MaxHeight
    /\ blocks' = Append(blocks, Mined(head, Len(blocks) + 1, n))
    /\ head' = Len(blocks) + 1
    /\ UNCHANGED <<db, watch, bounds, mode, boot, cache, queue, stored, fetcher, panic>>

Reorganise ==
    /\ reorgs < workload.reorgs
    /\ workload.clean => mode = "watch"
    /\ reorgs' = reorgs + 1
    /\ UNCHANGED <<db, watch, workload, missed, crashes, losses, mode, boot, cache, queue, stored, fetcher, panic>>

\* The last block is replaced by another one, or the last two by two others.
fork(n) ==
    /\ Reorganise /\ Len(blocks) < MaxBlocks /\ Number(head) > 0
    /\ blocks' = Append(blocks, Mined(BlockAt(Number(head) - 1), Len(blocks) + 1, n))
    /\ head' = Len(blocks) + 1

fork_two(n, m) ==
    LET h == Len(blocks) + 1
        b == Mined(BlockAt(Number(head) - 2), h, n)
    IN /\ Reorganise /\ FinalDepth > 1 /\ Len(blocks) + 1 < MaxBlocks /\ Number(head) > 1
       /\ blocks' = blocks \o <<b, [path |-> Append(b.path, h + 1), txs |-> b.txs \o [i \in 1 .. m |-> h + 1],
                                    first |-> IF m = 0 THEN None ELSE Len(b.txs)]>>
       /\ head' = h + 1

\* The chain goes back to a fork it had left.
switch(h) ==
    /\ Reorganise
    /\ workload.clean => missed \cap Range(blocks[h].path) = {}
    /\ h # head /\ Number(h) >= Number(head) /\ blocks[h].path[Finalized + 1] = BlockAt(Finalized)
    /\ head' = h
    /\ UNCHANGED blocks

-----------------------------------------------------------------------------
(***************************************************************************)
(* The manager.  process_reverted: revert_to fails when there is nothing   *)
(* up to the transaction before tx_seq, and then nothing changes.          *)
(***************************************************************************)
Kept(seq) == IF seq <= Len(txs) THEN SubSeq(txs, 1, seq) ELSE txs

Running == mode # "down" /\ ~panic

Unexpected(seq) == seq > Len(txs)

handle_tx ==
    LET m == Head(queue) IN
    /\ Running /\ stored = None /\ queue # <<>> /\ m.kind = "tx"
    /\ IF Unexpected(m.seq)
       THEN /\ UNCHANGED <<txs, stored>>
            /\ IF mode = "watch" /\ ~closed
               THEN /\ resets' = Append(resets, IF latest = None THEN 0 ELSE latest)
                    /\ queue' = Tail(queue)
                    /\ UNCHANGED <<mode, fetcher>>
               ELSE IF mode = "watch"
               THEN mode' = "down" /\ UNCHANGED <<resets, queue, fetcher>>
               \* HandleDataError::SeqError: the recovery starts again from the latest block.
               ELSE /\ queue' = <<>>
                    /\ fetcher' = [fetcher EXCEPT !.pc = "recover", !.progress = IF latest = None THEN 0 ELSE latest]
                    /\ UNCHANGED <<mode, resets>>
       ELSE /\ queue' = Tail(queue)
            /\ txs' = IF m.seq = Len(txs) THEN Append(txs, m.hash) ELSE txs
            /\ stored' = m.number
            /\ UNCHANGED <<mode, resets, fetcher>>
    /\ UNCHANGED <<chain, latest, synced, block_db, history, closed, bounds, boot, cache, panic>>

put_log_latest_block_number ==
    /\ Running /\ stored # None
    /\ latest' = stored
    /\ stored' = None
    /\ UNCHANGED <<chain, txs, synced, block_db, watch, bounds, mode, boot, cache, queue, fetcher, panic>>

handle_synced_block ==
    LET m == Head(queue)
        e == [hash |-> m.hash, first |-> m.first]
    IN /\ Running /\ stored = None /\ queue # <<>> /\ m.kind = "synced"
       /\ queue' = Tail(queue)
       /\ synced' = [number |-> m.number, hash |-> m.hash]
       /\ IF m.known
          THEN cache' = [cache EXCEPT ![m.number] = e] /\ block_db' = [block_db EXCEPT ![m.number] = e]
          ELSE UNCHANGED <<cache, block_db>>
       /\ UNCHANGED <<chain, txs, latest, watch, bounds, mode, boot, stored, fetcher, panic>>

process_reverted ==
    LET m == Head(queue) IN
    /\ Running /\ stored = None /\ queue # <<>> /\ m.kind = "reverted"
    /\ queue' = Tail(queue)
    /\ txs' = Kept(m.seq)
    /\ UNCHANGED <<chain, latest, synced, block_db, watch, bounds, mode, boot, cache, stored, fetcher, panic>>

-----------------------------------------------------------------------------
(***************************************************************************)
(* revert_one_block, for the block fetcher.progress - 1 with the hash      *)
(* fetcher.parent.  It waits for a cache entry that is None.               *)
(***************************************************************************)
Reverted(e) == IF e.first = None THEN <<>> ELSE <<[kind |-> "reverted", seq |-> e.first]>>
SyncedBlock(n, h) == <<[kind |-> "synced", number |-> n, hash |-> h, first |-> None, known |-> FALSE]>>

revert_one_block ==
    LET n == fetcher.progress - 1
        e == cache[n]
        p == IF n = 0 THEN 0 ELSE n - 1
        parent == IF cache[p] = Absent THEN BlockAt(p) ELSE cache[p].hash
    IN /\ e # Pending
       /\ IF e = Absent THEN UNCHANGED <<queue, panic>> /\ fetcher' = [fetcher EXCEPT !.pc = "check"]
          ELSE IF e.hash # fetcher.parent \/ cache[p] = Pending
          THEN panic' = TRUE /\ UNCHANGED <<queue, fetcher>>
          ELSE /\ queue' = queue \o Reverted(e) \o SyncedBlock(p, parent)
               /\ fetcher' = [fetcher EXCEPT !.pc = "check", !.progress = p + 1, !.parent = parent]
               /\ UNCHANGED panic
       /\ UNCHANGED <<chain, db, watch, bounds, mode, boot, cache, stored>>

(***************************************************************************)
(* watch_loop.  read_blocks: either the block does not follow the last one *)
(* and is reverted, or the blocks up to the head are read.                 *)
(***************************************************************************)
Watching(pc) == mode = "watch" /\ ~panic /\ fetcher.pc = pc

\* Slip: only the block number is looked at.
Follows_any(h) == TRUE

Follows(h) == Number(h) = 0 \/ blocks[h].path[Number(h)] = fetcher.parent

read_blocks ==
    LET n == fetcher.progress IN
    /\ Watching("check") /\ resets = <<>>
    /\ Exists(n)
    /\ fetcher' = IF Follows(BlockAt(n))
                  THEN [fetcher EXCEPT !.pc = "logs", !.read = [i \in 1 .. Number(head) - n + 1 |-> [hash |-> BlockAt(n + i - 1), first |-> None]]]
                  ELSE [fetcher EXCEPT !.pc = "revert"]
    /\ UNCHANGED <<chain, db, watch, bounds, mode, boot, cache, queue, stored, panic>>

watch_revert == Watching("revert") /\ revert_one_block

\* The block of the same number on the chain now, whose logs the RPC returns; 0 if there are none.
LogsOf(h, lost) ==
    IF ~Exists(Number(h)) \/ BlockAt(Number(h)) \in lost THEN 0
    ELSE IF blocks[BlockAt(Number(h))].first = None THEN 0 ELSE BlockAt(Number(h))

SameBlock(h, l) == l \in {0, h}

\* The blocks are sent up to the first one with logs of another block.
get_logs(lost) ==
    LET r == fetcher.read
        log == [i \in DOMAIN r |-> LogsOf(r[i].hash, lost)]
        good == {i \in DOMAIN r : \A j \in 1 .. i : SameBlock(r[j].hash, log[j])}
    IN /\ Watching("logs")
       /\ lost = {} \/ (latest # None /\ \E i \in DOMAIN r : LogsOf(r[i].hash, {}) \in lost)
       /\ losses + Cardinality(lost) <= workload.lost
       /\ losses' = losses + Cardinality(lost)
       /\ missed' = missed \cup {r[i].hash : i \in {j \in good : log[j] = 0 /\ blocks[r[j].hash].first # None}}
       /\ fetcher' = [fetcher EXCEPT !.pc = "send",
                        !.read = [i \in 1 .. Cardinality(good) |->
                                    [hash |-> r[i].hash, first |-> IF log[i] = 0 THEN None ELSE blocks[log[i]].first]]]
       /\ UNCHANGED <<chain, db, watch, workload, reorgs, crashes, mode, boot, cache, queue, stored, panic>>

\* submission_event_to_transaction for the submissions of a block from index first on.
Transactions(h, first) ==
    IF first = None THEN <<>>
    ELSE [i \in 1 .. Len(blocks[h].txs) - first |->
            [kind |-> "tx", seq |-> first + i - 1, hash |-> h, number |-> Number(h)]]

send_block ==
    /\ Watching("send")
    /\ IF fetcher.read = <<>> THEN fetcher' = [fetcher EXCEPT !.pc = "check"] /\ UNCHANGED queue
       ELSE LET b == Head(fetcher.read) IN
            /\ queue' = queue \o Transactions(b.hash, b.first)
                              \o <<[kind |-> "synced", number |-> Number(b.hash), hash |-> b.hash,
                                    first |-> b.first, known |-> TRUE]>>
            /\ fetcher' = [fetcher EXCEPT !.pc = "cache"]
    /\ UNCHANGED <<chain, db, watch, bounds, mode, boot, cache, stored, panic>>

\* Slip: the entry of another block of the same number is left in the cache.
Entry_stale(old, b) == IF old = Absent THEN Pending ELSE old

\* An entry that the manager has already made is kept.
Entry(old, b) == IF old = b THEN old ELSE Pending

\* Slip: a block is left out.
NextProgress_skip(n) == n + 2

NextProgress(n) == n + 1

cache_block ==
    LET b == Head(fetcher.read)
        n == Number(b.hash)
    IN /\ Watching("cache")
       /\ cache' = [cache EXCEPT ![n] = Entry(@, b)]
       /\ fetcher' = [pc |-> "send", progress |-> NextProgress(n), parent |-> b.hash, read |-> Tail(fetcher.read)]
       /\ UNCHANGED <<chain, db, watch, bounds, mode, boot, queue, stored, panic>>

(***************************************************************************)
(* check_watch_process: back to the least block number in the channel,     *)
(* at most three times each, and again only after some time (early is      *)
(* whether the last time was a short while ago).                           *)
(***************************************************************************)
check_watch_process(early) ==
    LET v == CHOOSE m \in Range(resets) : \A x \in Range(resets) : m <= x IN
    /\ Watching("check") /\ resets # <<>>
    /\ early => history[v] > 0
    /\ resets' = <<>>
    /\ IF fetcher.progress <= v THEN UNCHANGED <<history, closed, fetcher>>
       ELSE IF history[v] >= MaxResets THEN closed' = TRUE /\ UNCHANGED <<history, fetcher>>
       ELSE IF early THEN UNCHANGED <<history, closed, fetcher>>
       ELSE /\ history' = [history EXCEPT ![v] = @ + 1]
            /\ fetcher' = [fetcher EXCEPT !.pc = "parent", !.progress = v]
            /\ UNCHANGED closed
    /\ UNCHANGED <<chain, db, bounds, mode, boot, cache, queue, stored, panic>>

parent_of_progress ==
    LET n == fetcher.progress - 1 IN
    /\ Watching("parent")
    /\ IF n < 0 \/ (cache[n] = Absent /\ ~Exists(n)) THEN panic' = TRUE /\ UNCHANGED fetcher
       ELSE /\ cache[n] # Pending
            /\ fetcher' = [fetcher EXCEPT !.pc = "check", !.parent = IF cache[n] = Absent THEN BlockAt(n) ELSE cache[n].hash]
            /\ UNCHANGED panic
    /\ UNCHANGED <<chain, db, watch, bounds, mode, boot, cache, queue, stored>>

(***************************************************************************)
(* start_remove_finalized_block_task.                                      *)
(***************************************************************************)
BeforeLatest == IF latest \in {None, 0} THEN 0 ELSE latest - 1

SafeBlock == CHOOSE m \in {BeforeLatest, Finalized, synced.number} :
                 \A x \in {BeforeLatest, Finalized, synced.number} : m <= x

remove_finalized_block ==
    LET left(c) == [n \in Numbers |-> IF n < SafeBlock THEN Absent ELSE c[n]] IN
    /\ mode = "watch" /\ synced.number # None
    /\ cache # left(cache)
    /\ cache' = left(cache)
    /\ block_db' = [n \in Numbers |-> IF cache'[n] = Absent /\ cache[n] # Absent THEN Absent ELSE block_db[n]]
    /\ UNCHANGED <<chain, txs, latest, synced, watch, bounds, mode, boot, queue, stored, fetcher, panic>>

-----------------------------------------------------------------------------
(***************************************************************************)
(* Start-up.  get_start_block_number_with_hash, and the check whether the  *)
(* start block is still on the chain.                                      *)
(***************************************************************************)
StartBlock == IF latest # None THEN latest ELSE IF synced.number # None THEN synced.number ELSE 0
StartHash ==
    IF latest # None /\ block_db[latest] # Absent THEN block_db[latest].hash
    ELSE IF latest = None /\ synced.number # None THEN synced.hash
    ELSE BlockAt(StartBlock)

spawn ==
    LET start == StartBlock
        hash == StartHash
        reorged == start <= Finalized /\ BlockAt(start) # hash
    IN /\ mode = "down"
       /\ Exists(start)
       /\ cache' = block_db
       /\ boot' = [start |-> start, hash |-> hash, fin |-> Finalized]
       /\ mode' = IF reorged THEN "reorg" ELSE "begin"
       /\ fetcher' = [Idle EXCEPT !.progress = start + 1, !.parent = hash]
       /\ queue' = <<>> /\ stored' = None /\ resets' = <<>> /\ closed' = FALSE
       /\ history' = [n \in Numbers |-> 0]
       /\ UNCHANGED <<chain, db, bounds, panic>>

\* handle_reorg goes back to a block of the chain; the manager reads the messages to the end.
handle_reorg ==
    /\ mode = "reorg" /\ ~panic
    /\ BlockAt(fetcher.progress - 1) # fetcher.parent
    /\ revert_one_block

reorg_handled ==
    /\ mode = "reorg" /\ ~panic
    /\ BlockAt(fetcher.progress - 1) = fetcher.parent /\ queue = <<>>
    /\ boot' = [boot EXCEPT !.start = synced.number, !.hash = synced.hash]
    /\ mode' = "begin"
    /\ UNCHANGED <<chain, db, watch, bounds, cache, queue, stored, fetcher, panic>>

\* At or after the finalized block: the start block is reverted and watched again.
SubmissionsOf(e) == IF e = Absent \/ e.first = None THEN Len(txs) ELSE e.first

\* Slip: the start block is not reverted.
Restart_kept(start) == txs

Restart(start) == Kept(SubmissionsOf(cache[start]))

begin_watch ==
    LET s == boot.start IN
    /\ mode = "begin" /\ s >= boot.fin
    /\ txs' = Restart(s)
    /\ s > 0 /\ cache[s - 1] = Absent => Exists(s - 1)
    /\ fetcher' = [Idle EXCEPT !.progress = s,
                     !.parent = IF s = 0 THEN boot.hash ELSE IF cache[s - 1] = Absent THEN BlockAt(s - 1) ELSE cache[s - 1].hash]
    /\ mode' = "watch"
    /\ UNCHANGED <<chain, latest, synced, block_db, watch, bounds, boot, cache, queue, stored, panic>>

begin_recover ==
    /\ mode = "begin" /\ boot.start < boot.fin
    /\ mode' = "recover"
    /\ fetcher' = [Idle EXCEPT !.pc = "recover", !.progress = boot.start]
    /\ UNCHANGED <<chain, db, watch, bounds, boot, cache, queue, stored, panic>>

\* Slip: the record of a block takes the place of its first submission.
RecoverMessages_first(h) ==
    LET t == Transactions(h, blocks[h].first) IN
    IF t = <<>> THEN <<>> ELSE SyncedBlock(Number(h), h) \o Tail(t)

\* start_recover: the block is recorded after its first submission.
RecoverMessages(h) ==
    LET t == Transactions(h, blocks[h].first) IN
    IF t = <<>> THEN <<>> ELSE <<Head(t)>> \o SyncedBlock(Number(h), h) \o Tail(t)

start_recover ==
    LET s == fetcher.progress IN
    /\ mode = "recover" /\ fetcher.pc = "recover" /\ stored = None
    /\ queue' = FlattenSeq([i \in 1 .. boot.fin - s + 1 |-> RecoverMessages(BlockAt(s + i - 1))])
    /\ fetcher' = [fetcher EXCEPT !.pc = "recovered"]
    /\ UNCHANGED <<chain, db, watch, bounds, mode, boot, cache, stored, panic>>

catch_up_end ==
    /\ mode = "recover" /\ fetcher.pc = "recovered" /\ queue = <<>> /\ stored = None
    /\ IF Finalized - boot.fin <= CatchUpGap
       THEN /\ mode' = "watch"
            /\ fetcher' = [Idle EXCEPT !.progress = boot.fin + 1, !.parent = BlockAt(boot.fin)]
            /\ UNCHANGED boot
       ELSE /\ boot' = [boot EXCEPT !.fin = Finalized]
            /\ fetcher' = [Idle EXCEPT !.pc = "recover", !.progress = boot.fin + 1]
            /\ UNCHANGED mode
    /\ UNCHANGED <<chain, db, watch, bounds, cache, queue, stored, panic>>

crash ==
    /\ mode # "down" /\ ~panic
    /\ crashes < workload.crashes
    /\ workload.clean => stored = None /\ (latest # None => block_db[latest] # Absent)
    /\ crashes' = crashes + 1
    /\ mode' = "down"
    /\ UNCHANGED <<chain, db, watch, workload, missed, reorgs, losses, boot, cache, queue, stored, fetcher, panic>>

Caught == /\ mode = "watch" /\ ~panic /\ queue = <<>> /\ stored = None /\ resets = <<>>
          /\ fetcher.pc = "check" /\ ~Exists(fetcher.progress)

\* The chain has reached its bound, and all of it was read.
wait == Caught /\ UNCHANGED vars

Manager == handle_tx \/ put_log_latest_block_number \/ handle_synced_block \/ process_reverted
Fetcher == \/ read_blocks \/ watch_revert \/ send_block \/ cache_block \/ parent_of_progress
           \/ (\E lost \in {{}} \cup {{h} : h \in DOMAIN blocks} : get_logs(lost))
           \/ (\E early \in BOOLEAN : check_watch_process(early))
StartUp == spawn \/ handle_reorg \/ reorg_handled \/ begin_watch \/ begin_recover \/ start_recover \/ catch_up_end
Chain == \/ \E n \in TxCounts : mine(n) \/ fork(n) \/ \E m \in TxCounts : fork_two(n, m)
         \/ \E h \in DOMAIN blocks : switch(h)

Next == Manager \/ Fetcher \/ StartUp \/ Chain \/ remove_finalized_block \/ crash \/ wait

Spec == Init /\ [][Next]_vars
FairSpec == Spec /\ WF_vars(Manager) /\ WF_vars(Fetcher) /\ WF_vars(StartUp)

-----------------------------------------------------------------------------
\* Every variable has its type.
TypeOK ==
    /\ head \in DOMAIN blocks
    /\ \A i \in DOMAIN txs : txs[i] \in DOMAIN blocks
    /\ latest \in Numbers \cup {None} /\ stored \in Numbers \cup {None}
    /\ mode \in {"down", "reorg", "begin", "recover", "watch"}
    /\ \A n \in Numbers : block_db[n] # Pending
    /\ fetcher.progress \in 0 .. MaxHeight + 1
    /\ \A n \in Numbers : history[n] <= MaxResets

(***************************************************************************)
(* "We call this after process chain reorg, so the sequence number should  *)
(* match." (put_tx): whatever the order of reads, reverts and restarts,    *)
(* the stored transactions are always the first submissions of one fork,   *)
(* never a mix of two.                                                     *)
(***************************************************************************)
OneFork == \E h \in DOMAIN blocks : IsPrefix(txs, blocks[h].txs)

(***************************************************************************)
(* The assertion and the unwraps of revert_one_block hold: the block to    *)
(* revert is the one in the cache, and its parent's entry is not None; a   *)
(* reset finds the parent block.                                           *)
(***************************************************************************)
NoPanic == ~panic

\* The store has all submissions, or all but those of a last block that came without its logs.
Synced ==
    LET all == blocks[head].txs IN
    \/ txs = all
    \/ /\ IsStrictPrefix(txs, all)
       /\ all[Len(txs) + 1] = Last(all) /\ Last(all) \in missed

(***************************************************************************)
(* When all of the chain was read and all messages are handled, the store  *)
(* has the submissions of the chain.  Those of a block that came without   *)
(* its logs (the RPC withheld them, or was on another fork when it was     *)
(* asked) may be missing only until a later one arrives.                   *)
(***************************************************************************)
CaughtUp == Caught /\ fetcher.parent = head => Synced

(***************************************************************************)
(* Once the chain is quiet, the store gets all its submissions, but those  *)
(* of a last block that came without its logs, through restarts,           *)
(* reorganisations and resets.  A reorganisation is noticed when the chain *)
(* grows beyond what was read of the fork it left.                         *)
(***************************************************************************)
EventuallySynced == <>[](Synced \/ (mode = "watch" /\ fetcher.parent # head /\ ~Exists(fetcher.progress)))
=============================================================================
