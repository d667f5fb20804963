------------------------------ MODULE ChunkPool ------------------------------
(***************************************************************************)
(* The chunk pool: uploaded segments are cached in memory until the file's *)
(* transaction is known, and written to the store after that, tracked by a *)
(* sliding window for each file and a count of the writers of all files.   *)
(* When a window says that all segments are there, a message asks the      *)
(* handler to finalize the file.                                           *)
(*                                                                         *)
(* Threads: the uploads (put_segment of the RPC server, one segment each), *)
(* one flusher for each file (update_file_info, spawned by the TxSynced    *)
(* event) and the handler of the messages.  A file is its data root, and a *)
(* transaction id tells the transactions of two forks apart.  The pool's   *)
(* state is behind one mutex, so what happens under one lock of it is one  *)
(* step; the store is reached between two locks.  Files start on a segment *)
(* of shard 0, which is this node's.                                       *)
(*                                                                         *)
(* write_all_cached_chunks_and_finalize is left out: should_flush() asks   *)
(* for total_chunks > 0, which only update_with_tx sets, on a file already *)
(* taken out of the cache, so no cached file is ever flushed by an upload. *)
(***************************************************************************)
EXTENDS Integers, Sequences, FiniteSets, SequencesExt

CONSTANTS
    Files,       \* data roots
    Uploads,     \* concurrent uploads
    SegNum,      \* segments of a file (total_segments)
    MaxWritings, \* Config.max_writings
    MaxCached,   \* Config.max_cached_chunks_all, in segments
    MaxUploads,  \* bound on the number of uploads
    MaxErrors,   \* bound on the failing writes
    Workloads    \* records [num_shard, reorgs, alone]: the shards, the bound on reorganisations,
                 \* and whether uploads, flushers and the handler come one after the other

ASSUME ChunkPoolAssumption ==
    /\ {SegNum, MaxWritings, MaxCached} \subseteq Nat \ {0}
    /\ {MaxUploads, MaxErrors} \subseteq Nat
    /\ Uploads \cap Files = {}
    /\ \A w \in Workloads : w.num_shard \in Nat \ {0} /\ w.reorgs \in Nat /\ w.alone \in BOOLEAN

Segs == 0 .. SegNum - 1
Threads == Uploads \cup Files
NoTx == 0
NoCtrl == [id |-> NoTx, left_boundary |-> 0, writing |-> {}, finished |-> {}]
NoCall == [pc |-> "idle", root |-> "none", seg |-> 0, id |-> NoTx, segs |-> {}]

VARIABLES
    workload,
    tx,             \* the store: the id of each file's transaction, or NoTx
    forks,          \* how often each file's transaction was reverted
    finalized,      \* the store: files whose transaction is finalized
    stored,         \* the store: the segments in the flow
    events,         \* TxSynced events not yet handled: pairs of file and id
    cached,         \* ChunkPoolCache.files: the files with an entry, oldest first
    segments,       \* MemoryCachedFile.segments
    total_chunks,   \* ChunkPoolCache.total_chunks
    ctrl,           \* ChunkPoolWriteCtrl.files: NoCtrl, or the window of each file
    total_writings, \* ChunkPoolWriteCtrl.total_writings
    call,           \* the call each thread is in
    queue,          \* ChunkPoolMessage::FinalizeFile in the channel
    handler,        \* the message the handler works on
    panic, uploads, errors, reorgs

store == <<tx, forks, finalized, stored, events>>
cache == <<cached, segments, total_chunks>>
control == <<ctrl, total_writings>>
messages == <<queue, handler>>
bounds == <<workload, uploads, errors, reorgs>>
vars == <<store, cache, control, messages, bounds, call, panic>>

Init ==
    /\ workload \in Workloads
    /\ tx = [f \in Files |-> NoTx] /\ forks = [f \in Files |-> 0]
    /\ finalized = {} /\ stored = [f \in Files |-> {}] /\ events = {}
    /\ cached = <<>> /\ segments = [f \in Files |-> {}] /\ total_chunks = 0
    /\ ctrl = [f \in Files |-> NoCtrl] /\ total_writings = 0
    /\ call = [t \in Threads |-> NoCall]
    /\ queue = <<>> /\ handler = NoCall
    /\ panic = FALSE /\ uploads = 0 /\ errors = 0 /\ reorgs = 0

At(t, pc) == call[t].pc = pc /\ ~panic
Go(t, pc) == call' = [call EXCEPT ![t].pc = pc]

in_range(s) == s % workload.num_shard = 0
Needed == {s \in Segs : in_range(s)}
\* ShardConfig::next_segment_index, for a file that starts on shard 0.
next_segment_index(s) == s + workload.num_shard - (s % workload.num_shard)

HandlerDone == workload.alone => queue = <<>> /\ handler = NoCall
MayStart == HandlerDone /\ (workload.alone => \A t \in Threads : call[t] = NoCall)

IsCached(f) == f \in Range(cached)

(***************************************************************************)
(* An upload ends with an answer to the client; a flusher goes on with the *)
(* next segment after a success and drops the others after an error.       *)
(***************************************************************************)
Succeed(t) ==
    call' = [call EXCEPT ![t] = IF t \in Files /\ @.segs # {} THEN [@ EXCEPT !.pc = "flush"] ELSE NoCall]
Refuse(t) == call' = [call EXCEPT ![t] = NoCall]

(***************************************************************************)
(* put_segment: the transaction is read first, then the cache is checked;  *)
(* an upload of a file with a cache entry, or without a transaction, goes  *)
(* to the cache.                                                           *)
(***************************************************************************)
put_segment(t, f, s) ==
    /\ At(t, "idle") /\ MayStart
    /\ uploads < MaxUploads
    /\ uploads' = uploads + 1
    /\ call' = [call EXCEPT ![t] = [pc |-> "need_cache", root |-> f, seg |-> s, id |-> tx[f], segs |-> {}]]
    /\ UNCHANGED <<store, cache, control, messages, workload, errors, reorgs, panic>>

check_need_cache(t) ==
    LET c == call[t] IN
    /\ At(t, "need_cache")
    /\ IF IsCached(c.root) \/ c.id = NoTx THEN Go(t, "cache")
       ELSE IF c.root \in finalized THEN Refuse(t)
       ELSE Go(t, "write")
    /\ UNCHANGED <<store, cache, control, messages, bounds, panic>>

(***************************************************************************)
(* cache_segment: expired files go first, oldest first up to one that is   *)
(* not expired; then the entry is made, and it stays when the segment is   *)
(* refused because the pool is full.                                       *)
(***************************************************************************)
\* Slip: the chunks of the expired files stay counted.
Collected_counted(gone) == 0

\* The chunks of files that are removed from the cache.
Collected(gone) == MapThenSumSet(LAMBDA f : Cardinality(segments[f]), gone)

cache_segment(t, n) ==
    LET c == call[t]
        gone == Range(SubSeq(cached, 1, n))
        left == SubSeq(cached, n + 1, Len(cached))
        kept == [f \in Files |-> IF f \in gone THEN {} ELSE segments[f]]
        total == total_chunks - Collected(gone)
        full == total + 1 > MaxCached
    IN /\ At(t, "cache")
       /\ n <= Len(cached)
       /\ cached' = IF c.root \in Range(left) THEN left ELSE Append(left, c.root)
       /\ IF c.seg \in kept[c.root] \/ full
          THEN segments' = kept /\ total_chunks' = total
          ELSE /\ segments' = [kept EXCEPT ![c.root] = @ \cup {c.seg}]
               /\ total_chunks' = total + 1
       /\ Refuse(t)
       /\ UNCHANGED <<store, control, messages, bounds, panic>>

\* ChunkPoolCache::remove_file.
remove_cached(f) ==
    /\ cached' = SelectSeq(cached, LAMBDA g : g # f)
    /\ segments' = [segments EXCEPT ![f] = {}]
    /\ total_chunks' = total_chunks - Cardinality(segments[f])

\* update_file_info: the cached segments are written one after the other.
update_file_info(f, id) ==
    /\ At(f, "idle") /\ MayStart
    /\ <<f, id>> \in events
    /\ events' = events \ {<<f, id>>}
    /\ IF IsCached(f)
       THEN /\ call' = [call EXCEPT ![f] =
                          IF segments[f] = {} THEN NoCall
                          ELSE [pc |-> "flush", root |-> f, seg |-> 0, id |-> id, segs |-> segments[f]]]
            /\ remove_cached(f)
       ELSE UNCHANGED <<cache, call>>
    /\ UNCHANGED <<tx, forks, finalized, stored, control, messages, bounds, panic>>

flush(f, s) ==
    /\ At(f, "flush") /\ HandlerDone
    /\ s \in call[f].segs
    /\ call' = [call EXCEPT ![f].pc = "write", ![f].seg = s, ![f].segs = @ \ {s}]
    /\ UNCHANGED <<store, cache, control, messages, bounds, panic>>

(***************************************************************************)
(* write_chunks: write_segment admits the segment to the window, the store *)
(* is written, and the outcome is recorded in the window.                  *)
(***************************************************************************)
\* Slip: a segment that is being written is admitted again.
check_duplicate_finished(w, s) == s < w.left_boundary \/ s \in w.finished

check_duplicate(w, s) == s < w.left_boundary \/ s \in w.finished \/ s \in w.writing

\* Slip: one writer more than max_writings.
TooManyWritings_over == total_writings > MaxWritings

TooManyWritings == total_writings >= MaxWritings

write_segment(t) ==
    LET c == call[t]
        w == IF ctrl[c.root] = NoCtrl THEN [NoCtrl EXCEPT !.id = c.id] ELSE ctrl[c.root]
    IN /\ At(t, "write")
       /\ IF tx[c.root] = NoTx THEN Refuse(t) /\ UNCHANGED control
          ELSE IF w.id # c.id
          THEN ctrl' = [ctrl EXCEPT ![c.root] = NoCtrl] /\ Refuse(t) /\ UNCHANGED total_writings
          ELSE IF check_duplicate(w, c.seg) \/ TooManyWritings
          THEN ctrl' = [ctrl EXCEPT ![c.root] = w] /\ Refuse(t) /\ UNCHANGED total_writings
          ELSE /\ ctrl' = [ctrl EXCEPT ![c.root] = [w EXCEPT !.writing = @ \cup {c.seg}]]
               /\ total_writings' = total_writings + 1
               /\ Go(t, "put_chunks")
       /\ UNCHANGED <<store, cache, messages, bounds, panic>>

put_chunks_with_tx_hash(t) ==
    LET c == call[t] IN
    /\ At(t, "put_chunks")
    /\ \/ /\ Go(t, IF tx[c.root] = NoTx THEN "failed" ELSE IF tx[c.root] # c.id THEN "reverted" ELSE "written")
          /\ stored' = IF tx[c.root] = c.id THEN [stored EXCEPT ![c.root] = @ \cup {c.seg}] ELSE stored
          /\ UNCHANGED errors
       \/ /\ errors < MaxErrors
          /\ errors' = errors + 1
          /\ Go(t, "failed")
          /\ UNCHANGED stored
    /\ UNCHANGED <<tx, forks, finalized, events, cache, control, messages, workload, uploads, reorgs, panic>>

(***************************************************************************)
(* finish_writing moves the left boundary over finished segments of the    *)
(* shard.  An outcome for a file that has left the pool is dropped, with   *)
(* the count of writers as it is.                                          *)
(***************************************************************************)
OnPath(left, s) == s = left \/ (s > left /\ in_range(s))

\* Slip: the boundary moves by one segment only.
NextLeft_one(left, finished) == IF left \in finished THEN next_segment_index(left) ELSE left

NextLeft(left, finished) ==
    CHOOSE l \in left .. SegNum + workload.num_shard :
        /\ OnPath(left, l) /\ l \notin finished
        /\ \A s \in left .. l - 1 : OnPath(left, s) => s \in finished

\* Slip: the last segment of the shard is not waited for.
all_uploaded_early(left) == left + workload.num_shard >= SegNum

all_uploaded(left) == left + workload.num_shard > SegNum

on_write_succeeded(t) ==
    LET c == call[t]
        w == ctrl[c.root]
        done == w.finished \cup {c.seg}
        left == NextLeft(w.left_boundary, done)
    IN /\ At(t, "written")
       /\ IF w = NoCtrl THEN Succeed(t) /\ UNCHANGED <<control, queue, panic>>
          ELSE IF c.seg \notin w.writing THEN panic' = TRUE /\ UNCHANGED <<control, queue, call>>
          ELSE /\ ctrl' = [ctrl EXCEPT ![c.root] =
                             [w EXCEPT !.left_boundary = left, !.writing = @ \ {c.seg},
                                       !.finished = {s \in done : ~(s < left /\ OnPath(w.left_boundary, s))}]]
               /\ total_writings' = total_writings - 1
               /\ queue' = IF all_uploaded(left) THEN Append(queue, [root |-> c.root, id |-> c.id]) ELSE queue
               /\ Succeed(t)
               /\ UNCHANGED panic
       /\ UNCHANGED <<store, cache, handler, bounds>>

\* Slip: the writer stays counted.
Released_never == total_writings

Released == total_writings - 1

on_write_failed(t) ==
    LET c == call[t]
        w == ctrl[c.root]
        next == IF c.pc = "reverted" THEN [c EXCEPT !.pc = "remove_file"] ELSE NoCall
    IN /\ At(t, "failed") \/ At(t, "reverted")
       /\ IF w # NoCtrl /\ c.seg \notin w.writing THEN panic' = TRUE /\ UNCHANGED <<control, call>>
          ELSE /\ call' = [call EXCEPT ![t] = next]
               /\ IF w = NoCtrl THEN UNCHANGED control
                  ELSE /\ ctrl' = [ctrl EXCEPT ![c.root].writing = @ \ {c.seg}]
                       /\ total_writings' = Released
               /\ UNCHANGED panic
       /\ UNCHANGED <<store, cache, messages, bounds>>

remove_reverted(t) ==
    /\ At(t, "remove_file")
    /\ ctrl' = [ctrl EXCEPT ![call[t].root] = NoCtrl]
    /\ Refuse(t)
    /\ UNCHANGED <<store, cache, total_writings, messages, bounds, panic>>

(***************************************************************************)
(* ChunkPoolHandler::handle_file_id: segments that are still cached are    *)
(* written, the transaction is finalized and the file leaves the pool.     *)
(***************************************************************************)
handle_file_id ==
    LET m == Head(queue) IN
    /\ handler = NoCall /\ queue # <<>> /\ ~panic
    /\ queue' = Tail(queue)
    /\ handler' = [pc |-> "finalize", root |-> m.root, seg |-> 0, id |-> m.id, segs |-> segments[m.root]]
    /\ remove_cached(m.root)
    /\ UNCHANGED <<store, control, bounds, call, panic>>

handle_put_chunks(s) ==
    LET h == handler
        ok == tx[h.root] = h.id
    IN /\ h.pc = "finalize" /\ s \in h.segs /\ ~panic
       /\ handler' = IF ok THEN [h EXCEPT !.segs = @ \ {s}] ELSE NoCall
       /\ stored' = IF ok THEN [stored EXCEPT ![h.root] = @ \cup {s}] ELSE stored
       /\ UNCHANGED <<tx, forks, finalized, events, cache, control, queue, bounds, call, panic>>

handle_finalize_tx ==
    LET h == handler
        ok == tx[h.root] = h.id /\ Needed \subseteq stored[h.root]
    IN /\ h.pc = "finalize" /\ h.segs = {} /\ ~panic
       /\ handler' = IF ok THEN [h EXCEPT !.pc = "remove_file"] ELSE NoCall
       /\ finalized' = IF ok THEN finalized \cup {h.root} ELSE finalized
       /\ UNCHANGED <<tx, forks, stored, events, cache, control, queue, bounds, call, panic>>

\* MemoryChunkPool::remove_file: the window only if there is no cache entry.
handle_remove_file ==
    LET f == handler.root IN
    /\ handler.pc = "remove_file" /\ ~panic
    /\ handler' = NoCall
    /\ IF IsCached(f) THEN remove_cached(f) /\ UNCHANGED ctrl
       ELSE ctrl' = [ctrl EXCEPT ![f] = NoCtrl] /\ UNCHANGED cache
    /\ UNCHANGED <<store, total_writings, queue, bounds, call, panic>>

(***************************************************************************)
(* The chain: a transaction arrives in the store and its event is sent; a  *)
(* reorganisation takes it away with its data and status.                  *)
(***************************************************************************)
sync_tx(f) ==
    /\ tx[f] = NoTx /\ ~panic
    /\ tx' = [tx EXCEPT ![f] = forks[f] + 1]
    /\ events' = events \cup {<<f, forks[f] + 1>>}
    /\ UNCHANGED <<forks, finalized, stored, cache, control, messages, bounds, call, panic>>

revert(f) ==
    /\ tx[f] # NoTx /\ ~panic
    /\ reorgs < workload.reorgs
    /\ reorgs' = reorgs + 1
    /\ tx' = [tx EXCEPT ![f] = NoTx]
    /\ forks' = [forks EXCEPT ![f] = @ + 1]
    /\ finalized' = finalized \ {f}
    /\ stored' = [stored EXCEPT ![f] = {}]
    /\ UNCHANGED <<events, cache, control, messages, workload, uploads, errors, call, panic>>

Quiet == /\ \A t \in Threads : call[t] = NoCall
         /\ queue = <<>> /\ handler = NoCall /\ events = {} /\ ~panic

\* No upload is left (the bound), and nothing is in progress.
wait == Quiet /\ uploads = MaxUploads /\ (\A f \in Files : tx[f] # NoTx) /\ UNCHANGED vars

Next ==
    \/ \E t \in Uploads, f \in Files, s \in Segs : put_segment(t, f, s)
    \/ \E t \in Uploads : check_need_cache(t) \/ \E n \in 0 .. Len(cached) : cache_segment(t, n)
    \/ \E f \in Files : \E id \in {e[2] : e \in events} : update_file_info(f, id)
    \/ \E f \in Files : \E s \in call[f].segs : flush(f, s)
    \/ \E t \in Threads : \/ write_segment(t) \/ put_chunks_with_tx_hash(t) \/ on_write_succeeded(t)
                          \/ on_write_failed(t) \/ remove_reverted(t)
    \/ handle_file_id \/ handle_finalize_tx \/ handle_remove_file
    \/ \E s \in handler.segs : handle_put_chunks(s)
    \/ \E f \in Files : sync_tx(f) \/ revert(f)
    \/ wait

Spec == Init /\ [][Next]_vars

-----------------------------------------------------------------------------
\* Every variable has its type.
TypeOK ==
    /\ tx \in [Files -> Nat] /\ finalized \subseteq Files
    /\ stored \in [Files -> SUBSET Segs] /\ segments \in [Files -> SUBSET Segs]
    /\ Range(cached) \subseteq Files /\ total_chunks \in 0 .. MaxCached
    /\ \A f \in Files : ctrl[f].writing \cup ctrl[f].finished \subseteq Segs
    /\ total_writings \in 0 .. MaxWritings

Writing == {t \in Threads : call[t].pc \in {"put_chunks", "written", "failed", "reverted"}}

(***************************************************************************)
(* "Total number of threads that are writing chunks into store."           *)
(* (ChunkPoolWriteCtrl): whichever way the writes end, total_writings is   *)
(* the number of threads between write_segment and the record of the       *)
(* outcome, so that max_writings limits them and never locks uploads out.  *)
(***************************************************************************)
WritingsExact == total_writings = Cardinality(Writing)

(***************************************************************************)
(* The window of a file knows exactly the writes in progress for it, so    *)
(* the assertions of rollback_writing and finish_writing hold.             *)
(***************************************************************************)
WindowExact ==
    /\ ~panic
    /\ \A f \in Files : ctrl[f].writing = {call[t].seg : t \in {u \in Writing : call[u].root = f}}

(***************************************************************************)
(* "Total number of chunks that cached in the memory pool."                *)
(* (ChunkPoolCache): the counter is exact through expiry, flushing and     *)
(* removal, so its subtraction never underflows.                           *)
(***************************************************************************)
CachedExact == total_chunks = MapThenSumSet(LAMBDA f : Cardinality(segments[f]), Range(cached))

(***************************************************************************)
(* "All chunks of file written into store." (on_write_succeeded): when the *)
(* window of a node with one shard asks for the finalization of a file     *)
(* whose transaction is still there, every segment is in the store and the *)
(* finalization succeeds.                                                  *)
(***************************************************************************)
FinalizeComplete ==
    workload.num_shard = 1 =>
        \A m \in Range(queue) : m.id = tx[m.root] => Needed \subseteq stored[m.root]

(***************************************************************************)
(* No file is forgotten: once nothing is in progress, a file of which the  *)
(* store has every segment of the shard is finalized, in whatever order    *)
(* and by whichever threads the segments were written.                     *)
(***************************************************************************)
UploadedFinalized ==
    Quiet => \A f \in Files : Needed \subseteq stored[f] => f \in finalized

(***************************************************************************)
(* "Used to cache chunks in memory pool and persist into db once log entry *)
(* retrieved from blockchain." (MemoryCachedFile): once the transaction is *)
(* known, its event handled and nothing in progress, nothing of the file   *)
(* is left in the cache.                                                   *)
(***************************************************************************)
CachedGetsFlushed == Quiet => \A f \in Files : tx[f] # NoTx => ~IsCached(f)
=============================================================================
