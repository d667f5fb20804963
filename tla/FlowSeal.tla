------------------------------ MODULE FlowSeal ------------------------------
(***************************************************************************)
(* Sealing of stored data: the flow store's batches, the in-memory queue   *)
(* of seal tasks with its version number, the miner's sealer, the pruner's *)
(* two-step deletion and the truncation done by a chain reorganisation.    *)
(*                                                                         *)
(* A sector (entry) holds no data or the content the chain gave it; that   *)
(* content is named by the number of the fork that wrote it.  Sealing is a *)
(* reversible encoding, so data is the unsealed content, and sealed says   *)
(* which seals are stored in encoded form.  The batches are the chunks of  *)
(* this node's shard other than the first chunk of the flow, whose sector  *)
(* 0 is never written and which is therefore never complete.               *)
(*                                                                         *)
(* The store runs append_entries, truncate, pull_seal_chunk and            *)
(* submit_seal_result under the lock of to_seal_set, so each is one step;  *)
(* a deletion takes the lock for the queue and writes the database without *)
(* it, so it is two.                                                       *)
(***************************************************************************)
EXTENDS Integers, FiniteSets

CONSTANTS
    NumLoads,       \* batches (PoRA chunks) the flow can hold
    SealsPerLoad,   \* SEALS_PER_LOAD
    SectorsPerSeal, \* SECTORS_PER_SEAL
    Cuts,           \* the positions a reorganisation may truncate at
    MaxForks,       \* bound on the number of reorganisations
    MaxPrunes,      \* bound on the number of deletions
    MaxTimeouts,    \* bound on the pull timeouts
    MaxRestarts     \* bound on the number of restarts

NoData == -1
NotQueued == -1

SectorsPerLoad == SealsPerLoad * SectorsPerSeal
Loads == 0 .. NumLoads - 1
Seals == 0 .. NumLoads * SealsPerLoad - 1
Sectors == 0 .. NumLoads * SectorsPerLoad - 1

ASSUME FlowSealAssumption ==
    /\ NumLoads \in Nat \ {0}
    /\ SealsPerLoad \in Nat \ {0}
    /\ SectorsPerSeal \in Nat \ {0}
    /\ Cuts \subseteq Sectors
    /\ {MaxForks, MaxPrunes, MaxTimeouts, MaxRestarts} \subseteq Nat

LoadOf(i) == i \div SealsPerLoad
SealOf(s) == s \div SectorsPerSeal
SectorsOf(i) == {s \in Sectors : SealOf(s) = i}

VARIABLES
    fork,            \* the number of reorganisations so far
    chain,           \* the content the chain puts at each sector
    data,            \* the unsealed content stored for each sector, or NoData
    sealed,          \* the seals whose bit is set in SealInfo.bitmap
    to_seal_set,     \* SealTaskManager.to_seal_set: seal -> version or NotQueued
    to_seal_version, \* SealTaskManager.to_seal_version
    available,       \* seal_worker_available()
    tasks,           \* the tasks the sealer has pulled and not yet answered
    deleting,        \* batches removed from the queue, not yet from the database
    prunes, timeouts, restarts

bounds == <<prunes, timeouts, restarts>>
vars == <<fork, chain, data, sealed, to_seal_set, to_seal_version, available,
          tasks, deleting, bounds>>

Queued == {i \in Seals : to_seal_set[i] # NotQueued}

IsFull(d, i) == \A s \in SectorsOf(i) : d[s] # NoData

\* EntryBatch::is_complete, for the contents d.
is_complete(d, b) == \A i \in Seals : LoadOf(i) = b => IsFull(d, i)

Init ==
    /\ fork = 0
    /\ chain = [s \in Sectors |-> 0]
    /\ data = [s \in Sectors |-> NoData]
    /\ sealed = {}
    /\ to_seal_set = [i \in Seals |-> NotQueued]
    /\ to_seal_version = 0
    /\ available = TRUE
    /\ tasks = {}
    /\ deleting = {}
    /\ prunes = 0 /\ timeouts = 0 /\ restarts = 0

(***************************************************************************)
(* EntryBatch::insert_data of the chain's content for the sectors rng into *)
(* batch b: it accepts sectors that are all there already with the same    *)
(* content, or all absent, and refuses any other overlap.                  *)
(***************************************************************************)
InBatch(rng, b) == {s \in rng : LoadOf(SealOf(s)) = b}

insert_data(rng, b) ==
    \/ \A s \in InBatch(rng, b) : data[s] = chain[s]
    \/ \A s \in InBatch(rng, b) : data[s] = NoData

(***************************************************************************)
(* FlowStore::append_entries of the sectors lo .. hi, batch by batch.  A   *)
(* batch that is complete after the insertion, changed or not, has its     *)
(* unsealed seals queued at once; the batches are written together at the  *)
(* end, and not at all when one of them refuses the data.                  *)
(***************************************************************************)
\* Slip: completeness is tested on the batch as it was loaded.
SealsToQueue_stale(d, accepted) ==
    {i \in Seals : LoadOf(i) \in accepted /\ available /\ is_complete(data, LoadOf(i)) /\ i \notin sealed}

SealsToQueue(d, accepted) ==
    {i \in Seals : LoadOf(i) \in accepted /\ available /\ is_complete(d, LoadOf(i)) /\ i \notin sealed}

append_entries(lo, hi) ==
    LET rng == lo .. hi
        touched == {LoadOf(SealOf(s)) : s \in rng}
        refused == {b \in touched : ~insert_data(rng, b)}
        accepted == {b \in touched : \A r \in refused : b < r}
        d == [s \in Sectors |->
                 IF s \in rng /\ LoadOf(SealOf(s)) \in accepted THEN chain[s] ELSE data[s]]
    IN /\ to_seal_set' = [i \in Seals |->
            IF i \in SealsToQueue(d, accepted) THEN to_seal_version ELSE to_seal_set[i]]
       /\ data' = IF refused = {} THEN d ELSE data
       /\ UNCHANGED <<fork, chain, sealed, to_seal_version, available, tasks, deleting, bounds>>

(***************************************************************************)
(* FlowStore::pull_seal_chunk, called by an idle sealer: the queued seals  *)
(* of the first queued seal's batch, below the length the last known       *)
(* context covers (seal_index_max).  It panics, before anything but the    *)
(* pull time is changed, when one of them has no unsealed data: this is    *)
(* QueuedSealsHaveData below.                                              *)
(***************************************************************************)
\* Slip: the whole batch of the first queued seal is pulled.
PullGroup_whole(seal_index_max) ==
    {i \in Seals : i < seal_index_max /\ Queued # {} /\ \A j \in Queued : LoadOf(i) <= LoadOf(j)}

PullGroup(seal_index_max) ==
    {i \in Queued : /\ i < seal_index_max
                    /\ \A j \in Queued : j < i => LoadOf(j) = LoadOf(i)}

Pullable(i) == IsFull(data, i) /\ i \notin sealed

SealTask(i) == [seal_index |-> i,
                version |-> to_seal_set[i],
                content |-> [s \in SectorsOf(i) |-> data[s]]]

pull_seal_chunk(seal_index_max) ==
    LET group == PullGroup(seal_index_max)
    IN /\ tasks = {}
       /\ available' = TRUE
       /\ tasks' = IF \A i \in group : Pullable(i) THEN {SealTask(i) : i \in group} ELSE {}
       /\ UNCHANGED <<fork, chain, data, sealed, to_seal_set, to_seal_version, deleting, bounds>>

(***************************************************************************)
(* Sealer::seal_iteration and FlowStore::submit_seal_result.  The sealer   *)
(* answers the tasks whose context it could fetch (answers) and drops the  *)
(* others.  The store applies the answers whose version is the one in the  *)
(* queue: it overwrites the stored bytes with the sealed ones, so that a   *)
(* reader unseals what the task was computed from.  An applied answer      *)
(* whose seal has no data, or is sealed, panics before anything is         *)
(* written.                                                                *)
(***************************************************************************)
\* Slip: an answer is accepted whenever its seal is queued.
is_consistent_any(answer) == to_seal_set[answer.seal_index] # NotQueued

\* Slip: an answer is compared with the global version.
is_consistent_global(answer) ==
    to_seal_set[answer.seal_index] # NotQueued /\ to_seal_version = answer.version

is_consistent(answer) == to_seal_set[answer.seal_index] = answer.version

Apply(answers) ==
    LET idx == {a.seal_index : a \in answers}
    IN IF \A i \in idx : Pullable(i)
       THEN /\ data' = [s \in Sectors |->
                 IF SealOf(s) \in idx
                 THEN (CHOOSE a \in answers : a.seal_index = SealOf(s)).content[s]
                 ELSE data[s]]
            /\ sealed' = sealed \cup idx
            /\ to_seal_set' = [i \in Seals |-> IF i \in idx THEN NotQueued ELSE to_seal_set[i]]
       ELSE UNCHANGED <<data, sealed, to_seal_set>>

submit_seal_result(answers) ==
    /\ tasks # {}
    /\ tasks' = {}
    /\ Apply({a \in answers : is_consistent(a)})
    /\ UNCHANGED <<fork, chain, to_seal_version, available, deleting, bounds>>

(***************************************************************************)
(* FlowStore::truncate at sector cut: the entries from cut on go.  In the  *)
(* batch of the cut the seals that share a context with the cut seal are   *)
(* decoded again, from the first seal of that context (group) on; the      *)
(* contexts come from the contract, so group is any seal of the batch up   *)
(* to the cut.  Those that keep data are queued under a new version, which *)
(* no pulled task carries.  A cut at the start of a batch drops the batch. *)
(* The chain then has new content from the cut on.                         *)
(***************************************************************************)
\* Slip: the seal that holds the cut keeps its bit.
truncated_seal_index_late(cut) ==
    {g \in Seals : LoadOf(g) = LoadOf(SealOf(cut)) /\ g = SealOf(cut) + 1}

truncated_seal_index(cut) ==
    IF cut % SectorsPerLoad = 0 THEN {SealOf(cut)}
    ELSE {g \in Seals : LoadOf(g) = LoadOf(SealOf(cut)) /\ g <= SealOf(cut)}

\* BTreeMap::split_off: the seals that leave the queue.
\* Slip: the seal that holds the cut stays.
split_off_late(cut) == {i \in Seals : i > SealOf(cut)}

split_off(cut) == {i \in Seals : i >= SealOf(cut)}

\* SealTaskManager::inc_seal_version.  Slip: the version stays.
inc_seal_version_lost(v) == v

inc_seal_version(v) == v + 1

truncate(cut, group) ==
    LET to_reseal == {i \in sealed : group <= i /\ i * SectorsPerSeal < cut}
    IN /\ fork < MaxForks
       /\ group \in truncated_seal_index(cut)
       /\ fork' = fork + 1
       /\ chain' = [s \in Sectors |-> IF s < cut THEN chain[s] ELSE fork + 1]
       /\ data' = [s \in Sectors |-> IF s < cut THEN data[s] ELSE NoData]
       /\ sealed' = {i \in sealed : i < group}
       /\ to_seal_version' = inc_seal_version(to_seal_version)
       /\ to_seal_set' = [i \in Seals |->
            IF i \in to_reseal THEN inc_seal_version(to_seal_version)
            ELSE IF i \in split_off(cut) THEN NotQueued ELSE to_seal_set[i]]
       /\ UNCHANGED <<available, tasks, deleting, bounds>>

(***************************************************************************)
(* FlowStore::delete_batch_list, called by the pruner.                     *)
(***************************************************************************)
seal_manager_delete_batch_list(batch_list) ==
    /\ deleting = {}
    /\ prunes < MaxPrunes
    /\ prunes' = prunes + 1
    /\ deleting' = batch_list
    /\ to_seal_set' = [i \in Seals |-> IF LoadOf(i) \in batch_list THEN NotQueued ELSE to_seal_set[i]]
    /\ UNCHANGED <<fork, chain, data, sealed, to_seal_version, available, tasks, timeouts, restarts>>

data_db_delete_batch_list ==
    /\ deleting # {}
    /\ deleting' = {}
    /\ data' = [s \in Sectors |-> IF LoadOf(SealOf(s)) \in deleting THEN NoData ELSE data[s]]
    /\ sealed' = {i \in sealed : LoadOf(i) \notin deleting}
    /\ UNCHANGED <<fork, chain, to_seal_set, to_seal_version, available, tasks, bounds>>

\* SEAL_TASK_PULL_TIMEOUT_SECONDS go by without a pull.
pull_timeout ==
    /\ available
    /\ timeouts < MaxTimeouts
    /\ timeouts' = timeouts + 1
    /\ available' = FALSE
    /\ UNCHANGED <<fork, chain, data, sealed, to_seal_set, to_seal_version, tasks, deleting,
                   prunes, restarts>>

\* The process restarts with SealTaskManager::default and an idle sealer and pruner.
restart ==
    /\ restarts < MaxRestarts
    /\ restarts' = restarts + 1
    /\ to_seal_set' = [i \in Seals |-> NotQueued]
    /\ to_seal_version' = 0
    /\ available' = TRUE
    /\ tasks' = {}
    /\ deleting' = {}
    /\ UNCHANGED <<fork, chain, data, sealed, prunes, timeouts>>

Next ==
    \/ \E lo, hi \in Sectors : lo <= hi /\ append_entries(lo, hi)
    \/ \E seal_index_max \in 1 .. Cardinality(Seals) : pull_seal_chunk(seal_index_max)
    \/ \E answers \in SUBSET tasks : submit_seal_result(answers)
    \/ \E cut \in Cuts, group \in Seals : truncate(cut, group)
    \/ \E batch_list \in SUBSET Loads : batch_list # {} /\ seal_manager_delete_batch_list(batch_list)
    \/ data_db_delete_batch_list
    \/ pull_timeout
    \/ restart

Spec == Init /\ [][Next]_vars

(***************************************************************************)
(* The sealer's loop never stops and retries what is left in the queue.    *)
(* For a seal below the on-chain flow length, the known length             *)
(* (update_flow_length) and the context (fetch_context) come from the      *)
(* contract; a call that fails is repeated, and is assumed not to fail     *)
(* every time.                                                             *)
(***************************************************************************)
PullsSeal(i) ==
    /\ \E seal_index_max \in 1 .. Cardinality(Seals) : pull_seal_chunk(seal_index_max)
    /\ \E t \in tasks' : t.seal_index = i

AnswersSeal(i) ==
    \E answers \in SUBSET tasks :
        (\E a \in answers : a.seal_index = i) /\ submit_seal_result(answers)

FairSpec == Spec /\ \A i \in Seals : SF_vars(PullsSeal(i)) /\ SF_vars(AnswersSeal(i))

-----------------------------------------------------------------------------
\* The variables have their types.
TypeOK ==
    /\ fork \in 0 .. MaxForks
    /\ chain \in [Sectors -> Nat]
    /\ data \in [Sectors -> Nat \cup {NoData}]
    /\ sealed \subseteq Seals
    /\ to_seal_set \in [Seals -> Nat \cup {NotQueued}]
    /\ to_seal_version \in Nat
    /\ available \in BOOLEAN
    /\ \A t \in tasks : /\ t.seal_index \in Seals
                        /\ t.version \in Nat
                        /\ t.content \in [SectorsOf(t.seal_index) -> Nat]
    /\ deleting \subseteq Loads
    /\ {prunes, timeouts, restarts} \subseteq Nat

(***************************************************************************)
(* What the store holds for a position is what the chain has there now:    *)
(* no reorganisation, late seal answer, deletion or restart, in any order, *)
(* leaves or brings back the content of an abandoned fork (the purpose of  *)
(* to_seal_version, seal_task_manager.rs:13-15).                           *)
(***************************************************************************)
StoredMatchesChain == \A s \in Sectors : data[s] \in {NoData, chain[s]}

(***************************************************************************)
(* A seal marked sealed has all its sectors, so get_sealed_data and the    *)
(* decoding in truncate_seal ("Sealed chunk should be complete") find      *)
(* them, whatever was truncated or deleted since it was sealed.            *)
(***************************************************************************)
SealedSealsAreFull == \A i \in sealed : IsFull(data, i)

(***************************************************************************)
(* The step that seals a piece of data does not change what a reader gets  *)
(* for it: an answer computed before a reorganisation or a deletion is     *)
(* never copied over newer data (submit_seal_result).                      *)
(***************************************************************************)
SealingKeepsContent ==
    [][\A i \in sealed' \ sealed : \A s \in SectorsOf(i) : data'[s] = data[s] /\ data[s] # NoData]_vars

(***************************************************************************)
(* pull_seal_chunk never meets its expect("Lost data chunk in to_seal_set")*)
(* or expect("Lost seal chunk in to_seal_set"): a queued seal has its data *)
(* in the database, not sealed yet.                                        *)
(***************************************************************************)
QueuedSealsHaveData == \A i \in Queued : Pullable(i)

(***************************************************************************)
(* No seal is forgotten: while the sealer keeps pulling and the process    *)
(* runs, every unsealed seal of a complete batch is in the queue, also     *)
(* after truncations and rejected answers (append_entries, truncate).      *)
(***************************************************************************)
CompleteSealsQueued ==
    (timeouts = 0 /\ restarts = 0 /\ deleting = {}) =>
        \A i \in Seals \ sealed : is_complete(data, LoadOf(i)) => i \in Queued

(***************************************************************************)
(* While the process runs, a seal of a complete batch is eventually        *)
(* sealed, unless a truncation makes its batch incomplete again: a task    *)
(* whose answer is rejected or whose context is not ready yet is not lost  *)
(* (Sealer::seal_iteration).                                               *)
(***************************************************************************)
CompleteSealsGetSealed ==
    \A i \in Seals :
        (restarts = 0 /\ is_complete(data, LoadOf(i))) ~>
            (restarts > 0 \/ i \in sealed \/ ~is_complete(data, LoadOf(i)))
=============================================================================
