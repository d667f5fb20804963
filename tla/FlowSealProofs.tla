--------------------------- MODULE FlowSealProofs ---------------------------
(***************************************************************************)
(* For every size of batches and seals, every set of cut positions and     *)
(* every bound: the store never holds content of an abandoned fork, sealed *)
(* seals are complete, and sealing does not change what readers get.       *)
(*                                                                         *)
(* None of these is inductive: a seal answer may be applied long after its *)
(* task was pulled.  TasksFresh relates every task still in flight to the  *)
(* present chain: as long as its version is the current one, or the one in *)
(* the queue, its content is what the chain has at that seal.              *)
(***************************************************************************)
EXTENDS FlowSeal, TLAPS

\* No queued seal and no task is ahead of the version counter.
VersionsBounded ==
    /\ \A i \in Seals : to_seal_set[i] <= to_seal_version
    /\ \A t \in tasks : t.version <= to_seal_version

\* A task in flight that could still be applied has the chain's content.
TasksFresh ==
    \A t \in tasks :
        (t.version = to_seal_version \/ t.version = to_seal_set[t.seal_index]) =>
            \A s \in SectorsOf(t.seal_index) : t.content[s] = chain[s]

IInv == TypeOK /\ StoredMatchesChain /\ SealedSealsAreFull /\ VersionsBounded /\ TasksFresh

(***************************************************************************)
(* Every sector belongs to a seal, and lies at or after its first sector.  *)
(***************************************************************************)
LEMMA SectorSeal ==
    /\ \A i \in Seals : \A s \in SectorsOf(i) : s \in Sectors /\ SealOf(s) = i
    /\ Seals \subseteq Nat /\ Sectors \subseteq Nat
BY FlowSealAssumption DEF Seals, Sectors, SectorsOf, SectorsPerLoad

(***************************************************************************)
(* A seal before the seal of the cut lies wholly before the cut, and so    *)
(* does a seal before the cut that starts below it or its group.           *)
(***************************************************************************)
LEMMA EarlierSeal ==
    ASSUME NEW cut \in Sectors, NEW s \in Sectors, SealOf(s) < SealOf(cut)
    PROVE  s < cut
<1>1. SectorsPerSeal \in Nat \ {0} /\ cut \in Nat /\ s \in Nat
  BY FlowSealAssumption, SectorSeal
<1>2. \A a, b \in Nat : a >= b => a \div SectorsPerSeal >= b \div SectorsPerSeal
  BY <1>1
<1>3. SealOf(s) \in Int /\ SealOf(cut) \in Int
  BY <1>1 DEF SealOf
<1> QED  BY <1>1, <1>2, <1>3 DEF SealOf

(***************************************************************************)
(* The empty store satisfies the invariant.                                *)
(***************************************************************************)
LEMMA InitIInv == Init => IInv
BY FlowSealAssumption DEF Init, IInv, TypeOK, StoredMatchesChain, SealedSealsAreFull,
   VersionsBounded, TasksFresh, NoData, NotQueued, Loads

(***************************************************************************)
(* append_entries writes the chain's content only, and what it queues gets *)
(* the current version, for which the tasks in flight are fresh.           *)
(***************************************************************************)
LEMMA AppendIInv ==
    ASSUME IInv, NEW lo \in Sectors, NEW hi \in Sectors, append_entries(lo, hi)
    PROVE  IInv'
<1> USE DEF IInv
<1>1. /\ \A s \in Sectors : data'[s] = data[s] \/ data'[s] = chain[s]
      /\ data' \in [Sectors -> Nat \cup {NoData}]
  BY DEF append_entries, TypeOK
<1>2. /\ \A i \in Seals : to_seal_set'[i] = to_seal_set[i] \/ to_seal_set'[i] = to_seal_version
      /\ to_seal_set' \in [Seals -> Nat \cup {NotQueued}]
  BY DEF append_entries, TypeOK
<1>3. UNCHANGED <<fork, chain, sealed, to_seal_version, available, tasks, deleting, bounds>>
  BY DEF append_entries
<1>4. TypeOK'
  BY <1>1, <1>2, <1>3 DEF TypeOK, bounds
<1>5. StoredMatchesChain'
  BY <1>1, <1>3 DEF StoredMatchesChain
<1>6. SealedSealsAreFull'
  <2>1. \A s \in Sectors : data[s] # NoData => data'[s] # NoData
    BY <1>1, FlowSealAssumption DEF TypeOK, NoData
  <2> QED  BY <2>1, <1>3, SectorSeal DEF SealedSealsAreFull, IsFull, TypeOK
<1>7. VersionsBounded'
  BY <1>2, <1>3 DEF VersionsBounded, TypeOK
<1>8. TasksFresh'
  BY <1>2, <1>3 DEF TasksFresh, TypeOK
<1> QED  BY <1>4, <1>5, <1>6, <1>7, <1>8

(***************************************************************************)
(* pull_seal_chunk hands out stored content, which is the chain's.         *)
(***************************************************************************)
LEMMA PullIInv ==
    ASSUME IInv, NEW m \in Nat, pull_seal_chunk(m)
    PROVE  IInv'
<1> USE DEF IInv
<1>1. UNCHANGED <<fork, chain, data, sealed, to_seal_set, to_seal_version, deleting, bounds>>
      /\ available' = TRUE
  BY DEF pull_seal_chunk
<1>2. \A t \in tasks' : \E i \in Queued : t = SealTask(i) /\ IsFull(data, i)
  BY DEF pull_seal_chunk, PullGroup, Pullable
<1>3. \A t \in tasks' : /\ t.seal_index \in Seals
                        /\ t.version = to_seal_set[t.seal_index]
                        /\ t.version \in Nat
                        /\ t.content \in [SectorsOf(t.seal_index) -> Nat]
                        /\ \A s \in SectorsOf(t.seal_index) : t.content[s] = chain[s]
  <2> TAKE t \in tasks'
  <2>1. PICK i \in Queued : t = SealTask(i) /\ IsFull(data, i)
    BY <1>2
  <2>2. i \in Seals /\ to_seal_set[i] \in Nat
    BY DEF Queued, TypeOK, NotQueued
  <2>3. \A s \in SectorsOf(i) : data[s] = chain[s] /\ data[s] \in Nat
    BY <2>1, <2>2, SectorSeal DEF IsFull, StoredMatchesChain, TypeOK
  <2>4. t.seal_index = i /\ t.version = to_seal_set[i] /\ t.content = [s \in SectorsOf(i) |-> data[s]]
    BY <2>1 DEF SealTask
  <2> QED  BY <2>2, <2>3, <2>4
<1>4. TypeOK'
  BY <1>1, <1>3 DEF TypeOK, bounds
<1>5. StoredMatchesChain' /\ SealedSealsAreFull'
  BY <1>1 DEF StoredMatchesChain, SealedSealsAreFull, IsFull
<1>6. VersionsBounded'
  BY <1>1, <1>3 DEF VersionsBounded
<1>7. TasksFresh'
  BY <1>1, <1>3 DEF TasksFresh
<1> QED  BY <1>4, <1>5, <1>6, <1>7

(***************************************************************************)
(* submit_seal_result leaves the content of every sector as it is, and     *)
(* seals only full seals.                                                  *)
(***************************************************************************)
LEMMA SubmitKeepsData ==
    ASSUME IInv, NEW answers \in SUBSET tasks, submit_seal_result(answers)
    PROVE  /\ data' = data
           /\ sealed' \subseteq Seals
           /\ \A i \in sealed' \ sealed : IsFull(data, i)
           /\ \A i \in Seals : to_seal_set'[i] = to_seal_set[i] \/ to_seal_set'[i] = NotQueued
           /\ to_seal_set' \in [Seals -> Nat \cup {NotQueued}]
<1> USE DEF IInv
<1> DEFINE ok == {a \in answers : is_consistent(a)}
           idx == {a.seal_index : a \in ok}
<1>1. Apply(ok)
  BY DEF submit_seal_result
<1>2. CASE ~ \A i \in idx : Pullable(i)
  <2>1. UNCHANGED <<data, sealed, to_seal_set>>
    BY <1>1, <1>2 DEF Apply
  <2> QED  BY <2>1 DEF TypeOK
<1>3. CASE \A i \in idx : Pullable(i)
  <2>1. /\ data' = [s \in Sectors |->
                 IF SealOf(s) \in idx
                 THEN (CHOOSE a \in ok : a.seal_index = SealOf(s)).content[s]
                 ELSE data[s]]
        /\ sealed' = sealed \cup idx
        /\ to_seal_set' = [i \in Seals |-> IF i \in idx THEN NotQueued ELSE to_seal_set[i]]
    BY <1>1, <1>3 DEF Apply
  <2>2. \A a \in ok : /\ a.seal_index \in Seals
                      /\ \A s \in SectorsOf(a.seal_index) : a.content[s] = chain[s]
    BY DEF is_consistent, TasksFresh, TypeOK
  <2>3. idx \subseteq Seals
    BY <2>2
  <2>4. ASSUME NEW s \in Sectors, SealOf(s) \in idx
        PROVE  (CHOOSE a \in ok : a.seal_index = SealOf(s)).content[s] = data[s]
    <3> DEFINE a == CHOOSE x \in ok : x.seal_index = SealOf(s)
    <3>1. a \in ok /\ a.seal_index = SealOf(s)
      BY <2>4
    <3>2. s \in SectorsOf(a.seal_index)
      BY <3>1 DEF SectorsOf
    <3>3. a.content[s] = chain[s]
      BY <3>1, <3>2, <2>2
    <3>4. data[s] # NoData
      BY <1>3, <3>2, <3>1 DEF Pullable, IsFull
    <3> QED  BY <3>3, <3>4 DEF StoredMatchesChain
  <2>5. data' = data
    <3>1. \A s \in Sectors : data'[s] = data[s]
      BY <2>1, <2>4
    <3> QED  BY <3>1, <2>1 DEF TypeOK
  <2>6. \A i \in sealed' \ sealed : IsFull(data, i)
    BY <2>1, <1>3 DEF Pullable
  <2> QED  BY <2>1, <2>3, <2>5, <2>6 DEF TypeOK
<1> QED  BY <1>2, <1>3

(***************************************************************************)
(* submit_seal_result preserves the invariant, since it changes no data.   *)
(***************************************************************************)
LEMMA SubmitIInv ==
    ASSUME IInv, NEW answers \in SUBSET tasks, submit_seal_result(answers)
    PROVE  IInv'
<1> USE DEF IInv
<1>1. UNCHANGED <<fork, chain, to_seal_version, available, deleting, bounds>> /\ tasks' = {}
  BY DEF submit_seal_result
<1>2. TypeOK'
  BY <1>1, SubmitKeepsData DEF TypeOK, bounds
<1>3. StoredMatchesChain'
  BY <1>1, SubmitKeepsData DEF StoredMatchesChain
<1>4. SealedSealsAreFull'
  BY SubmitKeepsData DEF SealedSealsAreFull, IsFull
<1>5. VersionsBounded' /\ TasksFresh'
  BY <1>1, SubmitKeepsData DEF VersionsBounded, TasksFresh, TypeOK, NotQueued
<1> QED  BY <1>2, <1>3, <1>4, <1>5

(***************************************************************************)
(* truncate takes a version no task in flight has, and leaves in the queue *)
(* only seals wholly below the cut, where the chain did not change.        *)
(***************************************************************************)
LEMMA TruncateIInv ==
    ASSUME IInv, NEW cut \in Cuts, NEW group \in Seals, truncate(cut, group)
    PROVE  IInv'
<1> USE DEF IInv, inc_seal_version
<1>1. cut \in Sectors /\ cut \in Nat /\ group \in Nat
  BY FlowSealAssumption, SectorSeal
<1>2. group <= SealOf(cut)
  BY <1>1, FlowSealAssumption DEF truncate, truncated_seal_index, SealOf
<1>3. /\ fork < MaxForks /\ fork' = fork + 1
      /\ chain' = [s \in Sectors |-> IF s < cut THEN chain[s] ELSE fork + 1]
      /\ data' = [s \in Sectors |-> IF s < cut THEN data[s] ELSE NoData]
      /\ sealed' = {i \in sealed : i < group}
      /\ to_seal_version' = to_seal_version + 1
      /\ UNCHANGED <<available, tasks, deleting, bounds>>
  BY DEF truncate
<1>4. /\ to_seal_set' \in [Seals -> Nat \cup {NotQueued}]
      /\ \A i \in Seals : \/ to_seal_set'[i] = to_seal_version + 1
                          \/ to_seal_set'[i] = NotQueued
                          \/ to_seal_set'[i] = to_seal_set[i] /\ ~(i >= SealOf(cut))
  BY DEF truncate, split_off, TypeOK
<1>5. TypeOK'
  BY <1>3, <1>4, FlowSealAssumption DEF TypeOK, bounds
<1>6. StoredMatchesChain'
  BY <1>3 DEF StoredMatchesChain, TypeOK
<1>7. ASSUME NEW i \in Seals, i < SealOf(cut), NEW s \in SectorsOf(i)
      PROVE  s \in Sectors /\ s < cut
  <2>1. s \in Sectors /\ SealOf(s) = i
    BY SectorSeal
  <2> QED  BY <2>1, <1>1, <1>7, EarlierSeal
<1>8. SealedSealsAreFull'
  <2> SUFFICES ASSUME NEW i \in sealed', NEW s \in SectorsOf(i)
               PROVE  data'[s] # NoData
    BY DEF SealedSealsAreFull, IsFull
  <2>1. i \in sealed /\ i < group /\ i \in Seals /\ i \in Nat
    BY <1>3, SectorSeal DEF TypeOK
  <2>2. i < SealOf(cut)
    <3>1. SealOf(cut) \in Int
      BY <1>1, FlowSealAssumption DEF SealOf
    <3> QED  BY <3>1, <2>1, <1>1, <1>2
  <2>3. s \in Sectors /\ s < cut
    BY <1>7, <2>1, <2>2
  <2>4. data[s] # NoData
    BY <2>1 DEF SealedSealsAreFull, IsFull
  <2> QED  BY <2>3, <2>4, <1>3
<1>9. VersionsBounded'
  BY <1>3, <1>4 DEF VersionsBounded, TypeOK, NotQueued
<1>10. TasksFresh'
  <2> SUFFICES ASSUME NEW t \in tasks,
                      t.version = to_seal_version + 1 \/ t.version = to_seal_set'[t.seal_index],
                      NEW s \in SectorsOf(t.seal_index)
               PROVE  t.content[s] = chain'[s]
    BY <1>3 DEF TasksFresh
  <2>1. t.version \in Nat /\ t.seal_index \in Seals /\ t.version <= to_seal_version
    BY DEF TypeOK, VersionsBounded
  <2>2. t.version = to_seal_set[t.seal_index] /\ ~(t.seal_index >= SealOf(cut))
    BY <2>1, <1>4 DEF TypeOK, NotQueued
  <2>3. t.seal_index < SealOf(cut)
    <3>1. SealOf(cut) \in Int
      BY <1>1, FlowSealAssumption DEF SealOf
    <3>2. t.seal_index \in Nat
      BY <2>1, SectorSeal
    <3> QED  BY <3>1, <3>2, <2>2
  <2>4. s \in Sectors /\ s < cut
    BY <1>7, <2>1, <2>3
  <2>5. t.content[s] = chain[s]
    BY <2>2 DEF TasksFresh
  <2> QED  BY <2>4, <2>5, <1>3
<1> QED  BY <1>5, <1>6, <1>8, <1>9, <1>10

(***************************************************************************)
(* Purging the queue, deleting batches, a pull timeout and a restart only  *)
(* remove data, queue entries or tasks.                                    *)
(***************************************************************************)
LEMMA OtherIInv ==
    ASSUME IInv,
           \/ \E batch_list \in SUBSET Loads : seal_manager_delete_batch_list(batch_list)
           \/ data_db_delete_batch_list
           \/ pull_timeout
           \/ restart
    PROVE  IInv'
<1> USE DEF IInv
<1>1. ASSUME NEW batch_list \in SUBSET Loads, seal_manager_delete_batch_list(batch_list)
      PROVE  IInv'
  <2>1. TypeOK'
    BY <1>1 DEF seal_manager_delete_batch_list, TypeOK
  <2>2. StoredMatchesChain' /\ SealedSealsAreFull'
    BY <1>1 DEF seal_manager_delete_batch_list, StoredMatchesChain, SealedSealsAreFull, IsFull
  <2>3. VersionsBounded' /\ TasksFresh'
    BY <1>1 DEF seal_manager_delete_batch_list, VersionsBounded, TasksFresh, TypeOK, NotQueued
  <2> QED  BY <2>1, <2>2, <2>3
<1>2. CASE data_db_delete_batch_list
  <2>1. TypeOK'
    BY <1>2 DEF data_db_delete_batch_list, TypeOK, bounds
  <2>2. StoredMatchesChain'
    BY <1>2 DEF data_db_delete_batch_list, StoredMatchesChain
  <2>3. SealedSealsAreFull'
    <3> SUFFICES ASSUME NEW i \in sealed', NEW s \in SectorsOf(i)
                 PROVE  data'[s] # NoData
      BY DEF SealedSealsAreFull, IsFull
    <3>1. i \in sealed /\ LoadOf(i) \notin deleting /\ i \in Seals
      BY <1>2 DEF data_db_delete_batch_list, TypeOK
    <3>2. s \in Sectors /\ SealOf(s) = i /\ data[s] # NoData
      BY <3>1, SectorSeal DEF SealedSealsAreFull, IsFull
    <3> QED  BY <1>2, <3>1, <3>2 DEF data_db_delete_batch_list
  <2>4. VersionsBounded' /\ TasksFresh'
    BY <1>2 DEF data_db_delete_batch_list, VersionsBounded, TasksFresh
  <2> QED  BY <2>1, <2>2, <2>3, <2>4
<1>3. CASE pull_timeout
  <2>1. TypeOK'
    <3>1. /\ timeouts' = timeouts + 1 /\ available' \in BOOLEAN
          /\ UNCHANGED <<fork, chain, data, sealed, to_seal_set, to_seal_version, tasks,
                         deleting, prunes, restarts>>
      BY <1>3, Zenon DEF pull_timeout
    <3> QED  BY <3>1 DEF TypeOK
  <2>2. StoredMatchesChain' /\ SealedSealsAreFull'
    BY <1>3 DEF pull_timeout, StoredMatchesChain, SealedSealsAreFull, IsFull
  <2>3. VersionsBounded' /\ TasksFresh'
    BY <1>3 DEF pull_timeout, VersionsBounded, TasksFresh
  <2> QED  BY <2>1, <2>2, <2>3
<1>4. CASE restart
  <2>1. TypeOK'
    BY <1>4 DEF restart, TypeOK
  <2>2. StoredMatchesChain' /\ SealedSealsAreFull'
    BY <1>4 DEF restart, StoredMatchesChain, SealedSealsAreFull, IsFull
  <2>3. VersionsBounded' /\ TasksFresh'
    BY <1>4 DEF restart, VersionsBounded, TasksFresh, NotQueued
  <2> QED  BY <2>1, <2>2, <2>3
<1> QED  BY <1>1, <1>2, <1>3, <1>4

(***************************************************************************)
(* IInv is inductive.                                                      *)
(***************************************************************************)
LEMMA NextIInv == IInv /\ [Next]_vars => IInv'
<1> SUFFICES ASSUME IInv, [Next]_vars PROVE IInv'
  OBVIOUS
<1>1. ASSUME NEW lo \in Sectors, NEW hi \in Sectors, append_entries(lo, hi) PROVE IInv'
  BY <1>1, AppendIInv
<1>2. ASSUME NEW m \in 1 .. Cardinality(Seals), pull_seal_chunk(m) PROVE IInv'
  <2>1. m \in Nat
    OBVIOUS
  <2> QED  BY <1>2, <2>1, PullIInv
<1>3. ASSUME NEW answers \in SUBSET tasks, submit_seal_result(answers) PROVE IInv'
  BY <1>3, SubmitIInv
<1>4. ASSUME NEW cut \in Cuts, NEW group \in Seals, truncate(cut, group) PROVE IInv'
  BY <1>4, TruncateIInv
<1>5. CASE UNCHANGED vars
  BY <1>5 DEF vars, bounds, IInv, TypeOK, StoredMatchesChain, SealedSealsAreFull, IsFull,
     VersionsBounded, TasksFresh
<1> QED  BY <1>1, <1>2, <1>3, <1>4, <1>5, OtherIInv DEF Next

(***************************************************************************)
(* Type correctness of the flow store and its seal queue.                  *)
(***************************************************************************)
THEOREM TypeCorrect == Spec => []TypeOK
<1>1. IInv => TypeOK
  BY DEF IInv
<1> QED  BY <1>1, InitIInv, NextIInv, PTL DEF Spec

(***************************************************************************)
(* The store never serves content of an abandoned fork, and a seal marked  *)
(* sealed is complete, whatever the interleaving of uploads, seal answers, *)
(* reorganisations, deletions and restarts.                                *)
(***************************************************************************)
THEOREM StoreIntegrity == Spec => [](StoredMatchesChain /\ SealedSealsAreFull)
<1>1. IInv => StoredMatchesChain /\ SealedSealsAreFull
  BY DEF IInv
<1> QED  BY <1>1, InitIInv, NextIInv, PTL DEF Spec

(***************************************************************************)
(* submit_seal_result never copies an outdated answer over newer data.     *)
(***************************************************************************)
THEOREM SealingSafe == Spec => SealingKeepsContent
<1> DEFINE A == \A i \in sealed' \ sealed : \A s \in SectorsOf(i) : data'[s] = data[s] /\ data[s] # NoData
<1>1. IInv /\ [Next]_vars => [A]_vars
  <2> SUFFICES ASSUME IInv, Next PROVE A
    OBVIOUS
  <2>1. ASSUME NEW answers \in SUBSET tasks, submit_seal_result(answers) PROVE A
    BY <2>1, SubmitKeepsData DEF IsFull
  <2>2. CASE sealed' \subseteq sealed
    BY <2>2
  <2>3. (\A answers \in SUBSET tasks : ~submit_seal_result(answers)) => sealed' \subseteq sealed
    BY DEF Next, append_entries, pull_seal_chunk, truncate, seal_manager_delete_batch_list,
       data_db_delete_batch_list, pull_timeout, restart
  <2> QED  BY <2>1, <2>2, <2>3
<1> QED  BY <1>1, InitIInv, NextIInv, PTL DEF Spec, SealingKeepsContent
=============================================================================
