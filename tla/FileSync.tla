------------------------------ MODULE FileSync ------------------------------
(***************************************************************************)
(* File sync: the sync service of a node downloads files from peers that   *)
(* run the same code.  One controller for each file finds peers, connects  *)
(* to enough of them to cover all shards, and asks for one segment after   *)
(* the other.                                                              *)
(*                                                                         *)
(* The service handles one message at a time.  A handler changes some      *)
(* controllers and then calls transition() on them, a loop that runs until *)
(* it has to wait; `todo' holds the controllers still to be run and `turn' *)
(* the one whose loop is running, one iteration a step.  The handler of a  *)
(* response awaits the store twice (`pending'), and log sync may revert    *)
(* the transaction meanwhile.                                              *)
(*                                                                         *)
(* Chunk indices are counted in segments, so that a request is for one     *)
(* segment.  A transaction id is its seq and the fork of the chain it is   *)
(* from; the files of all forks have the same size.  Clocks are flags: a   *)
(* state or a peer is `due' when the time its code compares with is over.  *)
(* Peers answer as the router and the sync service of this code do.        *)
(***************************************************************************)
EXTENDS Integers, Bags, FiniteSets, ShardConfig

CONSTANTS
    Peers,        \* other nodes
    Seqs,         \* sequence numbers of the files
    None,         \* no controller, no peer
    MaxSyncFiles, \* Config.max_sync_files
    MaxFailures,  \* Config.max_request_failures
    Workloads     \* scenarios: see FileSyncAssumption

\* local, shards: the shard of this node and of each peer; peers: those there
\* are; links: those connected at the start; seqs: the files; segs, start: the segments of a file and the flow
\* segment it starts in; neighbors_only, on_announcement: the options of that
\* name; ranges: the ranges that may be asked for by startSyncChunks; tidy:
\* a file that is done is neither started again nor meets a failed dial; the
\* others bound what the outside does.
Bounds == {"starts", "finds", "faults", "reorgs", "terms", "joins"}

ASSUME FileSyncAssumption ==
    /\ MaxSyncFiles \in Nat /\ MaxFailures \in Nat /\ None \notin Peers
    /\ Seqs \subseteq Nat \ {0} /\ IsFiniteSet(Seqs) /\ IsFiniteSet(Peers)
    /\ \A w \in Workloads :
          /\ w.local \in Shards /\ w.shards \in [Peers -> Shards] /\ w.links \subseteq w.peers /\ w.peers \subseteq Peers
          /\ w.seqs \subseteq Seqs /\ w.segs \in Nat \ {0} /\ w.start \in Nat
          /\ {w.neighbors_only, w.on_announcement, w.tidy} \subseteq BOOLEAN
          /\ \A r \in w.ranges : r.start < r.end /\ r.end <= w.segs
          /\ w.bound \in [Bounds -> Nat]

VARIABLES
    workload, used,   \* the scenario, and how much of each bound is used up
    chain,            \* the fork each file's transaction has on the chain
    tx,               \* the store: the fork of the transaction, or NoTx
    stored,           \* the store: segments of each file in the flow, with their fork
    finalized,        \* the store: files with a status
    controllers,      \* SyncService.controllers
    todo, turn, beat, \* controllers to run, the one running, whether for a heartbeat
    pending,          \* the response being stored, or NoReply
    wire,             \* the bag of messages to and from router and peers
    links,            \* connected peers
    banned, refused,  \* peers banned by this node; peers that banned this node
    held,             \* the fork each peer has of each file, or NoTx
    located, known    \* FileLocationCache: announcements, peers with a shard config

store == <<tx, stored, finalized>>
network == <<links, banned, refused>>
outside == <<chain, held>>
cache == <<located, known>>
bounds == <<workload, used>>
vars == <<bounds, store, controllers, todo, turn, beat, pending, wire, network, outside, cache>>

NoTx == 0
Found == {"Found", "Connecting", "Connected"}
Dialed == {"Connecting", "Connected"}
Failed == {"TxReverted", "DBError", "TimeoutFindFile"}
Segs == 0 .. workload.segs - 1

Least(i, j) == IF i <= j THEN i ELSE j

State(kind) == [kind |-> kind, peer |-> None, from |-> 0, to |-> 0, due |-> FALSE]
Message(kind, p, seq, fork, from, to) ==
    [kind |-> kind, peer |-> p, seq |-> seq, fork |-> fork, from |-> from, to |-> to]
NoReply == Message("none", None, 0, NoTx, 0, 0)
As(m, kind) == [m EXCEPT !.kind = kind]
Error(m) == Message("Error", m.peer, m.seq, NoTx, 0, 0)

Left(b) == used[b] < workload.bound[b]
Use(b) == Left(b) /\ used' = [used EXCEPT ![b] = @ + 1] /\ UNCHANGED workload
Free == UNCHANGED bounds

Send(ms) == wire' = wire (+) SetToBag(ms)
Replace(m, ms) == wire' = (wire (-) SetToBag({m})) (+) SetToBag(ms)
On(m, kind) == BagIn(m, wire) /\ m.kind = kind
Running == {seq \in Seqs : controllers[seq] # None}
Quiet == turn = None /\ todo = {}
Ready == Quiet /\ pending = NoReply

Init ==
    /\ workload \in Workloads /\ used = [b \in Bounds |-> 0]
    /\ chain = [s \in Seqs |-> 1] /\ tx = chain /\ held = [p \in Peers |-> chain]
    /\ stored = [s \in Seqs |-> {}] /\ finalized = {}
    /\ controllers = [s \in Seqs |-> None] /\ todo = {} /\ turn = None /\ beat = FALSE
    /\ pending = NoReply /\ wire = EmptyBag
    /\ links = workload.links /\ banned = {} /\ refused = {}
    /\ located = {} /\ known = links

----------------------------------------------------------------------------
(* SyncPeers. *)

add_new_peer_with_config(c, p) ==
    IF c.peers[p] # None /\ c.peers[p].shard = workload.shards[p] THEN c
    ELSE [c EXCEPT !.peers[p] = [state |-> "Found", shard |-> workload.shards[p], late |-> FALSE]]

InState(c, p, state) == c.peers[p] # None /\ c.peers[p].state = state
Move(c, p, state) == [c EXCEPT !.peers[p].state = state, !.peers[p].late = FALSE]

update_state(c, p, from, to) == IF InState(c, p, from) THEN Move(c, p, to) ELSE c
update_state_force(c, p, to) == IF c.peers[p] = None THEN c ELSE [c EXCEPT !.peers[p].state = to]

filter_peers(c, states) == {p \in Peers : c.peers[p] # None /\ c.peers[p].state \in states}

AllShards(c, states) == all_shards_available({c.peers[p].shard : p \in filter_peers(c, states)})

\* Peers::transition: what it drops, and what it reports for a dial timeout.
\* Slip: a dial that gets no answer is waited for.
TimedOut_never(c) == {}
TimedOut(c) == {p \in filter_peers(c, {"Connecting"}) : c.peers[p].late}
BadPeers(c) ==
    TimedOut(c) \cup filter_peers(c, {"Disconnected"})
                \cup {p \in filter_peers(c, {"Disconnecting"}) : c.peers[p].late}
Sift(c) == [c EXCEPT !.peers = [p \in Peers |-> IF p \in BadPeers(c) THEN None ELSE c.peers[p]]]

----------------------------------------------------------------------------
(* SerialSyncController::transition, one iteration of its loop a step. *)

\* The announcements of peers that could not be dialed in time leave the cache.
Forget(c, seq) == {a \in located : a.seq = seq /\ a.fork = c.fork /\ a.peer \in TimedOut(c)}

transition(seq) ==
    /\ turn = None /\ seq \in todo
    /\ turn' = seq /\ todo' = todo \ {seq}
    /\ controllers' = [controllers EXCEPT ![seq] = Sift(controllers[seq])]
    /\ located' = located \ Forget(controllers[seq], seq)
    /\ UNCHANGED <<bounds, store, beat, pending, wire, network, outside, known>>

\* Another iteration, with the controller as given.
Again(c) ==
    /\ controllers' = [controllers EXCEPT ![turn] = c]
    /\ UNCHANGED <<todo, turn, beat>>

\* The loop ends; a heartbeat then removes the completed controllers.
End(c) ==
    /\ controllers' = [controllers EXCEPT ![turn] =
                          IF beat /\ c.state.kind = "Completed" THEN None ELSE c]
    /\ turn' = None /\ beat' = (beat /\ todo # {}) /\ UNCHANGED todo

To(c, kind) == [c EXCEPT !.state = State(kind)]
Loop(kind) == turn # None /\ controllers[turn].state.kind = kind
Inside == UNCHANGED <<store, pending, network, outside, cache>>

\* The peers of the cached announcements that the controller does not have yet.
Cached(c, seq) ==
    {p \in known : c.peers[p] = None /\ [peer |-> p, seq |-> seq, fork |-> c.fork] \in located}
WithCached(c, seq) ==
    [c EXCEPT !.peers = [p \in Peers |->
        IF p \in Cached(c, seq) THEN [state |-> "Found", shard |-> workload.shards[p], late |-> FALSE]
                                ELSE c.peers[p]]]

Published(c, seq) ==
    LET kind == CASE ~c.goal.all -> "FindChunks"
                  [] c.goal.all /\ workload.neighbors_only -> "AskFile"
                  [] OTHER -> "FindFile"
    IN  {Message(kind, p, seq, c.fork, c.goal.start, c.goal.end) :
            p \in IF kind = "AskFile" THEN links ELSE workload.peers}

\* A query, or an announcement, that is still on its way is not sent twice.
publish(c, seq) == Send(Published(c, seq) \ BagToSet(wire))

\* try_find_peers asks the network, or takes cached announcements if they do.
FromCache(c) == c.goal.all /\ ~workload.neighbors_only
Asked(c, seq) == To(IF FromCache(c) THEN WithCached(c, seq) ELSE c, "FindingPeers")
try_find_peers(c, seq) ==
    IF FromCache(c) /\ Cached(c, seq) # {} /\ AllShards(WithCached(c, seq), Found)
    THEN UNCHANGED wire ELSE publish(c, seq)

idle ==
    /\ Loop("Idle") /\ Inside /\ Free
    /\ LET c == controllers[turn] IN
       IF AllShards(c, Found) THEN Again(To(c, "FoundPeers")) /\ UNCHANGED wire
                              ELSE Again(Asked(c, turn)) /\ try_find_peers(c, turn)

finding_peers ==
    /\ Loop("FindingPeers") /\ Inside /\ Free
    /\ LET c == controllers[turn] IN
       \/ AllShards(c, Found) /\ Again(To(c, "FoundPeers")) /\ UNCHANGED wire
       \/ ~AllShards(c, Found) /\ ~c.state.due /\ End(c) /\ UNCHANGED wire
       \/ /\ ~AllShards(c, Found) /\ c.state.due
          /\ c.goal.all /\ workload.neighbors_only
          /\ End(To(c, "TimeoutFindFile")) /\ UNCHANGED wire
       \/ /\ ~AllShards(c, Found) /\ c.state.due
          /\ ~(c.goal.all /\ workload.neighbors_only)
          /\ End(Asked(c, turn)) /\ try_find_peers(c, turn)

\* try_connect dials peers, one a step, until those dialed cover all shards.
try_connect ==
    /\ Loop("FoundPeers") /\ Inside /\ Free
    /\ LET c == controllers[turn] IN
       IF AllShards(c, Dialed) THEN Again(To(c, "ConnectingPeers")) /\ UNCHANGED wire
       ELSE IF filter_peers(c, {"Found"}) = {} THEN Again(To(c, "Idle")) /\ UNCHANGED wire
       ELSE \E p \in filter_peers(c, {"Found"}) :
              Again(Move(c, p, "Connecting")) /\ Send({Message("DialPeer", p, turn, NoTx, 0, 0)})

connecting_peers ==
    /\ Loop("ConnectingPeers") /\ Inside /\ Free /\ UNCHANGED wire
    /\ LET c == controllers[turn] IN
       CASE AllShards(c, {"Connected"}) -> Again([To(c, "AwaitingDownload") EXCEPT !.state.due = TRUE])
         [] ~AllShards(c, Dialed)       -> Again(To(c, "Idle"))
         [] OTHER                       -> End(c)

awaiting_outgoing_connection ==
    /\ Loop("AwaitingOutgoingConnection") /\ Inside /\ Free /\ UNCHANGED wire
    /\ LET c == controllers[turn] IN IF c.state.due THEN Again(To(c, "Idle")) ELSE End(c)

\* Slip: the segment is looked up without the place of the file in the flow.
select_peer_for_request_file(c) ==
    {p \in filter_peers(c, {"Connected"}) : in_range(c.peers[p].shard, c.next)}

select_peer_for_request(c) ==
    {p \in filter_peers(c, {"Connected"}) : in_range(c.peers[p].shard, workload.start + c.next)}

Request(c, p) == Message("GetChunks", p, turn, c.fork, c.next, Least(c.next + 1, c.goal.end))

try_request_next ==
    /\ Loop("AwaitingDownload") /\ Inside
    /\ LET c == controllers[turn] IN
       \/ ~c.state.due /\ End(c) /\ UNCHANGED wire /\ Free
       \/ c.state.due /\ Again(To(c, "AwaitingDownload")) /\ UNCHANGED wire /\ Use("faults")  \* bandwidth limit
       \/ /\ c.state.due /\ select_peer_for_request(c) = {}
          /\ Again(To(c, "Idle")) /\ UNCHANGED wire /\ Free
       \/ /\ c.state.due
          /\ \E p \in select_peer_for_request(c) :
                LET r == Request(c, p) IN
                /\ Again([c EXCEPT !.state = [State("Downloading") EXCEPT
                                                 !.peer = p, !.from = r.from, !.to = r.to]])
                /\ Send({r})
          /\ Free

ban_peer(c, p) == update_state(c, p, "Connected", "Disconnecting")

GivesUp(c) == c.failures + 1 > MaxFailures

\* The count only matters up to the limit.
handle_response_failure(c, p) ==
    LET d == [c EXCEPT !.failures = Least(@ + 1, MaxFailures + 1)] IN
    IF GivesUp(c) THEN To(ban_peer(d, p), "Idle") ELSE To(d, "AwaitingDownload")

downloading ==
    /\ Loop("Downloading") /\ Free /\ UNCHANGED <<store, pending, links, refused, outside, cache, wire>>
    /\ LET c == controllers[turn]
           p == c.state.peer IN
       CASE ~InState(c, p, "Connected") -> Again(To(c, "Idle")) /\ UNCHANGED banned
         [] InState(c, p, "Connected") /\ c.state.due ->
              /\ Again(handle_response_failure(c, p))
              /\ banned' = IF GivesUp(c) THEN banned \cup {p} ELSE banned
         [] OTHER -> End(c) /\ UNCHANGED banned

ended ==
    /\ \E kind \in Failed \cup {"Completed"} : Loop(kind)
    /\ End(controllers[turn]) /\ Inside /\ Free /\ UNCHANGED wire

Run ==
    \/ \E seq \in todo : transition(seq)
    \/ idle \/ finding_peers \/ try_connect \/ connecting_peers \/ awaiting_outgoing_connection
    \/ try_request_next \/ downloading \/ ended

----------------------------------------------------------------------------
(* SyncService: starting and ending file syncs. *)

\* The controllers of S run after their handler changed them to C.
Handle(C, S) == controllers' = C /\ todo' = S /\ UNCHANGED <<turn, beat>>
Each(Op(_)) == [seq \in Seqs |-> IF controllers[seq] = None THEN None ELSE Op(controllers[seq])]

\* The segments of a file that this node keeps.
Needed == {s \in Segs : in_range(workload.local, workload.start + s)}
Has(seq, s) == \E e \in stored[seq] : e.seg = s

NextSegment(s) == next_segment_index(workload.local, s, workload.start)

\* The first segment of this node's shard that is not stored, or None.
tx_sync_start_index(seq) ==
    LET walk[s \in 0 .. workload.segs + Finest] ==
            IF s >= workload.segs THEN None ELSE IF ~Has(seq, s) THEN s ELSE walk[NextSegment(s)]
    IN  walk[IF in_range(workload.local, workload.start) THEN 0 ELSE NextSegment(0)]

WholeFile(start) == [start |-> start, end |-> workload.segs, all |-> TRUE]
NoRange == [start |-> 0, end |-> 0]
Goal(seq, range) ==
    IF range = NoRange THEN WholeFile(tx_sync_start_index(seq))
    ELSE [start |-> range.start, end |-> range.end, all |-> FALSE]

new(seq, goal) ==
    [fork |-> tx[seq], goal |-> goal, next |-> goal.start, failures |-> 0,
     state |-> State("Idle"), peers |-> [p \in Peers |-> None]]

\* Slip: a failed sync of chunks is resumed where it stopped.
reset_resume(c, range) ==
    LET d == CASE range # NoRange -> [c EXCEPT !.goal = [start |-> range.start, end |-> range.end, all |-> FALSE],
                                              !.next = range.start]
               [] range = NoRange -> [c EXCEPT !.goal = WholeFile(0)]
    IN  Sift([To(d, "Idle") EXCEPT !.failures = 0])

reset(c, range) ==
    LET d == CASE range # NoRange -> [c EXCEPT !.goal = [start |-> range.start, end |-> range.end, all |-> FALSE],
                                              !.next = range.start]
               [] range = NoRange /\ c.goal.all -> c
               [] OTHER -> [c EXCEPT !.goal = WholeFile(0), !.next = 0]
    IN  Sift([To(d, "Idle") EXCEPT !.failures = 0])

Ended(c) == c.state.kind \in Failed \cup {"Completed"}
Finished(c) == Ended(c) /\ c.goal.all /\ c.next >= c.goal.end

on_peer_found(c, p) == IF p \in known THEN add_new_peer_with_config(c, p) ELSE c
on_peer_announced(c, p) == update_state_force(add_new_peer_with_config(c, p), p, "Connected")

\* A controller that failed because its transaction was reverted is replaced.
Kept(seq) ==
    IF controllers[seq] # None /\ controllers[seq].state.kind = "TxReverted" THEN None ELSE controllers[seq]

\* on_start_sync_file: goes on with the controller there is, starts a new one,
\* finalizes a file that needs no more data, or fails.
on_start_sync_file(seq, range, peers) ==
    LET c == Kept(seq)
        add(d) == IF peers = {} THEN d ELSE on_peer_found(d, CHOOSE p \in peers : TRUE)
        put(d) == [controllers EXCEPT ![seq] = d]
        found == c # None \/ (tx[seq] # NoTx /\ seq \notin finalized)
        complete == c = None /\ range = NoRange /\ tx_sync_start_index(seq) = None
    IN  /\ CASE found /\ complete -> Handle(put(None), {}) /\ finalized' = finalized \cup {seq}
             [] found /\ ~complete /\ c = None ->
                  Handle(put(add(new(seq, Goal(seq, range)))), {seq}) /\ UNCHANGED finalized
             [] found /\ c # None ->
                  Handle(put(add(IF Ended(c) THEN reset(c, range) ELSE c)), {seq}) /\ UNCHANGED finalized
             [] OTHER -> Handle(put(None), {}) /\ UNCHANGED finalized
        /\ located' = IF c # None /\ Ended(c) THEN located \ Forget(c, seq) ELSE located
        /\ UNCHANGED <<tx, stored>>

\* SyncFile and SyncChunks requests, from the RPC server and from auto sync.
on_sync_file_request(seq, range) ==
    /\ Ready /\ Use("starts")
    /\ seq \in Running \/ Cardinality(Running) < MaxSyncFiles
    /\ workload.tidy /\ range = NoRange /\ seq \in Running => ~Finished(controllers[seq])
    /\ on_start_sync_file(seq, range, {})
    /\ UNCHANGED <<pending, wire, network, outside, known>>

on_terminate_file_sync(min, is_reverted) ==
    /\ Ready /\ Use("terms")
    /\ Handle([seq \in Seqs |-> IF seq = min \/ (is_reverted /\ seq > min) THEN None ELSE controllers[seq]], {})
    /\ UNCHANGED <<store, pending, wire, network, outside, cache>>

\* Whether transition() changes a controller at rest, or removes it.
Stirs(c) ==
    \/ c.state.due \/ c.state.kind = "Completed" \/ BadPeers(c) # {}
    \/ c.state.kind = "FindingPeers" /\ AllShards(c, Found)

\* A heartbeat at which nothing is due leaves all as it is.
on_heartbeat ==
    /\ Ready /\ Free
    /\ LET stirs == \E seq \in Running : Stirs(controllers[seq]) IN
       /\ todo' = IF stirs THEN Running ELSE {}
       /\ beat' = stirs
    /\ UNCHANGED <<controllers, turn, store, pending, wire, network, outside, cache>>

----------------------------------------------------------------------------
(* SyncService: connections.  The router passes a failed dial on only when *)
(* dial() itself fails; a peer counts as connected after the exchange of   *)
(* status messages, which also tells its shard.                            *)

Compatible(p) == p \notin banned \cup refused /\ intersect(workload.shards[p], workload.local)

on_peer_connected(p) == Each(LAMBDA c : update_state(c, p, "Connecting", "Connected"))

dial_peer(m) ==
    /\ Ready /\ On(m, "DialPeer") /\ Free
    /\ m.peer \in links \/ Compatible(m.peer)
    /\ Handle(on_peer_connected(m.peer), Running)
    /\ Replace(m, {}) /\ links' = links \cup {m.peer} /\ known' = known \cup {m.peer}
    /\ UNCHANGED <<store, pending, banned, refused, outside, located>>

\* The dial goes out but no connection comes of it.
dial_lost(m) ==
    /\ Ready /\ On(m, "DialPeer") /\ m.peer \notin links
    /\ IF Compatible(m.peer) THEN Use("faults") ELSE Free
    /\ Replace(m, {})
    /\ UNCHANGED <<store, controllers, todo, turn, beat, pending, network, outside, cache>>

on_dial_failed(c, p, limit) ==
    IF ~InState(c, p, "Connecting") THEN c
    ELSE IF limit THEN To(Move(c, p, "Found"), "AwaitingOutgoingConnection")
    ELSE To(Move(c, p, "Disconnected"), "Idle")

dial_failed(m, limit) ==
    /\ Ready /\ On(m, "DialPeer") /\ m.peer \notin links
    /\ IF Compatible(m.peer) \/ limit THEN Use("faults") ELSE Free
    /\ workload.tidy => \A seq \in Running :
          Finished(controllers[seq]) => ~InState(controllers[seq], m.peer, "Connecting")
    /\ Handle(Each(LAMBDA c : on_dial_failed(c, m.peer, limit)), Running)
    /\ Replace(m, {})
    /\ UNCHANGED <<store, pending, network, outside, cache>>

\* A peer connects on its own.
peer_connected(p) ==
    /\ Ready /\ p \notin links /\ Compatible(p) /\ Use("joins")
    /\ Handle(on_peer_connected(p), Running)
    /\ links' = links \cup {p} /\ known' = known \cup {p}
    /\ UNCHANGED <<store, pending, wire, banned, refused, outside, located>>

\* A ban ends the connection, on either side.  What was on its way over the
\* connection is lost; the requests among it fail.
Rides(m, p) == m.peer = p /\ m.kind \in {"AskFile", "AnswerFile", "GetChunks", "Chunks"}
Broken(p) == {Error(m) : m \in {n \in BagToSet(wire) : Rides(n, p) /\ n.kind \in {"GetChunks", "Chunks"}}}

on_peer_disconnected(p) ==
    /\ Ready /\ p \in links
    /\ IF p \in banned \cup refused THEN Free ELSE Use("faults")
    /\ Handle(Each(LAMBDA c : update_state_force(c, p, "Disconnected")), Running)
    /\ links' = links \ {p}
    /\ wire' = [m \in {n \in BagToSet(wire) : ~Rides(n, p)} |-> wire[m]] (+) SetToBag(Broken(p))
    /\ UNCHANGED <<store, pending, banned, refused, outside, cache>>

----------------------------------------------------------------------------
(* SyncService: responses.  validate_and_insert_range_proof, put_chunks    *)
(* and finalize_tx are called one after the other; the last two await.     *)

\* handle_on_response_mismatch
\* Slip: a response is taken whatever the state.
Expected_any(c, p) == c # None
Expected(c, p) == c # None /\ c.state.kind = "Downloading" /\ c.state.peer = p

Ignore(m) ==
    /\ todo' = IF controllers[m.seq] = None THEN {} ELSE {m.seq}
    /\ UNCHANGED <<controllers, turn, beat, pending, banned>>
Answer(m, c) == Handle([controllers EXCEPT ![m.seq] = c], {m.seq}) /\ UNCHANGED pending
AnswerBan(m, c) == Answer(m, c) /\ banned' = banned \cup {m.peer}

on_rpc_error(m) ==
    /\ Ready /\ On(m, "Error") /\ Free /\ Replace(m, {})
    /\ LET c == controllers[m.seq] IN
       IF ~Expected(c, m.peer) THEN Ignore(m)
       ELSE IF GivesUp(c) THEN AnswerBan(m, handle_response_failure(c, m.peer))
       ELSE Answer(m, handle_response_failure(c, m.peer)) /\ UNCHANGED banned
    /\ UNCHANGED <<store, links, refused, outside, cache>>

\* An invalid array or proof, the wrong range, a proof for a root this node
\* does not have (it is on another fork), or chunks to store.
on_response(m) ==
    /\ Ready /\ On(m, "Chunks") /\ Replace(m, {})
    /\ LET c == controllers[m.seq] IN
       \/ ~Expected(c, m.peer) /\ Ignore(m) /\ Free
       \/ Expected(c, m.peer) /\ AnswerBan(m, To(ban_peer(c, m.peer), "Idle")) /\ Use("faults")
       \/ Expected(c, m.peer) /\ m.from # c.state.from /\ Ignore(m) /\ Free
       \/ /\ Expected(c, m.peer) /\ m.from = c.state.from /\ tx[m.seq] = NoTx
          /\ AnswerBan(m, To(ban_peer(c, m.peer), "Idle")) /\ Free
       \/ /\ Expected(c, m.peer) /\ m.from = c.state.from /\ m.fork # tx[m.seq] /\ tx[m.seq] # NoTx
          /\ Answer(m, To(c, "AwaitingDownload")) /\ UNCHANGED banned /\ Free
       \/ /\ Expected(c, m.peer) /\ m.from = c.state.from /\ m.fork = tx[m.seq]
          /\ controllers' = [controllers EXCEPT ![m.seq].failures = 0]
          /\ pending' = As(m, "put_chunks")
          /\ UNCHANGED <<todo, turn, beat, banned>> /\ Free
    /\ UNCHANGED <<store, links, refused, outside, cache>>

\* The handler returns and the loop runs.
Return(kind) ==
    /\ controllers' = [controllers EXCEPT ![pending.seq] = To(@, kind)]
    /\ todo' = {pending.seq} /\ pending' = NoReply /\ UNCHANGED <<turn, beat>>

\* append_entries keeps only the segments of this node's shard.
Appended(m) ==
    IF in_range(workload.local, workload.start + m.from)
    THEN {[seg |-> m.from, fork |-> m.fork]} ELSE {}

\* put_chunks_with_tx_hash and finalize_tx_with_hash check the transaction again.
\* Slip: the chunks go to whatever transaction has the sequence number.
SameTx_seq(c, seq) == TRUE
SameTx(c, seq) == tx[seq] = c.fork

\* Slip: the end of the range is taken to be part of it.
MoreToGet_end(c, next) == next <= c.goal.end
MoreToGet(c, next) == next < c.goal.end

put_chunks ==
    /\ Quiet /\ pending.kind = "put_chunks"
    /\ LET seq == pending.seq
           c == controllers[seq]
           n == NextSegment(pending.from)
           d == [c EXCEPT !.next = n] IN
       \/ tx[seq] = NoTx /\ Return("DBError") /\ Free /\ UNCHANGED stored
       \/ tx[seq] # NoTx /\ ~SameTx(c, seq) /\ Return("TxReverted") /\ Free /\ UNCHANGED stored
       \/ tx[seq] # NoTx /\ SameTx(c, seq) /\ Return("DBError") /\ Use("faults") /\ UNCHANGED stored
       \/ /\ tx[seq] # NoTx /\ SameTx(c, seq) /\ Free
          /\ stored' = [stored EXCEPT ![seq] = @ \cup Appended(pending)]
          /\ IF ~MoreToGet(c, n) /\ c.goal.all
             THEN /\ controllers' = [controllers EXCEPT ![seq] = d]
                  /\ pending' = As(pending, "finalize_tx") /\ UNCHANGED <<todo, turn, beat>>
             ELSE /\ Handle([controllers EXCEPT ![seq] =
                                To(d, IF MoreToGet(c, n) THEN "Idle" ELSE "Completed")], {seq})
                  /\ pending' = NoReply
    /\ UNCHANGED <<tx, finalized, wire, network, outside, cache>>

finalize_tx ==
    /\ Quiet /\ pending.kind = "finalize_tx" /\ Free
    /\ LET seq == pending.seq
           c == controllers[seq] IN
       CASE tx[seq] = NoTx -> Return("DBError") /\ UNCHANGED finalized
         [] tx[seq] # NoTx /\ tx[seq] # c.fork -> Return("TxReverted") /\ UNCHANGED finalized
         [] tx[seq] = c.fork /\ \A s \in Needed : Has(seq, s) ->
              Return("Completed") /\ finalized' = finalized \cup {seq}
         [] OTHER -> Return("DBError") /\ UNCHANGED finalized
    /\ UNCHANGED <<tx, stored, wire, network, outside, cache>>

----------------------------------------------------------------------------
(* The router and the sync service of a peer.  It has the whole file, or   *)
(* the part of its shard, whenever it has the transaction.                 *)

\* The queries of on_find_file name no shard; they have to = 0.
InShard(p, from, to) == \A s \in from .. to - 1 : in_range(workload.shards[p], workload.start + s)
HasFile(m) ==
    /\ held[m.peer][m.seq] = m.fork
    /\ CASE m.kind = "AskFile"    -> m.peer \in links /\ intersect(workload.shards[m.peer], workload.local)
         [] m.kind = "FindFile"   -> m.to = 0 \/ intersect(workload.shards[m.peer], workload.local)
         [] m.kind = "FindChunks" -> InShard(m.peer, m.from, m.to)

\* The router tells the sync service of an announcement, and then caches it.
on_announce_file(m) ==
    {As(m, "Insert")} \cup (IF intersect(workload.local, workload.shards[m.peer])
                            THEN {As(m, "AnnounceFileGossip")} ELSE {})
Queries == {"AskFile", "FindFile", "FindChunks"}
Answers(m) ==
    CASE m.kind = "AskFile" -> {As(m, "AnswerFile")}
      [] m.kind = "FindFile" -> on_announce_file(m)
      [] m.kind = "FindChunks" -> {As(m, "AnnounceChunks")}
Untouched == UNCHANGED <<store, controllers, todo, turn, beat, pending>>

on_query(m) ==
    /\ Ready /\ BagIn(m, wire) /\ m.kind \in Queries /\ Free /\ Untouched
    /\ Replace(m, (IF HasFile(m) THEN Answers(m) ELSE {}) \ BagToSet(wire))
    /\ UNCHANGED <<network, outside, cache>>

\* handle_chunks_request_with_db_err: the stream ends with the first error.
on_get_chunks_request(m) ==
    /\ Ready /\ On(m, "GetChunks") /\ Untouched
    /\ LET has == held[m.peer][m.seq]
           bans == m.peer \in links /\ (m.from >= m.to \/ has = NoTx)
           serves == m.peer \in links /\ has = m.fork /\ InShard(m.peer, m.from, m.to) IN
       \/ bans /\ Free /\ refused' = refused \cup {m.peer} /\ Replace(m, {})
       \/ ~bans /\ serves /\ Free /\ UNCHANGED refused /\ Replace(m, {[As(m, "Chunks") EXCEPT !.fork = has]})
       \/ ~bans /\ ~serves /\ Free /\ UNCHANGED refused /\ Replace(m, {Error(m)})
       \/ ~bans /\ serves /\ Use("faults") /\ UNCHANGED refused /\ Replace(m, {Error(m)})  \* chunks not found
    /\ UNCHANGED <<links, banned, outside, cache>>

\* A message is lost.
lose(m) ==
    /\ Ready /\ BagIn(m, wire) /\ Use("faults") /\ Untouched
    /\ m.kind \notin {"DialPeer", "AnnounceFileGossip", "Insert"}
    /\ Replace(m, {})
    /\ UNCHANGED <<network, outside, cache>>

----------------------------------------------------------------------------
(* Answers and announcements reach this node: its router, then SyncService. *)

Locates(m) == [peer |-> m.peer, seq |-> m.seq, fork |-> m.fork]

insert(m) ==
    /\ Ready /\ On(m, "Insert") /\ Free /\ Untouched /\ Replace(m, {})
    /\ located' = located \cup {Locates(m)} /\ known' = known \cup {m.peer}
    /\ UNCHANGED <<network, outside>>

\* A controller is told of a peer, and runs.
Tell(seq, c) == Handle([controllers EXCEPT ![seq] = c], {seq}) /\ UNCHANGED <<store, located>>
Nothing == Handle(controllers, {}) /\ UNCHANGED <<store, located>>

on_announce_file_gossip(m) ==
    /\ Ready /\ On(m, "AnnounceFileGossip") /\ Free /\ Replace(m, {})
    /\ LET c == controllers[m.seq] IN
       CASE c # None /\ c.goal.all -> Tell(m.seq, on_peer_found(c, m.peer))
         [] c = None /\ workload.on_announcement /\ m.seq \notin finalized ->
              on_start_sync_file(m.seq, NoRange, {m.peer})
         [] OTHER -> Nothing
    /\ UNCHANGED <<pending, network, outside, known>>

on_announce_chunks_gossip(m) ==
    /\ Ready /\ On(m, "AnnounceChunks") /\ Free /\ Replace(m, {})
    /\ LET c == controllers[m.seq] IN
       IF c # None /\ ~c.goal.all /\ c.goal.start = m.from /\ c.goal.end = m.to
       THEN Tell(m.seq, on_peer_found(c, m.peer)) ELSE Nothing
    /\ UNCHANGED <<pending, network, outside, known>>

on_answer_file(m) ==
    /\ Ready /\ On(m, "AnswerFile") /\ Free /\ Replace(m, {})
    /\ LET c == controllers[m.seq] IN
       IF c # None THEN Tell(m.seq, on_peer_announced(c, m.peer)) ELSE Nothing
    /\ known' = known \cup {m.peer} /\ UNCHANGED <<pending, network, outside>>

\* A neighbor has completed a file and gossips NewFile.
on_new_file_gossip(p, seq) ==
    /\ Ready /\ p \in links /\ held[p][seq] # NoTx /\ Use("joins")
    /\ seq \in Running \ finalized /\ intersect(workload.local, workload.shards[p])
    /\ Tell(seq, on_peer_announced(controllers[seq], p))
    /\ UNCHANGED <<pending, wire, network, outside, known>>

\* findFile: a query of this node that belongs to no controller.
on_find_file(seq) ==
    /\ Ready /\ Use("finds") /\ Untouched /\ tx[seq] # NoTx /\ seq \notin finalized
    /\ Send({Message("FindFile", p, seq, tx[seq], 0, 0) : p \in workload.peers} \ BagToSet(wire))
    /\ UNCHANGED <<network, outside, cache>>

----------------------------------------------------------------------------
(* Log sync, here and at the peers, and the passing of time. *)

After(seq) == {s \in Seqs : s >= seq}
Net == <<controllers, todo, turn, beat, pending, wire, network, cache>>

\* The chain replaces the transactions from seq on.
reorg(seq) ==
    /\ Ready /\ Use("reorgs")
    /\ chain' = [s \in Seqs |-> IF s >= seq THEN chain[s] + 1 ELSE chain[s]]
    /\ UNCHANGED <<store, held, Net>>

\* revert_to: the transactions from seq on go, with their data.  A block that
\* is mined again with the same transactions makes them go too.
revert_to(seq) ==
    /\ tx[seq] # NoTx
    /\ IF tx[seq] # chain[seq] THEN Free ELSE Use("reorgs") /\ ~workload.tidy
    /\ tx' = [s \in Seqs |-> IF s >= seq THEN NoTx ELSE tx[s]]
    /\ stored' = [s \in Seqs |-> IF s >= seq THEN {} ELSE stored[s]]
    /\ finalized' = finalized \ After(seq)
    /\ UNCHANGED <<outside, Net>>

put_tx(seq) ==
    /\ tx[seq] = NoTx /\ \A s \in Seqs : s < seq => tx[s] = chain[s]
    /\ Free /\ tx' = [tx EXCEPT ![seq] = chain[seq]]
    /\ UNCHANGED <<stored, finalized, outside, Net>>

\* The same at a peer.
peer_follows(p, seq) ==
    /\ Free /\ held[p][seq] # chain[seq]
    /\ held' = [held EXCEPT ![p][seq] = IF @ = NoTx THEN chain[seq] ELSE NoTx]
    /\ UNCHANGED <<store, chain, Net>>

\* The time compared with in a state is over.  With a message on its way this
\* takes a slow network or peer, which is a fault.
Late == IF wire = EmptyBag THEN Free ELSE Use("faults")
Timed == {"FindingPeers", "AwaitingOutgoingConnection", "AwaitingDownload", "Downloading"}
Passive == UNCHANGED <<store, todo, turn, beat, pending, wire, network, outside, cache>>

elapse(seq) ==
    /\ Ready /\ seq \in Running /\ Passive /\ Late
    /\ controllers[seq].state.kind \in Timed /\ ~controllers[seq].state.due
    /\ controllers' = [controllers EXCEPT ![seq].state.due = TRUE]

elapse_peer(seq, p) ==
    /\ Ready /\ seq \in Running /\ controllers[seq].peers[p] # None /\ Passive /\ Late
    /\ controllers[seq].peers[p].state \in {"Connecting", "Disconnecting"} /\ ~controllers[seq].peers[p].late
    /\ controllers' = [controllers EXCEPT ![seq].peers[p].late = TRUE]

----------------------------------------------------------------------------

Deliver(m) ==
    \/ dial_peer(m) \/ dial_lost(m) \/ \E limit \in BOOLEAN : dial_failed(m, limit)
    \/ on_rpc_error(m) \/ on_response(m) \/ on_query(m) \/ on_get_chunks_request(m)
    \/ insert(m) \/ on_announce_file_gossip(m)
    \/ on_announce_chunks_gossip(m) \/ on_answer_file(m) \/ lose(m)

Next ==
    \/ Run \/ put_chunks \/ finalize_tx \/ on_heartbeat
    \/ \E m \in BagToSet(wire) : Deliver(m)
    \/ \E seq \in workload.seqs :
          \/ \E range \in workload.ranges \cup {NoRange} : on_sync_file_request(seq, range)
          \/ \E is_reverted \in BOOLEAN : on_terminate_file_sync(seq, is_reverted)
          \/ on_find_file(seq) \/ reorg(seq) \/ revert_to(seq) \/ put_tx(seq) \/ elapse(seq)
          \/ \E p \in workload.peers : on_new_file_gossip(p, seq) \/ peer_follows(p, seq) \/ elapse_peer(seq, p)
    \/ \E p \in workload.peers : peer_connected(p) \/ on_peer_disconnected(p)

Spec == Init /\ [][Next]_vars

\* The service's loop polls its channels and its heartbeat in turn and runs a
\* handler to its end; router, peers and clocks go on, and no peer's messages
\* wait for ever behind another's; log sync follows the chain.  Starts, faults,
\* reorgs and visits of peers need not happen.
Progress ==
    \/ Run \/ put_chunks \/ finalize_tx \/ on_heartbeat
    \/ \E m \in BagToSet(wire) : Deliver(m)
    \/ \E seq \in Seqs : elapse(seq) \/ \E p \in Peers : elapse_peer(seq, p)
    \/ \E p \in Peers : on_peer_disconnected(p)
Fairness ==
    /\ WF_vars(Run) /\ WF_vars(Free /\ Progress)
    /\ \A p \in Peers : SF_vars(Free /\ \E m \in BagToSet(wire) : m.peer = p /\ Deliver(m))
    /\ \A seq \in Seqs :
          /\ WF_vars(put_tx(seq)) /\ WF_vars(Free /\ revert_to(seq))
          /\ \A p \in Peers : WF_vars(peer_follows(p, seq))
FairSpec == Spec /\ Fairness

----------------------------------------------------------------------------
(* Properties. *)

Index == 0 .. workload.segs + Finest
Forks == 0 .. 1 + workload.bound["reorgs"]
Kinds == {"Idle", "FoundPeers", "ConnectingPeers", "Completed"} \cup Timed \cup Failed

\* Every variable has its type; a response is being stored only for the
\* controller that is downloading just that (on_response awaits the store
\* between its checks and its last assignment to the state).
TypeOK ==
    /\ chain \in [Seqs -> Forks] /\ tx \in [Seqs -> Forks] /\ held \in [Peers -> [Seqs -> Forks]]
    /\ stored \in [Seqs -> SUBSET [seg : Segs, fork : Forks]] /\ finalized \subseteq Seqs
    /\ links \subseteq Peers /\ banned \subseteq Peers /\ refused \subseteq Peers /\ known \subseteq Peers
    /\ located \subseteq [peer : Peers, seq : Seqs, fork : Forks]
    /\ todo \subseteq Running /\ turn \in Running \cup {None} /\ beat \in BOOLEAN
    /\ \A seq \in Running : LET c == controllers[seq] IN
          /\ c.fork \in Forks \ {NoTx} /\ c.next \in Index /\ c.failures \in 0 .. MaxFailures + 1
          /\ c.goal.start < c.goal.end /\ c.goal.end <= workload.segs
          /\ c.state.kind \in Kinds /\ (c.state.peer # None <=> c.state.kind = "Downloading")
          /\ \A p \in Peers : c.peers[p] = None
                \/ c.peers[p] \in [state : Found \cup {"Disconnecting", "Disconnected"},
                                   shard : Shards, late : BOOLEAN]
    /\ pending # NoReply => /\ pending.seq \in Running
                            /\ controllers[pending.seq].state.peer = pending.peer
                            /\ controllers[pending.seq].state.from = pending.from

\* The shard tree is right about coverage: the peers of a controller make all
\* shards available exactly when every segment of the flow is kept by one of them.
CoverageExact ==
    \A seq \in Running : LET c == controllers[seq] IN
        \A states \in {Found, Dialed, {"Connected"}} :
            AllShards(c, states) <=>
                \A s \in 0 .. Finest - 1 : \E p \in filter_peers(c, states) : in_range(c.peers[p].shard, s)

\* A peer is only asked for a segment of its own shard, wherever in the flow
\* the file starts (select_peer_for_request).
RequestsServable ==
    \A m \in BagToSet(wire) : m.kind = "GetChunks" => in_range(workload.shards[m.peer], workload.start + m.from)

\* No request is for an empty range; peers ban those who ask for one.
RequestsNotEmpty == \A m \in BagToSet(wire) : m.kind = "GetChunks" => m.from < m.to

\* The same as long as a finished file sync is left alone until it is removed.
TidyRequestsNotEmpty == workload.tidy => RequestsNotEmpty

\* A file sync has stored every segment of this node's shard that it has
\* passed, through resets, peers lost, and requests for part of the file.
NoGap ==
    \A seq \in Running : LET c == controllers[seq] IN
        workload.tidy /\ c.goal.all /\ c.fork = tx[seq] =>
            \A s \in Needed : s < c.next => Has(seq, s)

\* The data in the flow is of the transaction that owns its place, whatever is
\* reverted while a response is on its way or is being stored; and a file has
\* a status only if all the data of this node's shard is there.
StoredOwn ==
    \A seq \in Seqs :
        /\ \A e \in stored[seq] : e.fork = tx[seq]
        /\ seq \in finalized => \A s \in Needed : Has(seq, s)

\* SerialSyncController::transition returns: its loop never goes round for ever.
TransitionEnds == []<>(turn = None)

\* The peers that can give this node the file, and answer its queries for it.
Suitable(seq) ==
    LET c == controllers[seq] IN
    {p \in workload.peers : /\ Compatible(p) /\ held[p][seq] = c.fork
                            /\ c.goal.all \/ (p \in known /\ InShard(p, c.goal.start, c.goal.end))}
Supplied(seq) == all_shards_available({workload.shards[p] : p \in Suitable(seq)})

\* A file sync comes to an end, in spite of lost messages, failed dials and
\* slow peers, unless it loses the peers it needs: the peers have gone to
\* another fork, or a ban stands between them and this node.
EventuallyDone ==
    \A seq \in Seqs :
        []<>(controllers[seq] = None \/ Ended(controllers[seq]) \/ ~Supplied(seq))
=============================================================================
