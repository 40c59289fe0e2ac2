----------------------------- MODULE Scheduler -----------------------------
(***************************************************************************)
(* class Scheduler: which sub-block is asked of which peer, and the book-  *)
(* keeping that decides it.  All of it runs on the main thread, so every   *)
(* action below is one callback of the event loop: a message or a timer of *)
(* a PeerSession, a connection coming or going, or TaskManager::tick.      *)
(*                                                                         *)
(* The members of the class are the fields of `sched'.  `sess' is what the *)
(* callbacks keep outside it: the request timers of each PeerSession and   *)
(* what is on the wire.  A handler is an operator on w = [sched, sess].    *)
(* A sub-block is <<chunk, k>>, its begin offset being k * SUB_BLOCK_SIZE. *)
(* A request the remote side drops is one whose PIECE never comes.         *)
(***************************************************************************)
EXTENDS Integers, Sequences, FiniteSets, SequencesExt

CONSTANTS
    NumChunks,          \* chunk_count
    SubBlocks,          \* chunk_sub_blocks_: [Chunks -> Nat \ {0}]
    Resumed,            \* chunks that a resumed download starts with
    Bitfields,          \* slot id -> the BITFIELD its remote peer sends
    Speeds,             \* the link speeds it may report, local_speed_mbps too
    Latencies,          \* the values of rtt_us / 2000
    InitialCap,         \* pipeline_cap of a new slot and of a new session
    PipelineMin,        \* PIPELINE_MIN
    PipelineMax,        \* PIPELINE_MAX
    SeedCap,            \* the cap on a full source beside partial ones, 32
    TimeoutLimit,       \* REQUEST_TIMEOUT_LIMIT
    EndgameThreshold,   \* ENDGAME_THRESHOLD
    MaxEndgameChunks,   \* MAX_ENDGAME_CHUNKS
    MaxRedundantPeers,  \* MAX_REDUNDANT_PEERS
    MaxConns,           \* bound: connections made in a run
    MaxFaults           \* bound: timeouts, CHOKEs, lost peers and failed chunks

Chunks == 0 .. NumChunks - 1
SubsOf(c) == {c} \X (0 .. SubBlocks[c] - 1)
Subs == UNION {SubsOf(c) : c \in Chunks}
Ids == 0 .. MaxConns - 1
NoPeer == -1
LocalSpeed == 1000

ASSUME SchedulerAssumption ==
    /\ NumChunks \in Nat \ {0}
    /\ SubBlocks \in [Chunks -> Nat \ {0}]
    /\ Resumed \subseteq Chunks
    /\ Bitfields \in [Ids -> SUBSET Chunks]
    /\ PipelineMin \in 1 .. PipelineMax
    /\ TimeoutLimit \in Nat \ {0}

VARIABLES
    sched,      \* the members of Scheduler
    sess,       \* slot id -> the download half of its PeerSession
    next_id,    \* PeerManager::next_slot_id_
    source,     \* sub-block -> the peer whose copy was written first
    reported,   \* chunks whose assembler has reported completion
    results,    \* VerifyResults waiting in result_queue_
    faults      \* bound bookkeeping: what MaxFaults bounds, so far

vars == <<sched, sess, next_id, source, reported, results, faults>>

NewSession ==
    [state |-> "HANDSHAKE",
     bitfield |-> {},           \* what the remote's BITFIELD says or will say
     bitfield_received |-> FALSE,
     haves |-> {},              \* the HAVEs the remote has sent
     pending_times |-> {},      \* requests with a running timer
     asked |-> [s \in Subs |-> 0], \* REQUESTs the remote has yet to answer
     cancelled |-> {},          \* cancelled_set_ of the remote session
     consecutive_timeouts |-> 0,
     pipeline_cap |-> InitialCap]
Closed == [NewSession EXCEPT !.state = "DISCONNECTED"]

NewSlot(id) ==
    [slot_id |-> id, pending_requests |-> 0, consecutive_timeouts |-> 0,
     rtt |-> 0, link_speed |-> 0, pipeline_cap |-> InitialCap,
     am_choking |-> TRUE, remote_bitfield |-> {},
     bitfield_size |-> NumChunks,   \* remote_bitfield.size()
     active_sub_blocks |-> <<>>]

Slots == 1 .. Len(sched.peer_slots)

\* active_sub_blocks is a map: a chunk without an entry is not in the domain.
ActiveAt(slot, c) ==
    IF c \in DOMAIN slot.active_sub_blocks THEN slot.active_sub_blocks[c] ELSE {}
SetActive(slot, c, ks) == (c :> ks) @@ slot.active_sub_blocks
DropActive(slot, c) ==
    [d \in DOMAIN slot.active_sub_blocks \ {c} |-> slot.active_sub_blocks[d]]

-----------------------------------------------------------------------------
(* Choosing a peer.                                                         *)

peer_have_count(slot) == Cardinality(slot.remote_bitfield)
is_full_source(slot) == slot.remote_bitfield = Chunks
has_partial_sources(slots) ==
    \E i \in DOMAIN slots : peer_have_count(slots[i]) \in 1 .. NumChunks - 1

\* Slip: whether the peer has the chunk is not asked.
MutantCanServe(slot, c) == ~slot.am_choking /\ slot.consecutive_timeouts < 3

CanServe(slot, c) ==
    /\ c \in slot.remote_bitfield
    /\ ~slot.am_choking
    /\ slot.consecutive_timeouts < 3

Score(slot) ==
    (IF LocalSpeed >= 1000 /\ slot.link_speed >= 1000 THEN 10 ELSE 0)
    + Min({50, (slot.bitfield_size - peer_have_count(slot)) \div 64})
    - slot.pending_requests * 6
    - slot.rtt

\* The index of the best peer, 0 when nobody can serve the chunk: the highest
\* score, then the fewest chunks, then the first in peer_slots_.
select_best_peer(slots, c) ==
    LET Able == {i \in DOMAIN slots : CanServe(slots[i], c)}
        Before(i, j) ==
            \/ Score(slots[i]) > Score(slots[j])
            \/ /\ Score(slots[i]) = Score(slots[j])
               /\ \/ peer_have_count(slots[i]) < peer_have_count(slots[j])
                  \/ /\ peer_have_count(slots[i]) = peer_have_count(slots[j])
                     /\ i < j
    IN IF Able = {} THEN 0
       ELSE CHOOSE i \in Able : \A j \in Able \ {i} : Before(i, j)

\* At most MaxRedundantPeers peers that can serve c and have nothing of it in
\* hand: the ones with the fewest pending requests, then the lowest slot id.
find_redundant_peers(slots, c, exclude) ==
    LET Able == {i \in DOMAIN slots \ {exclude} :
                    CanServe(slots[i], c) /\ ActiveAt(slots[i], c) = {}}
        Before(i, j) ==
            \/ slots[i].pending_requests < slots[j].pending_requests
            \/ /\ slots[i].pending_requests = slots[j].pending_requests
               /\ slots[i].slot_id < slots[j].slot_id
    IN {i \in Able :
           Cardinality({j \in Able : Before(j, i)}) < MaxRedundantPeers}

-----------------------------------------------------------------------------
(* Issuing and cancelling requests.  issue_request_ sends a REQUEST and     *)
(* starts its timer; a remote that was sent a CANCEL for the sub-block on   *)
(* this connection ignores it.  cancel_request_ only sends a CANCEL.        *)

Issue(w, i, c, ks) ==
    LET id == w.sched.peer_slots[i].slot_id
        new == {c} \X ks
    IN IF ks = {} THEN w ELSE
       [w EXCEPT
           !.sched.peer_slots[i] =
               [@ EXCEPT !.pending_requests = @ + Cardinality(ks),
                         !.active_sub_blocks =
                             SetActive(w.sched.peer_slots[i], c,
                                 ActiveAt(w.sched.peer_slots[i], c) \union ks)],
           !.sess[id].pending_times = @ \union new,
           !.sess[id].asked =
               [s \in Subs |-> IF s \in new \ w.sess[id].cancelled
                               THEN w.sess[id].asked[s] + 1
                               ELSE w.sess[id].asked[s]]]

\* chunk_sub_req_ and chunk_sub_req_time_ := now for the sub-blocks ks.
MarkRequested(w, c, ks) ==
    [w EXCEPT !.sched.sub_req[c] = @ \union ks, !.sched.sub_old[c] = @ \ ks]

try_schedule_chunk_on_peer(w, i, c, cap) ==
    LET S == w.sched
        open == (0 .. SubBlocks[c] - 1) \ S.sub_req[c]
        picks == {k \in open :
                    S.peer_slots[i].pending_requests
                        + Cardinality({j \in open : j < k}) < cap}
    IN IF \/ S.chunk_states[c] = "COMPLETE"
          \/ ~CanServe(S.peer_slots[i], c)
          \/ select_best_peer(S.peer_slots, c) # i
       THEN w
       ELSE Issue([MarkRequested(w, c, picks) EXCEPT
                      !.sched.chunk_states[c] = "DOWNLOADING",
                      !.sched.sub_req_count[c] = @ + Cardinality(picks)],
                  i, c, picks)

\* Stable sort of a sequence of chunks.
SortBy(seq, key(_)) ==
    LET order == SetToSortSeq(DOMAIN seq, LAMBDA i, j :
                     \/ key(seq[i]) < key(seq[j])
                     \/ key(seq[i]) = key(seq[j]) /\ i < j)
    IN [n \in DOMAIN order |-> seq[order[n]]]

\* Rarest first, among the chunks that look not fully requested yet.
try_schedule_for_peer(w, i) ==
    LET S == w.sched
        slot == S.peer_slots[i]
        cap == IF is_full_source(slot) /\ has_partial_sources(S.peer_slots)
               THEN Min({slot.pipeline_cap, SeedCap}) ELSE slot.pipeline_cap
        Wanted(c) == /\ S.chunk_states[c] # "COMPLETE"
                     /\ c \in slot.remote_bitfield
                     /\ S.sub_req_count[c] < SubBlocks[c]
        try(v, c) == IF v.sched.peer_slots[i].pending_requests >= cap THEN v
                     ELSE try_schedule_chunk_on_peer(v, i, c, cap)
    IN IF slot.pending_requests >= cap THEN w
       ELSE FoldLeft(try, w, SortBy(SelectSeq(S.active_chunks, Wanted),
                                    LAMBDA c : S.availability[c]))

-----------------------------------------------------------------------------
(* Moving requests from full sources to peer i, and redundant requests.     *)

\* One look of rebalance_seed_requests_for_peer at chunk at[1] of source
\* at[2]: forget its first sub-block if that is done, move it otherwise.
\* Nothing is said about whether peer i chokes us.
MoveOne(a, i, at) ==
    LET c == at[1]
        j == at[2]
        S == a.w.sched
        from == S.peer_slots[j]
        k == Min(ActiveAt(from, c))
        rest == ActiveAt(from, c) \ {k}
        cancel == [a.w EXCEPT
            !.sched.peer_slots[j].pending_requests = Max({0, @ - 1}),
            !.sched.peer_slots[j].active_sub_blocks =
                IF rest = {} THEN DropActive(from, c) ELSE SetActive(from, c, rest),
            !.sess[from.slot_id].cancelled = @ \union {<<c, k>>}]
    IN IF \/ a.moved
          \/ S.peer_slots[i].pending_requests >= S.peer_slots[i].pipeline_cap
          \/ c \notin S.peer_slots[i].remote_bitfield
          \/ S.chunk_states[c] = "COMPLETE"
          \/ j = i \/ ~is_full_source(from) \/ ActiveAt(from, c) = {}
       THEN a
       ELSE IF k \in S.sub_done[c]
       THEN [a EXCEPT !.w.sched.peer_slots[j].active_sub_blocks =
                 SetActive(from, c, rest)]
       ELSE [w |-> Issue(MarkRequested(cancel, c, {k}), i, c, {k}), moved |-> TRUE]

\* Each move adds a pending request, so pipeline_cap bounds the rounds too.
rebalance_seed_requests_for_peer(w, i, max_moves) ==
    LET n == Len(w.sched.peer_slots)
        order == [m \in 1 .. Len(w.sched.active_chunks) * n |->
                     <<w.sched.active_chunks[(m - 1) \div n + 1], ((m - 1) % n) + 1>>]
        round(a, r) ==
            IF ~a.moved THEN a
            ELSE FoldLeft(LAMBDA b, at : MoveOne(b, i, at),
                          [w |-> a.w, moved |-> FALSE], order)
    IN IF is_full_source(w.sched.peer_slots[i]) THEN w
       ELSE FoldLeft(round, [w |-> w, moved |-> TRUE],
                     [r \in 1 .. Min({max_moves, w.sched.peer_slots[i].pipeline_cap}) |-> r]).w

\* The peer with the most sub-blocks of c in hand, 0 when there is none.
PrimaryPeer(slots, c) ==
    LET n(i) == Cardinality(ActiveAt(slots[i], c))
        Busy == {i \in DOMAIN slots : n(i) > 0}
    IN IF Busy = {} THEN 0
       ELSE CHOOSE i \in Busy : \A j \in Busy :
                n(i) > n(j) \/ (n(i) = n(j) /\ i <= j)

\* sub_old holds the requests older than the hunger threshold.
tick_endgame(w) ==
    LET S == w.sched
        Remaining(c) == SubBlocks[c] - Cardinality(S.sub_done[c])
        downloading == SortBy(SelectSeq(S.active_chunks,
                                        LAMBDA c : S.chunk_states[c] = "DOWNLOADING"),
                              Remaining)
        Hungry(c) == (S.sub_req[c] \intersect S.sub_old[c]) \ S.sub_done[c]
        feed(a, c) ==
            LET primary == PrimaryPeer(a.w.sched.peer_slots, c)
                ask(v, k) ==
                    FoldLeft(LAMBDA u, i : Issue(u, i, c, {k}), v,
                        SetToSeq(find_redundant_peers(v.sched.peer_slots, c, primary)))
            IN IF a.processed >= MaxEndgameChunks \/ Hungry(c) = {} THEN a
               ELSE [w |-> FoldLeft(ask, a.w, SetToSortSeq(Hungry(c), <)),
                     processed |-> a.processed + 1]
    IN FoldLeft(feed, [w |-> w, processed |-> 0], downloading).w

Scheduler_tick(w) ==
    LET each == [i \in 1 .. Len(w.sched.peer_slots) |-> i]
        moved == FoldLeft(LAMBDA v, i : rebalance_seed_requests_for_peer(v, i, 4),
                          w, each)
        asked == FoldLeft(try_schedule_for_peer, moved, each)
    IN IF w.sched.phase = "DONE" THEN w
       ELSE IF w.sched.phase = "ENDGAME" THEN tick_endgame(asked) ELSE asked

-----------------------------------------------------------------------------
(* Completion, failure and timeout.                                         *)

\* Slip: the last chunk is popped without being moved into the hole.
MutantRemoveChunk(seq, c) == IF Contains(seq, c) THEN Front(seq) ELSE seq

RemoveChunk(seq, c) ==
    IF ~Contains(seq, c) THEN seq
    ELSE LET at == CHOOSE n \in DOMAIN seq : seq[n] = c
         IN Front([seq EXCEPT ![at] = Last(seq)])

\* Slip: the two tests on missing_count_ are swapped.
MutantPhaseAfter(S) ==
    IF S.missing_count < EndgameThreshold THEN "ENDGAME"
    ELSE IF S.missing_count = 0 THEN "DONE" ELSE S.phase

PhaseAfter(S) ==
    IF S.missing_count = 0 THEN "DONE"
    ELSE IF S.missing_count < EndgameThreshold THEN "ENDGAME" ELSE S.phase

send_cancel_for_chunk(w, c, exclude) ==
    LET Hit == {i \in DOMAIN w.sched.peer_slots :
                   /\ w.sched.peer_slots[i].slot_id # exclude
                   /\ ActiveAt(w.sched.peer_slots[i], c) # {}}
        cancel(slot) ==
            [slot EXCEPT
                !.pending_requests = Max({0, @ - Cardinality(ActiveAt(slot, c))}),
                !.active_sub_blocks = DropActive(slot, c)]
        Sent(id) == UNION {{c} \X ActiveAt(w.sched.peer_slots[i], c) :
                              i \in {j \in Hit : w.sched.peer_slots[j].slot_id = id}}
    IN [w EXCEPT
           !.sched.peer_slots = [i \in DOMAIN @ |->
               IF i \in Hit THEN cancel(@[i]) ELSE @[i]],
           !.sess = [id \in Ids |-> [@[id] EXCEPT !.cancelled = @ \union Sent(id)]]]

process_completions(w, msgs) ==
    LET complete(v, m) ==
            send_cancel_for_chunk(
                [v EXCEPT !.sched.chunk_states[m.chunk] = "COMPLETE",
                          !.sched.missing_count = @ - 1,
                          !.sched.active_chunks = RemoveChunk(@, m.chunk),
                          !.sched.sub_req_count[m.chunk] = 0],
                m.chunk, m.winning_peer)
        done == FoldLeft(complete, w, msgs)
    IN [done EXCEPT !.sched.phase = PhaseAfter(done.sched)]

on_verify_failed(w, c) ==
    [w EXCEPT !.sched.chunk_states[c] = "MISSING",
              !.sched.sub_req[c] = {},
              !.sched.sub_old[c] = {},
              !.sched.sub_done[c] = {},
              !.sched.sub_req_count[c] = 0,
              !.sched.active_chunks = IF Contains(@, c) THEN @ ELSE Append(@, c)]

\* Slip: the request count is not taken down with the flag.
MutantReleaseSub(w, sub) ==
    [w EXCEPT !.sched.sub_req[sub[1]] = @ \ {sub[2]},
              !.sched.sub_old[sub[1]] = @ \ {sub[2]}]

ReleaseSub(w, sub) ==
    LET c == sub[1]
        k == sub[2]
    IN IF k \notin w.sched.sub_req[c] THEN w
       ELSE [w EXCEPT !.sched.sub_req[c] = @ \ {k},
                      !.sched.sub_old[c] = @ \ {k},
                      !.sched.sub_req_count[c] = Max({0, @ - 1})]

on_subblock_timeout(w, sub) ==
    IF w.sched.chunk_states[sub[1]] = "COMPLETE" THEN w ELSE ReleaseSub(w, sub)

\* Slip: the requests of the lost peer are not released.
MutantOnPeerRemoved(w, i) ==
    [w EXCEPT
        !.sched.availability = [c \in Chunks |->
            IF c \in w.sched.peer_slots[i].remote_bitfield THEN @[c] - 1 ELSE @[c]],
        !.sched.peer_slots = RemoveAt(@, i),
        !.sess[w.sched.peer_slots[i].slot_id] = Closed]

\* The requests in the hands of the peer are released, its chunks uncounted.
on_peer_removed(w, i) ==
    LET slot == w.sched.peer_slots[i]
        touched == DOMAIN slot.active_sub_blocks
        held == UNION {{c} \X slot.active_sub_blocks[c] : c \in touched}
        freed == FoldLeft(ReleaseSub, w, SetToSeq(held))
    IN [freed EXCEPT
           !.sched.availability = [c \in Chunks |->
               IF c \in slot.remote_bitfield THEN @[c] - 1 ELSE @[c]],
           !.sched.chunk_states = [c \in Chunks |->
               IF c \in touched /\ @[c] # "COMPLETE" /\ freed.sched.sub_req_count[c] = 0
               THEN "MISSING" ELSE @[c]],
           !.sched.peer_slots = RemoveAt(@, i),
           !.sess[slot.slot_id] = Closed]

mark_all_complete(S, bitfield) ==
    LET mark(T, c) ==
            IF c \notin bitfield \/ T.chunk_states[c] = "COMPLETE" THEN T
            ELSE [T EXCEPT
                     !.missing_count = IF T.chunk_states[c] = "MISSING" THEN @ - 1 ELSE @,
                     !.chunk_states[c] = "COMPLETE",
                     !.active_chunks = RemoveChunk(@, c),
                     !.sub_req_count[c] = 0]
        done == FoldLeft(mark, S, [n \in 1 .. NumChunks |-> n - 1])
    IN [done EXCEPT !.phase = PhaseAfter(done)]

-----------------------------------------------------------------------------
(* The specification.                                                       *)

Here == [sched |-> sched, sess |-> sess]
Become(w) == \E v \in {w} : sched' = v.sched /\ sess' = v.sess
Live == {sched.peer_slots[i].slot_id : i \in Slots}
IndexOf(id) == CHOOSE i \in Slots : sched.peer_slots[i].slot_id = id
Connected == {id \in Live : sess[id].state = "CONNECTED"}

\* init, set_chunk_sizes, randomize_piece_order and mark_all_complete.  The
\* remote's BITFIELD is the one it was started with, so it is settled here.
InitFrom(resumed, bitfields, used) ==
    /\ \E order \in SetToSeqs(Chunks) :
           sched = mark_all_complete(
               [chunk_states |-> [c \in Chunks |-> "MISSING"],
                availability |-> [c \in Chunks |-> 0],
                active_chunks |-> order,
                sub_done |-> [c \in Chunks |-> {}],
                sub_req |-> [c \in Chunks |-> {}],
                sub_old |-> [c \in Chunks |-> {}],
                sub_req_count |-> [c \in Chunks |-> 0],
                peer_slots |-> <<>>,
                phase |-> "NORMAL",
                missing_count |-> NumChunks], resumed)
    /\ sess = [id \in Ids |-> [Closed EXCEPT !.bitfield = bitfields[id]]]
    /\ next_id = 0
    /\ source = [s \in Subs |-> NoPeer]
    /\ reported = {}
    /\ results = <<>>
    /\ faults = used

Init == InitFrom(Resumed, Bitfields, 0)

\* PeerManager::on_peer_connected -> on_peer_added.
PeerAdded ==
    /\ next_id < MaxConns
    /\ sched' = [sched EXCEPT !.peer_slots = Append(@, NewSlot(next_id))]
    /\ sess' = [sess EXCEPT ![next_id] = [NewSession EXCEPT !.bitfield = sess[next_id].bitfield]]
    /\ next_id' = next_id + 1
    /\ UNCHANGED <<source, reported, results, faults>>

\* handle_handshake -> on_handshake_done_ -> on_peer_speed.
HandshakeDone(id, speed) ==
    /\ id \in Live \ Connected
    /\ sched' = [sched EXCEPT !.peer_slots[IndexOf(id)].link_speed = speed]
    /\ sess' = [sess EXCEPT ![id].state = "CONNECTED"]
    /\ UNCHANGED <<next_id, source, reported, results, faults>>

\* handle_bitfield_msg -> on_bitfield: overwrites what HAVEs said before, and
\* the bits that fill the last byte count towards the size.
BitfieldMsg(id) ==
    LET i == IndexOf(id)
        bf == sess[id].bitfield
    IN  /\ id \in Connected
        /\ ~sess[id].bitfield_received
        /\ Become(rebalance_seed_requests_for_peer(
               [Here EXCEPT
                   !.sched.peer_slots[i].remote_bitfield = bf,
                   !.sched.peer_slots[i].bitfield_size = ((NumChunks + 7) \div 8) * 8,
                   !.sched.availability = [c \in Chunks |->
                       IF c \in bf THEN @[c] + 1 ELSE @[c]],
                   !.sess[id].bitfield_received = TRUE], i, 16))
        /\ UNCHANGED <<next_id, source, reported, results, faults>>

\* Slip: the bit is set and the chunk not counted.
MutantHaveMsg(id, c) ==
    /\ id \in Connected
    /\ c \notin sess[id].bitfield \union sess[id].haves
    /\ sched' = [sched EXCEPT !.peer_slots[IndexOf(id)].remote_bitfield = @ \union {c}]
    /\ sess' = [sess EXCEPT ![id].haves = @ \union {c}]
    /\ UNCHANGED <<next_id, source, reported, results, faults>>

\* handle_have_msg -> on_have.  A remote that connected to us may complete a
\* chunk, and send its HAVE, before its handshake ends and its BITFIELD goes.
HaveMsg(id, c) ==
    LET i == IndexOf(id)
    IN  /\ id \in Connected
        /\ c \notin sess[id].bitfield \union sess[id].haves
        /\ Become(rebalance_seed_requests_for_peer(
               [Here EXCEPT
                   !.sched.peer_slots[i].remote_bitfield = @ \union {c},
                   !.sched.availability[c] =
                       IF c \in sched.peer_slots[i].remote_bitfield THEN @ ELSE @ + 1,
                   !.sess[id].haves = @ \union {c}], i, 8))
        /\ UNCHANGED <<next_id, source, reported, results, faults>>

\* CHOKE and UNCHOKE -> on_choke_change.
ChokeMsg(id, choking) ==
    /\ id \in Connected
    /\ choking => faults < MaxFaults
    /\ faults' = faults + (IF choking THEN 1 ELSE 0)
    /\ sched' = [sched EXCEPT !.peer_slots[IndexOf(id)].am_choking = choking]
    /\ UNCHANGED <<sess, next_id, source, reported, results>>

\* Slip: the counter is taken down without looking at it.
MutantDecPeerPending(w, i, sub) ==
    [w EXCEPT !.sched.peer_slots[i].pending_requests = @ - 1,
              !.sched.sub_done[sub[1]] = @ \union {sub[2]}]

\* dec_peer_pending: nothing at all is recorded when no request is pending.
dec_peer_pending(w, i, sub) ==
    LET c == sub[1]
        k == sub[2]
        slot == w.sched.peer_slots[i]
        rest == ActiveAt(slot, c) \ {k}
        noted == [w EXCEPT
            !.sched.peer_slots[i].pending_requests = @ - 1,
            !.sched.sub_done[c] = @ \union {k},
            !.sched.peer_slots[i].active_sub_blocks =
                IF rest = {} THEN DropActive(slot, c) ELSE SetActive(slot, c, rest)]
    IN IF slot.pending_requests = 0 THEN w
       ELSE IF w.sched.phase = "DONE" THEN noted
       ELSE try_schedule_for_peer(noted, i)

\* handle_piece_msg: the timer stops, the data goes to the I/O threads, the
\* scheduler may ask this peer for more.
PieceMsg(id, sub) ==
    /\ id \in Connected
    /\ sess[id].asked[sub] > 0
    /\ source' = IF source[sub] = NoPeer THEN [source EXCEPT ![sub] = id] ELSE source
    /\ Become(dec_peer_pending(
           [Here EXCEPT !.sess[id].asked[sub] = @ - 1,
                        !.sess[id].pending_times = @ \ {sub},
                        !.sess[id].consecutive_timeouts = 0], IndexOf(id), sub))
    /\ UNCHANGED <<next_id, reported, results, faults>>

\* PeerSession::disconnect -> on_peer_disconnected -> on_peer_removed.
Disconnect(id) ==
    /\ id \in Live
    /\ faults < MaxFaults
    /\ faults' = faults + 1
    /\ Become(on_peer_removed(Here, IndexOf(id)))
    /\ UNCHANGED <<next_id, source, reported, results>>

NextCap(cap, timed_out, latency) ==
    IF timed_out = {} /\ latency = 0
    THEN Min({(cap * 3 + 1) \div 2, PipelineMax})
    ELSE Max({cap \div 2, PipelineMin})

\* do_eval_tick: a CANCEL and on_subblock_timeout for each request in late,
\* then either the connection is dropped or the slot gets the new figures.
EvalTick(id, late, latency) ==
    LET i == IndexOf(id)
        released == FoldLeft(on_subblock_timeout, Here, SetToSeq(late))
        timeouts == sess[id].consecutive_timeouts + Cardinality(late)
        cap == NextCap(sess[id].pipeline_cap, late, latency)
    IN  /\ id \in Connected
        /\ faults + Cardinality(late) <= MaxFaults
        /\ faults' = faults + Cardinality(late)
        /\ Become(IF timeouts >= TimeoutLimit THEN on_peer_removed(released, i)
                  ELSE [released EXCEPT
                           !.sess[id].pending_times = @ \ late,
                           !.sess[id].cancelled = @ \union late,
                           !.sess[id].consecutive_timeouts = timeouts,
                           !.sess[id].pipeline_cap = cap,
                           !.sched.peer_slots[i].pipeline_cap = cap,
                           !.sched.peer_slots[i].consecutive_timeouts = timeouts,
                           !.sched.peer_slots[i].rtt = latency])
        /\ UNCHANGED <<next_id, source, reported, results>>

\* Time passes: a request becomes older than the hunger threshold.  Only the
\* endgame looks at ages, so a request may as well age once it has begun.
Age(sub) ==
    /\ sched.phase = "ENDGAME"
    /\ sched.chunk_states[sub[1]] # "COMPLETE"
    /\ sub[2] \in sched.sub_req[sub[1]] \ (sched.sub_done[sub[1]] \union sched.sub_old[sub[1]])
    /\ sched' = [sched EXCEPT !.sub_old[sub[1]] = @ \union {sub[2]}]
    /\ UNCHANGED <<sess, next_id, source, reported, results, faults>>

\* Slip: a late copy of a sub-block makes the assembler report again.
MutantVerifyDone(c, passed) ==
    \E s \in SubsOf(c) :
        /\ Len(results) < NumChunks
        /\ \A t \in SubsOf(c) : source[t] # NoPeer
        /\ passed \/ faults < MaxFaults
        /\ reported' = reported \union {c}
        /\ results' = Append(results, [chunk |-> c, winning_peer |-> source[s],
                                       passed |-> passed])
        /\ faults' = faults + (IF passed THEN 0 ELSE 1)
        /\ UNCHANGED <<sched, sess, next_id, source>>

\* The assembler of c has all its sub-blocks; a SHA-256 thread publishes the
\* verdict.  The winner is the peer of the copy that was counted last.
VerifyDone(c, passed) ==
    \E s \in SubsOf(c) :
        /\ c \notin reported
        /\ \A t \in SubsOf(c) : source[t] # NoPeer
        /\ passed \/ faults < MaxFaults
        /\ reported' = reported \union {c}
        /\ results' = Append(results, [chunk |-> c, winning_peer |-> source[s],
                                       passed |-> passed])
        /\ faults' = faults + (IF passed THEN 0 ELSE 1)
        /\ UNCHANGED <<sched, sess, next_id, source>>

\* TaskManager::tick: the scheduler's tick, then the verdicts are drained:
\* each failure as it is met, all that passed at the end.
Tick ==
    LET ticked == Scheduler_tick(Here)
        failed == SelectSeq(results, LAMBDA r : ~r.passed)
        passed == SelectSeq(results, LAMBDA r : r.passed)
        rolled == FoldLeft(LAMBDA w, r : on_verify_failed(w, r.chunk), ticked, failed)
    IN  /\ Become(IF passed = <<>> THEN rolled ELSE process_completions(rolled, passed))
        /\ results' = <<>>
        /\ UNCHANGED <<next_id, source, reported, faults>>

Next ==
    \/ PeerAdded
    \/ \E id \in Ids, speed \in Speeds : HandshakeDone(id, speed)
    \/ \E id \in Ids : BitfieldMsg(id)
    \/ \E id \in Ids, c \in Chunks : HaveMsg(id, c)
    \/ \E id \in Ids, choking \in BOOLEAN : ChokeMsg(id, choking)
    \/ \E id \in Ids, s \in Subs : PieceMsg(id, s)
    \/ \E id \in Ids : Disconnect(id)
    \/ \E id \in Ids, latency \in Latencies :
           \E late \in SUBSET sess[id].pending_times : EvalTick(id, late, latency)
    \/ \E s \in Subs : Age(s)
    \/ \E c \in Chunks, passed \in BOOLEAN : VerifyDone(c, passed)
    \/ Tick

Spec == Init /\ [][Next]_vars

-----------------------------------------------------------------------------
(* Properties.                                                              *)

ChunkStates == {"MISSING", "DOWNLOADING", "COMPLETE"}
Incomplete == {c \in Chunks : sched.chunk_states[c] # "COMPLETE"}
Holders(c) == {i \in Slots : c \in sched.peer_slots[i].remote_bitfield}

\* The members keep their ranges: no unsigned counter of the class wraps, and
\* only requested sub-blocks can be old.
TypeOK ==
    /\ sched.chunk_states \in [Chunks -> ChunkStates]
    /\ sched.availability \in [Chunks -> Nat]
    /\ \A c \in Chunks :
          /\ sched.sub_done[c] \union sched.sub_req[c] \subseteq 0 .. SubBlocks[c] - 1
          /\ sched.sub_old[c] \subseteq sched.sub_req[c]
          /\ sched.sub_req_count[c] \in 0 .. SubBlocks[c]
    /\ sched.phase \in {"NORMAL", "ENDGAME", "DONE"}
    /\ sched.missing_count \in 0 .. NumChunks
    /\ \A i \in Slots :
          /\ sched.peer_slots[i].pending_requests \in Nat
          /\ DOMAIN sched.peer_slots[i].active_sub_blocks \subseteq Chunks
    /\ \A id \in Ids : sess[id].asked \in [Subs -> Nat]

\* active_chunks_ is the set of chunks that are not COMPLETE, each once,
\* after any mixture of swap-with-last removals and re-insertions.
ActiveListExact ==
    /\ ToSet(sched.active_chunks) = Incomplete
    /\ Len(sched.active_chunks) = Cardinality(Incomplete)

\* missing_count_ and phase_ follow the chunk states through resume,
\* completion and failed verification; DONE is declared exactly at the end.
PhaseExact ==
    /\ sched.missing_count = Cardinality(Incomplete)
    /\ sched.phase = "DONE" <=> Incomplete = {}

\* availability_ never falls below the number of connected holders, so the
\* decrements of on_peer_removed cannot wrap the unsigned counter.
AvailabilityCoversHolders ==
    \A c \in Chunks : sched.availability[c] >= Cardinality(Holders(c))

\* chunk_sub_req_count_ never exceeds the sub-blocks marked requested, so
\* try_schedule_for_peer never skips a chunk with a sub-block left to ask.
RequestCountNeverHides ==
    \A c \in Incomplete : sched.sub_req_count[c] <= Cardinality(sched.sub_req[c])

\* A sub-block marked requested is on its way to the disk or in the hands of
\* a connected peer with a running timer: when its PIECE never comes, the
\* timer or the disconnect releases it.  Otherwise it would never be asked
\* for again and the chunk would never complete.
RequestedHasOwner ==
    \A c \in Incomplete : \A k \in sched.sub_req[c] :
        \/ source[<<c, k>>] # NoPeer
        \/ \E i \in Slots :
              /\ k \in ActiveAt(sched.peer_slots[i], c)
              /\ <<c, k>> \in sess[sched.peer_slots[i].slot_id].pending_times

\* A chunk that is COMPLETE stays COMPLETE.
CompleteIsFinal ==
    [][\A c \in Chunks : sched.chunk_states[c] = "COMPLETE"
                              => sched'.chunk_states[c] = "COMPLETE"]_vars

\* A new request is for a chunk that is not COMPLETE and goes to a peer that
\* has advertised it.
RequestsWellAimed ==
    [][\A i \in 1 .. Len(sched'.peer_slots) :
          LET id == sched'.peer_slots[i].slot_id IN
          \A s \in Subs :
              s \in sess'[id].pending_times \ sess[id].pending_times
                  => /\ sched.chunk_states[s[1]] # "COMPLETE"
                     /\ s[1] \in sched'.peer_slots[i].remote_bitfield]_vars

=============================================================================
