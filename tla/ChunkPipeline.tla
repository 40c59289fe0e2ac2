--------------------------- MODULE ChunkPipeline ---------------------------
(***************************************************************************)
(* The path of a downloaded sub-block from the network thread to a         *)
(* verified chunk: IOWorkerPool (dispatch, worker_loop), ChunkAssembler    *)
(* (on_piece, one step per atomic operation), VerifyWorkerPool (enqueue,   *)
(* worker_loop, result queue) and the part of TaskManager::tick that       *)
(* drains the results.  Every step below is one access to memory that      *)
(* another thread can see; what a thread does on its own data is folded    *)
(* into the neighbouring step.                                             *)
(*                                                                         *)
(* Data is abstracted to whether a sub-block holds the right bytes; sizes  *)
(* and offsets are kept, in any unit, because on_piece compares them.      *)
(***************************************************************************)
EXTENDS Integers, FiniteSets, Sequences

CONSTANTS
    NumChunks,      \* chunk_count of the seed
    ChunkSize,      \* [0..NumChunks-1 -> size], ChunkEntry::length
    ChunkOffset,    \* [0..NumChunks-1 -> offset], ChunkEntry::offset
    FileSize,       \* header.file_size
    SubBlockSize,   \* SUB_BLOCK_SIZE
    IOWorkers,      \* the I/O threads
    Worker(_, _),   \* the I/O thread that dispatch chooses for (chunk, slot)
    VerifyWorkers,  \* the SHA-256 threads
    RingSize,       \* slots of the result queue's block
    MaxQueue,       \* bound: pieces queued per I/O thread
    MaxBad          \* bound: pieces that arrive with wrong bytes

Chunks == 0 .. NumChunks - 1

\* total_slots_ of ChunkAssembler::init.
TotalSlots(c) == (ChunkSize[c] + SubBlockSize - 1) \div SubBlockSize

\* A sub-block is a pair <<chunk, slot>>.
SubsOf(c) == {c} \X (0 .. TotalSlots(c) - 1)
Subs == UNION {SubsOf(c) : c \in Chunks}

\* Slip: the sender does not stop at the end of the file.
MutantPieceLen(sub) == SubBlockSize

\* A request always asks for SUB_BLOCK_SIZE bytes; the remote pread stops
\* early only at the end of the file.
PieceLen(sub) ==
    LET begin == ChunkOffset[sub[1]] + sub[2] * SubBlockSize IN
    IF begin + SubBlockSize <= FileSize THEN SubBlockSize ELSE FileSize - begin

\* The bounds check of ChunkAssembler::on_piece.
Fits(sub) == sub[2] * SubBlockSize + PieceLen(sub) <= ChunkSize[sub[1]]

ASSUME ChunksAssumption ==
    /\ NumChunks \in Nat \ {0}
    /\ SubBlockSize \in Nat \ {0}
    /\ FileSize \in Nat
    /\ ChunkSize \in [Chunks -> Nat \ {0}]
    /\ ChunkOffset \in [Chunks -> Nat]
    /\ \A c \in Chunks : TotalSlots(c) \in Nat \ {0}
ASSUME WorkersAssumption ==
    /\ \A sub \in Subs : Worker(sub[1], sub[2]) \in IOWorkers
    /\ RingSize \in Nat \ {0}
    /\ MaxQueue \in Nat
    /\ MaxBad \in Nat

VARIABLES
    queue,          \* queues_[w]: PieceTasks waiting for I/O thread w
    io,             \* where each I/O thread is, and its PieceTask
    mem,            \* the mmap'd bytes of each sub-block
    completed_mask, \* sub-blocks whose bit is set in completed_mask_
    pending_count,  \* pending_count_ of each assembler
    task_queue,     \* VerifyWorkerPool::task_queue_, one sub-queue per producer
    vw,             \* where each SHA-256 thread is, and its VerifyTask
    ring,           \* storage of result_queue_
    ring_tail,      \* its tail index, written by the producers
    ring_front,     \* its front index, written by the main thread
    chunk_states,   \* Scheduler's verdict on each chunk
    missing_count,  \* Scheduler::missing_count_
    bad_count,      \* bound bookkeeping: wrong pieces so far
    announced,      \* history: how often a chunk went into task_queue_
    published,      \* history: chunks whose result was put in result_queue_
    delivered       \* history: how many results of a chunk were drained

assembly == <<mem, completed_mask, pending_count>>
results == <<ring, ring_tail, ring_front, published>>
verdicts == <<chunk_states, missing_count, delivered>>
vars == <<queue, io, assembly, task_queue, vw, results, verdicts,
          bad_count, announced>>

Piece == [sub : Subs, data : {"good", "bad"}]
NoPiece == [sub |-> <<0, 0>>, data |-> "good"]
IdleIO == [pc |-> "idle", piece |-> NoPiece]
IOThread == [pc : {"idle", "copy", "mark", "count", "notify"}, piece : Piece]
Result == [chunk : Chunks, passed : BOOLEAN]
VerifyThread == [pc : {"idle", "hash", "reserve", "construct", "publish"},
                 chunk : Chunks, pos : Nat, ok : BOOLEAN,
                 tail : 0 .. RingSize - 1]
IdleVW == [pc |-> "idle", chunk |-> 0, pos |-> 0, ok |-> TRUE, tail |-> 0]

\* Threads, queues and counters stay well formed: pending_count_ is unsigned
\* and fetch_sub never takes it below zero.
TypeOK ==
    /\ queue \in [IOWorkers -> Seq(Piece)]
    /\ io \in [IOWorkers -> IOThread]
    /\ mem \in [Subs -> {"none", "good", "bad"}]
    /\ completed_mask \subseteq Subs
    /\ pending_count \in [Chunks -> Nat]
    /\ task_queue \in [IOWorkers -> Seq(Chunks)]
    /\ vw \in [VerifyWorkers -> VerifyThread]
    /\ ring \in [0 .. RingSize - 1 -> Result]
    /\ ring_tail \in 0 .. RingSize - 1
    /\ ring_front \in 0 .. RingSize - 1
    /\ chunk_states \in [Chunks -> {"MISSING", "COMPLETE"}]
    /\ missing_count \in Int
    /\ bad_count \in 0 .. MaxBad
    /\ announced \in [Chunks -> Nat]
    /\ published \subseteq Chunks
    /\ delivered \in [Chunks -> Nat]

\* ChunkAssembler::init for every chunk, both pools started, nothing received.
Init ==
    /\ queue = [w \in IOWorkers |-> <<>>]
    /\ io = [w \in IOWorkers |-> IdleIO]
    /\ mem = [sub \in Subs |-> "none"]
    /\ completed_mask = {}
    /\ pending_count = [c \in Chunks |-> TotalSlots(c)]
    /\ task_queue = [w \in IOWorkers |-> <<>>]
    /\ vw = [v \in VerifyWorkers |-> IdleVW]
    /\ ring = [i \in 0 .. RingSize - 1 |-> [chunk |-> 0, passed |-> FALSE]]
    /\ ring_tail = 0
    /\ ring_front = 0
    /\ chunk_states = [c \in Chunks |-> "MISSING"]
    /\ missing_count = NumChunks
    /\ bad_count = 0
    /\ announced = [c \in Chunks |-> 0]
    /\ published = {}
    /\ delivered = [c \in Chunks |-> 0]

-----------------------------------------------------------------------------
(* The network thread: handle_piece_msg -> IOWorkerPool::dispatch.  A PIECE *)
(* may arrive for any sub-block at any time: a second copy after a timeout  *)
(* or from an endgame duplicate, or a copy of a chunk already complete.     *)

\* Slip: dispatch picks any thread instead of the one the sub-block hashes to.
MutantDispatch(sub, d) ==
    \E w \in IOWorkers :
        /\ Len(queue[w]) < MaxQueue
        /\ d = "bad" => bad_count < MaxBad
        /\ queue' = [queue EXCEPT ![w] = Append(@, [sub |-> sub, data |-> d])]
        /\ bad_count' = bad_count + (IF d = "bad" THEN 1 ELSE 0)
        /\ UNCHANGED <<io, assembly, task_queue, vw, results, verdicts, announced>>

Dispatch(sub, d) ==
    LET w == Worker(sub[1], sub[2]) IN
    /\ Len(queue[w]) < MaxQueue
    /\ d = "bad" => bad_count < MaxBad
    /\ queue' = [queue EXCEPT ![w] = Append(@, [sub |-> sub, data |-> d])]
    /\ bad_count' = bad_count + (IF d = "bad" THEN 1 ELSE 0)
    /\ UNCHANGED <<io, assembly, task_queue, vw, results, verdicts, announced>>

-----------------------------------------------------------------------------
(* An I/O thread: worker_loop around ChunkAssembler::on_piece.              *)

IODequeue(w) ==
    /\ io[w].pc = "idle"
    /\ queue[w] # <<>>
    /\ io' = [io EXCEPT ![w] = [pc |-> "copy", piece |-> Head(queue[w])]]
    /\ queue' = [queue EXCEPT ![w] = Tail(@)]
    /\ UNCHANGED <<assembly, task_queue, vw, results, verdicts, bad_count,
                   announced>>

\* The bounds check drops a piece that would cross the end of its chunk.
IOReject(w) ==
    /\ io[w].pc = "copy"
    /\ ~Fits(io[w].piece.sub)
    /\ io' = [io EXCEPT ![w] = IdleIO]
    /\ UNCHANGED <<queue, assembly, task_queue, vw, results, verdicts,
                   bad_count, announced>>

\* memcpy(base_ + begin, data, len), whatever the mask says.
IOCopy(w) ==
    /\ io[w].pc = "copy"
    /\ Fits(io[w].piece.sub)
    /\ mem' = [mem EXCEPT ![io[w].piece.sub] = io[w].piece.data]
    /\ io' = [io EXCEPT ![w] = [@ EXCEPT !.pc = "mark"]]
    /\ UNCHANGED <<queue, completed_mask, pending_count, task_queue, vw,
                   results, verdicts, bad_count, announced>>

\* Slip: the old value of the mask is not looked at.
MutantIOMark(w) ==
    /\ io[w].pc = "mark"
    /\ completed_mask' = completed_mask \union {io[w].piece.sub}
    /\ io' = [io EXCEPT ![w] = [@ EXCEPT !.pc = "count"]]
    /\ UNCHANGED <<queue, mem, pending_count, task_queue, vw, results,
                   verdicts, bad_count, announced>>

\* fetch_or: the thread that sets the bit goes on to decrement the counter.
IOMark(w) ==
    /\ io[w].pc = "mark"
    /\ completed_mask' = completed_mask \union {io[w].piece.sub}
    /\ io' = [io EXCEPT ![w] = IF io[w].piece.sub \in completed_mask
                               THEN IdleIO ELSE [@ EXCEPT !.pc = "count"]]
    /\ UNCHANGED <<queue, mem, pending_count, task_queue, vw, results,
                   verdicts, bad_count, announced>>

\* Slip: the value after the decrement is compared with 1 as well.
MutantIOCount(w) ==
    LET c == io[w].piece.sub[1] IN
    /\ io[w].pc = "count"
    /\ pending_count' = [pending_count EXCEPT ![c] = @ - 1]
    /\ io' = [io EXCEPT ![w] = IF pending_count[c] \in {1, 2}
                               THEN [@ EXCEPT !.pc = "notify"] ELSE IdleIO]
    /\ UNCHANGED <<queue, mem, completed_mask, task_queue, vw, results,
                   verdicts, bad_count, announced>>

\* fetch_sub: the thread that takes the counter from 1 to 0 reports the chunk.
IOCount(w) ==
    LET c == io[w].piece.sub[1] IN
    /\ io[w].pc = "count"
    /\ pending_count' = [pending_count EXCEPT ![c] = @ - 1]
    /\ io' = [io EXCEPT ![w] = IF pending_count[c] = 1
                               THEN [@ EXCEPT !.pc = "notify"] ELSE IdleIO]
    /\ UNCHANGED <<queue, mem, completed_mask, task_queue, vw, results,
                   verdicts, bad_count, announced>>

\* on_complete_ -> VerifyWorkerPool::enqueue.
IONotify(w) ==
    LET c == io[w].piece.sub[1] IN
    /\ io[w].pc = "notify"
    /\ task_queue' = [task_queue EXCEPT ![w] = Append(@, c)]
    /\ announced' = [announced EXCEPT ![c] = @ + 1]
    /\ io' = [io EXCEPT ![w] = IdleIO]
    /\ UNCHANGED <<queue, assembly, vw, results, verdicts, bad_count>>

IOStep(w) ==
    \/ IODequeue(w) \/ IOReject(w) \/ IOCopy(w)
    \/ IOMark(w) \/ IOCount(w) \/ IONotify(w)

-----------------------------------------------------------------------------
(* A SHA-256 thread: VerifyWorkerPool::worker_loop.  ConcurrentQueue keeps  *)
(* the order of each producer and none between producers.                   *)

VDequeue(v) ==
    \E w \in IOWorkers :
        /\ vw[v].pc = "idle"
        /\ task_queue[w] # <<>>
        /\ vw' = [vw EXCEPT ![v] = [IdleVW EXCEPT !.pc = "hash",
                                                  !.chunk = Head(task_queue[w])]]
        /\ task_queue' = [task_queue EXCEPT ![w] = Tail(@)]
        /\ UNCHANGED <<queue, io, assembly, results, verdicts, bad_count,
                       announced>>

\* sha256 reads the chunk front to back while I/O threads may still write it.
VHash(v) ==
    LET sub == <<vw[v].chunk, vw[v].pos>> IN
    /\ vw[v].pc = "hash"
    /\ vw' = [vw EXCEPT ![v] = [@ EXCEPT
                  !.ok = vw[v].ok /\ mem[sub] = "good",
                  !.pos = vw[v].pos + 1,
                  !.pc = IF vw[v].pos + 1 = TotalSlots(vw[v].chunk)
                         THEN "reserve" ELSE "hash"]]
    /\ UNCHANGED <<queue, io, assembly, task_queue, results, verdicts,
                   bad_count, announced>>

\* Slip: the next tail index is stored before the element is constructed.
MutantVReserve(v) ==
    /\ vw[v].pc = "reserve"
    /\ (ring_tail + 1) % RingSize # ring_front
    /\ ring_tail' = (ring_tail + 1) % RingSize
    /\ vw' = [vw EXCEPT ![v] = [@ EXCEPT !.tail = ring_tail, !.pc = "construct"]]
    /\ UNCHANGED <<queue, io, assembly, task_queue, ring, ring_front, published,
                   verdicts, bad_count, announced>>

\* ReaderWriterQueue::inner_enqueue in three steps: read the tail index,
\* construct the element there, store the next tail index.  The queue is made
\* for one producer; nothing keeps two SHA-256 threads from overlapping here.
VReserve(v) ==
    /\ vw[v].pc = "reserve"
    /\ (ring_tail + 1) % RingSize # ring_front
    /\ vw' = [vw EXCEPT ![v] = [@ EXCEPT !.tail = ring_tail, !.pc = "construct"]]
    /\ UNCHANGED <<queue, io, assembly, task_queue, results, verdicts,
                   bad_count, announced>>

VConstruct(v) ==
    /\ vw[v].pc = "construct"
    /\ ring' = [ring EXCEPT ![vw[v].tail] = [chunk |-> vw[v].chunk,
                                             passed |-> vw[v].ok]]
    /\ vw' = [vw EXCEPT ![v] = [@ EXCEPT !.pc = "publish"]]
    /\ UNCHANGED <<queue, io, assembly, task_queue, ring_tail, ring_front,
                   published, verdicts, bad_count, announced>>

VPublish(v) ==
    /\ vw[v].pc = "publish"
    /\ ring_tail' = (vw[v].tail + 1) % RingSize
    /\ published' = published \union {vw[v].chunk}
    /\ vw' = [vw EXCEPT ![v] = IdleVW]
    /\ UNCHANGED <<queue, io, assembly, task_queue, ring, ring_front, verdicts,
                   bad_count, announced>>

VStep(v) ==
    \/ VDequeue(v) \/ VHash(v) \/ VReserve(v) \/ VConstruct(v) \/ VPublish(v)

-----------------------------------------------------------------------------
(* The main thread: TaskManager::tick drains the result queue, reports each *)
(* failure to on_verify_failed and hands the rest to process_completions.   *)
(* Neither of them touches the ChunkAssembler.                              *)

RingIndices ==
    {(ring_front + i) % RingSize : i \in 0 .. ((ring_tail - ring_front) % RingSize) - 1}

Drain ==
    LET Passed == {i \in RingIndices : ring[i].passed}
        Failed == RingIndices \ Passed
        ChunksOf(I) == {ring[i].chunk : i \in I} IN
    /\ RingIndices # {}
    /\ ring_front' = ring_tail
    /\ chunk_states' = [c \in Chunks |->
           IF c \in ChunksOf(Passed) THEN "COMPLETE"
           ELSE IF c \in ChunksOf(Failed) THEN "MISSING"
           ELSE chunk_states[c]]
    /\ missing_count' = missing_count - Cardinality(Passed)
    /\ delivered' = [c \in Chunks |->
           delivered[c] + Cardinality({i \in RingIndices : ring[i].chunk = c})]
    /\ UNCHANGED <<queue, io, assembly, task_queue, vw, ring, ring_tail,
                   published, bad_count, announced>>

-----------------------------------------------------------------------------
Next ==
    \/ \E sub \in Subs, d \in {"good", "bad"} : Dispatch(sub, d)
    \/ \E w \in IOWorkers : IOStep(w)
    \/ \E v \in VerifyWorkers : VStep(v)
    \/ Drain

Spec == Init /\ [][Next]_vars

\* The worker threads are scheduled by the operating system, tick runs on a
\* 100 ms timer, and the scheduler requests a sub-block again and again until
\* a peer has delivered it.
Fairness ==
    /\ \A w \in IOWorkers : WF_vars(IOStep(w))
    /\ \A v \in VerifyWorkers : WF_vars(VStep(v))
    /\ WF_vars(Drain)
    /\ \A sub \in Subs : SF_vars(Dispatch(sub, "good"))

FairSpec == Spec /\ Fairness

-----------------------------------------------------------------------------
(* Properties.                                                              *)

\* The sub-blocks of c whose decrement of pending_count_ is still to come:
\* the bit is not set, or the thread that set it has not decremented yet.
OpenSubs(c) ==
    {sub \in SubsOf(c) :
        \/ sub \notin completed_mask
        \/ \E w \in IOWorkers : io[w].pc = "count" /\ io[w].piece.sub = sub}

\* pending_count_ never drifts from the mask, whatever duplicates arrive and
\* whichever thread is between its fetch_or and its fetch_sub.
PendingCountExact ==
    \A c \in Chunks : pending_count[c] = Cardinality(OpenSubs(c))

\* on_piece returns true at most once for a chunk, however its sub-blocks
\* are duplicated and the I/O threads interleave (fetch_or gates fetch_sub):
\* a chunk is in one thread's hands or was announced, never both or twice.
AnnouncedOnce ==
    \A c \in Chunks :
        announced[c] + Cardinality({w \in IOWorkers : io[w].pc = "notify"
                                                   /\ io[w].piece.sub[1] = c}) <= 1

\* When a chunk goes to the SHA-256 threads, each of its sub-blocks has been
\* written by a memcpy: no thread can finish the count while another one
\* still has to copy.
AnnouncedIsWritten ==
    \A c \in Chunks :
        announced[c] > 0 => \A sub \in SubsOf(c) : mem[sub] # "none"

\* Two I/O threads are never inside on_piece for the same sub-block, because
\* dispatch sends all copies of a sub-block to one thread: two memcpys to the
\* same bytes cannot overlap.
OneWriterPerSubBlock ==
    \A w1, w2 \in IOWorkers :
        /\ io[w1].pc # "idle"
        /\ io[w2].pc # "idle"
        /\ io[w1].piece.sub = io[w2].piece.sub
        => w1 = w2

\* Every result that a SHA-256 thread has put in result_queue_ is there to be
\* drained or was drained once: none is lost, none is seen twice.
ResultsExactlyOnce ==
    \A c \in Chunks :
        Cardinality({i \in RingIndices : ring[i].chunk = c}) + delivered[c]
            = IF c \in published THEN 1 ELSE 0

\* No two SHA-256 threads are inside inner_enqueue at once, which is what
\* ReaderWriterQueue asks of its producers and verify_worker.cpp does not
\* arrange.
EnqueueAlone ==
    \A v1, v2 \in VerifyWorkers :
        /\ vw[v1].pc \in {"construct", "publish"}
        /\ vw[v2].pc \in {"construct", "publish"}
        => v1 = v2

\* The overlap of two enqueues is the only way to lose a result: as long as
\* the SHA-256 threads, however many hash at once, happen to enqueue one after
\* the other, tick drains every result of worker_loop exactly once.
SerialEnqueueDelivers == []EnqueueAlone => []ResultsExactlyOnce

\* A chunk that ends on a boundary of its sub-blocks or at the end of the file.
EndsWhole(c) ==
    \/ ChunkSize[c] % SubBlockSize = 0
    \/ ChunkOffset[c] + ChunkSize[c] = FileSize

\* Such a chunk is assembled, hashed and enqueued, whatever happens to the
\* pieces of the chunks that on_piece rejects and however the I/O and SHA-256
\* threads share the work.
WholeChunksHashed ==
    \A c \in Chunks : EndsWhole(c) => <>(c \in published)

\* A chunk that failed SHA-256 is downloaded again and becomes COMPLETE.
FailedChunkRecovers ==
    \A c \in Chunks :
        (delivered[c] > 0 /\ chunk_states[c] = "MISSING")
            ~> (chunk_states[c] = "COMPLETE")

\* Once every sub-block can be had from a peer, every chunk becomes COMPLETE.
EveryChunkCompletes ==
    \A c \in Chunks : <>(chunk_states[c] = "COMPLETE")

\* The assemblers and the I/O threads together implement the promise of
\* ChunkCompletion: bytes reach the chunk only by a memcpy of one of its
\* sub-blocks, and the chunk is announced once, when all of them are there.
Completion ==
    INSTANCE ChunkCompletion
        WITH written <- {sub \in Subs : mem[sub] # "none"}

CompletionSpec == Completion!Spec
=============================================================================
