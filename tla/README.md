# thinBT: TLA+ models and proofs

thinBT distributes large files in a LAN: one daemon seeds a file, the others
download it from the seed and from each other. This directory holds TLA+ models
of the daemon (`src/daemon`, `src/cdc`), the TLC instances that check them, and
TLAPS proofs about the part where threads share memory without locks, the two ends
of a connection, the mesh of daemons, the life of a task, the tracker, and the
layout of files.
Paths below are those of the repository.

## The system

| Part | Source | Module | Status |
|---|---|---|---|
| Chunk assembly: I/O threads, lock-free bitmap and counter | `chunk_assembler`, `io_worker` | `ChunkPipeline`, `TaskLife` (start, stop) | all |
| SHA-256 threads and their result queue | `verify_worker`, moodycamel queue (external) | `ChunkPipeline`, `TaskLife` (start, stop) | all but the growth of the queue |
| Scheduler: which sub-block is asked of which peer | `scheduler` | `Scheduler` | all |
| Peer session: handshake, write queue, choke, interest, requests | `peer_session` | `PeerSession` | all but sendfile; interest for a peer with every chunk |
| Peer manager: dialling, accepting, PEX (peer exchange) | `peer_manager` | `PeerManager` | all but the choke slot split |
| Task manager: adding, removing, ticking, announcing | `task_manager` | `TaskLife`, `TaskTracker`, `FileLayout`, `Scheduler` | no update in place |
| IPC server | `ipc_server` | `TaskLife` | all but the text |
| Tracker client and server | `tracker_client`, `tracker_server`, `tracker_acceptor` | `TaskTracker`, `PeerManager` | all but the text |
| FastCDC scan and memory-mapped segments | `cdc/fastcdc`, `segment_io` | `FileLayout` | Linux branch |
| File read pool | `file_read_pool` | `PeerSession`, `ChunkPipeline` | reads only |
| Seed files | `seed/*` | `FileLayout` | file size only |
| Main loop | `main.cpp` | `TaskLife`, `TaskTracker` | event loop, its exception, periods |
| Wire protocol, sendfile pool, CLI, hashing and OS utilities | `protocol`, `sendfile_pool`, `cli/*`, `common/*` | none | not modelled |

One thread, the asio event loop, owns `Scheduler`, `PeerSession`, `PeerManager`,
`TaskManager` and the tracker objects. A PIECE message goes from a session to
the I/O threads (`IOWorkerPool`), which copy it into the mapped file through the
chunk's `ChunkAssembler`. The thread that finishes a chunk hands it to the
SHA-256 threads (`VerifyWorkerPool`). Their verdicts come back through a queue
that `TaskManager::tick` drains every 100 ms. Both pools belong to a task: its
creation starts their threads, its destruction joins them. Uploads go from a session to a
`FileReadPool` thread and back.

## Modules

**ChunkPipeline** has one step per access to memory that two threads share:
`Dispatch`; the I/O thread's steps, from its queue through the `memcpy`, the
`fetch_or` (`IOMark`) and the `fetch_sub` (`IOCount`) to the report; the
SHA-256 thread's steps, where `enqueue` on the result queue is split into
reading the tail, writing the slot and publishing; and `Drain`, the part of
`TaskManager::tick` that applies the verdicts. Bytes are abstracted to right
and wrong. Sizes and offsets are kept, because `on_piece` compares them.
**ChunkCompletion** is the abstract specification of assembly: sub-blocks
get written, and a chunk is announced once, when all of it is written.

**Scheduler** keeps the members of `class Scheduler` as the fields of `sched`
and the request timers of the sessions in `sess`. Each action is one callback of
the event loop, with everything it calls: `Tick` is the whole of the scheduling
round (normal, rebalancing, endgame), `Disconnect` includes `on_peer_removed`.

**PeerSession** is both ends of a connection: the write queue with its single
`async_write`, handshake, flags, timers, `cancelled_set_`, the read pool, and the
reconnection that follows a disconnect. The scheduler behind it is reduced to
one chunk of `SubCount` sub-blocks, and the peer has it: `wants_peer` is then
whether the download is done, and the NOT_INTERESTED of `check_peer_interest` goes
out only after it. Both ends run `tick_choke`; `TickChoke` may choose either value
for the session, since how slots are shared between several sessions is not in the
model. A read that fails ends without a piece (`ReadFails`).
`EvalTick` takes the late requests as an ascending sequence, the order in which the
`std::map` of timers is walked and the CANCELs are queued. Several messages queued
in one handler are `send_all`, which states what that many calls of `send_message`
leave: the first goes to the socket if nothing is being written, the rest wait.

**PeerManager** is several daemons: `connect_to`, `do_accept`, the handshake
callbacks, full and incremental PEX, and the tracker's list. Of the messages it
keeps those that make or break connections. Address and listen port are one
node; a port learnt from an unfinished handshake is a wrong port. A link is one
dialled connection, and there may be several from one daemon to another: a dial
under way has no address yet and does not stop a second one. A list that names an
address and port twice is the set that names it once.

**TaskTracker** is one task, the chains of requests of its `TrackerClient`, and
the tracker's entry for one other daemon, with its age in periods of
`cleanup_stale` (6 s; 5 of them are the announce period, 15 are the 90 s).

**FileLayout** is the FastCDC scan, with the rolling hash matching wherever it
likes, and `cmd_add` and `cmd_update`: `SegmentWriter::open`, `get_chunk_base` for
each chunk, the resume scan of the one or the copies from an old file of the
other, then downloads, wrong pieces, crashes and restarts. A wrong piece
(`SpoilChunk`) lands in any chunk, a verified one too, as `on_piece` copies before
it looks at the bitmap.

**TaskLife** is the daemon around the tasks: the requests that clients send to
`IpcServer` (`Ask`), the handlers that create a task (`Start`, or `BindFails` when
the constructor of `PeerManager` throws) and remove it (`cmd_remove`), and the
event loop, which an exception of a retried announce may leave (`RetryThrows`,
`DestroyNext`, `Exit`). A handler is one action, except for the destruction of a
task: `~ActiveTask` destroys its members in the reverse of their declaration
and waits for threads on the way, so it is one step per member (`DestroyWriter`
to `IOJoin`), and the threads of the pools run in between. The loops of these
threads are reduced to what stopping them depends on: the `running_` flags, the
queues as numbers, the condition variable with its 1 ms timeout. A handler or
thread that uses a member that is already destroyed is undefined behaviour, which
either ends the process (`Fault`) or goes unnoticed. `seed_fd`, the descriptor that
`cmd_seed` opens, is a plain `int` that no destructor closes; it stays in `own` for
good.

Definitions called `Mutant...` (comment "Slip:") are wrong variants of the
definition that follows them. No specification uses them: each shows that a
property notices that slip.

## What TLC checks

Run one with `tlc -config <cfg> <module>`; names and properties are in
`PROJECT.json`.

| Config | Distinct states | Shows |
|---|---|---|
| `MCChunkPipeline_assembly` | 40,842 | counter exact, each chunk reported once and only when written, one writer per sub-block, implements `ChunkCompletion`, every chunk whose pieces fit is hashed, no verdict lost as long as enqueues do not overlap |
| `MCScheduler` | 423,367 | availability and request counters err only on the safe side, requests go to holders, every requested sub-block has an owner, active list and phase exact, COMPLETE is final |
| `MCPeerSession` | 297,738 | no stranded write, both ends agree on choke and interest, the download completes or starves behind requests that were given up |
| `MCPeerManager` | 107,314 | handshakes agree, the swarm becomes and stays a mesh |
| `MCTaskTracker` | 188,076 | tracker given up only when retries are used up, running peers stay listed, a task that is whole stays so, the download finishes |
| `MCFileLayout` | 56,914 | chunks tile the file, every chunk has the right address, a chunk is on disk when it is taken for complete, and only a wrong piece or another file takes it away |
| `MCTaskLife` | 124,798 | a failed start and a removal leave nothing behind but the descriptor of a seed, the process that leaves ends, every request is answered, every piece leaves its queue |

Five runs end in a violation, each of a statement that the repository makes:

- `MCChunkPipeline_two_producers`: `verify_worker.hpp` and `design.md` call the
  result queue single-producer. `start()` makes two to four SHA-256 threads and
  all of them enqueue. Two can take the same slot, and a verdict is lost. As long
  as no two are inside `enqueue` at once (`SerialEnqueueDelivers` in `_assembly`) none
  is.
- `MCChunkPipeline_verify_failure`: a chunk that fails SHA-256 is to be
  downloaded again automatically. It is requested again, but the assembler keeps
  its full bitmap and its counter at 0, so it is never verified again.
- `MCChunkPipeline_cut_chunk`: a chunk has any length from 1 byte to 1 MB. The
  scheduler asks for whole sub-blocks, so the last piece of a chunk inside the
  file is too long, and `on_piece` rejects it: the chunk never completes. Only at
  the end of the file does the read itself cut the piece.
- `MCTaskLife_remove`: repeated add and remove is to leave the daemon running.
  `cmd_remove` destroys the task at once, and the members go in an order in which
  the mapping is gone while the threads still write to it and hash it; accept,
  read and announce handlers come back to what is destroyed. In TLC's trace
  an I/O thread has a piece in hand when the file is unmapped.
- `MCTaskTracker_waiting`: the design calls a finished download `complete`, and
  `waiting` one that found no peer although the tracker answered. In the code a
  task becomes `waiting` when the tracker does not answer, with peers or without, and
  nothing takes it out of that state: it downloads the rest and stays `waiting`.
  Empty answers, which the design limits to 240, are polled for ever.

Four more disagreements have no run of their own. The models have the code's side of
each, and the properties say how far it goes:

- `on_piece` copies a late duplicate before it looks at the bitmap
  (`chunk_assembler.cpp:51`), where the design has it ignored (`design.md:605`):
  `CompleteIsOnDisk` and `RestartKeepsData` name `SpoilChunk` as an exception.
- A request timeout does not take `pending_requests` down
  (`peer_session.cpp:470`, against `design.md:799`): `CompletesOrStarves` names the
  end this can have, and TLC reaches it.
- `seed_fd` is never closed (`task_manager.hpp:85`), where the deployment test
  asks for a stable number of descriptors: `OnlyDescriptorsLeft`.
- With the tracker gone, PEX does not bring a lost connection back
  (`peer_manager.cpp:346`), where the design says that gossip maintains the topology
  (`design.md:854`) and that peers reconnect (`design.md:975`): `Meshed` holds from the
  gossip start only while no connection is lost. With one loss TLC finds a swarm
  that stays apart.

### Bounds

- *Pipeline*: two or three chunks of one or two sub-blocks, two I/O threads
  routed by `(chunk ^ slot) % 2`, so that the sub-blocks of one chunk fall to
  different threads, and two SHA-256 threads, the fewest that `start()` makes (one in
  `_verify_failure` and `_cut_chunk`, where a lost verdict would only blur the cause).
  `MaxQueue` = 1 piece waiting per thread besides the one in work, which is enough
  for a duplicate to follow its original. Wrong pieces (`MaxBad` = 1) are in
  `_verify_failure`. In `_assembly` the middle chunk is shorter than a sub-block, and
  its pieces are rejected; `WholeChunksHashed` speaks of the others. `RingSize` = 4 is
  more than the chunks, as the queue grows by itself. A ring slot that was never
  written holds a fixed value; only a lost race makes `Drain` read one.
- *Scheduler*: two chunks of one sub-block to fetch, two connections, and three
  starts (`MCInit`): a seed beside a partial peer, so that requests are moved
  between them, with one fault (timeout, choke, lost peer, failed chunk); two seeds
  with two faults; the same for a resumed download. `EndgameThreshold` = 2 lets
  one run pass from normal to endgame.
- *PeerSession*: two sub-blocks, `REQUEST_TIMEOUT_LIMIT` as in the code, one
  fault, one message of backlog at `tick_choke`. `PipelineCap` = 3 stands for
  `PIPELINE_MIN` = 8: three requests that were given up fill the pipeline, which one
  fault can bring about, since a cancelled sub-block is ignored for the rest of the
  connection. With 2 the drop after `REQUEST_TIMEOUT_LIMIT` is out of reach.
- *PeerManager*: two starts. Two daemons that announce, one of which can dial the
  other twice at a time, with one break, failed dial or broadcast into a handshake;
  or three that only PEX can introduce, with no more of these to come. `MaxPeers` = 3
  just holds the sessions. With `MaxPeers` = 2 `Meshed` does not hold without the
  tracker: two daemons with one place left each take it for their own dial and refuse
  the other's.
- *TaskTracker*: two chunks, two retries, three chains at a time, four
  faults, two lost announces in a row. The bound on lost announces is the claim's
  own limit: after three the entry is rightly dropped. Announces are exactly 30 s
  apart; in the code the heartbeat makes that a little more, and the truncation to
  whole seconds in `cleanup_stale` gives the slack. The exception of a synchronous
  resolve is in `TaskLife` only.
- *FileLayout*: 11 bytes, chunks of 2 to 3, segments of 4, three adds:
  chunks cross segment ends in every possible way.
- *TaskLife*: two tasks, so that a second start meets a port in use and a task
  follows a removed one; one client, since the event loop takes one request at a
  time; one thread per pool and `MaxQueue` = 1 piece or chunk waiting. `_remove`
  uses two SHA-256 threads; the safety properties are proved for any number.

Deadlock is checked except in `MCPeerManager`, `MCFileLayout` and `MCTaskLife`,
where everything may be over: a mesh with nothing left to tell, a file with no
restart left, a process that has ended.

### Fairness

Weak fairness is assumed of worker threads (the operating system runs them), of
socket events, and of what the 100 ms heartbeat in `main.cpp` calls (`tick`,
announces, `tick_choke`). Strong fairness is assumed of one action only, the
arrival of a right copy of a sub-block in `ChunkPipeline`: the scheduler asks
until it has it, and the I/O queue that the bound fills is emptied again and
again. In `PeerSession` an unchoking `tick_choke` recurs; that stands for the
optimistic slots, which are drawn at random. In `TaskLife` the threads, the
event loop's handling of a request that has arrived and the steps of a destructor
are weakly fair; clients ask when they like. Faults are never fair.

## What is proved

`ChunkPipelineProofs` proves, for every seed, any number of threads and any
routing of sub-blocks to threads:

| Theorem | States |
|---|---|
| `TypeCorrect` | `TypeOK`; `pending_count_` never passes below 0 |
| `CounterExact` | `pending_count_` is the number of sub-blocks not yet counted |
| `ReportedOnce` | a chunk is reported at most once |
| `ReportedIsWritten` | a reported chunk is written completely |
| `ImplementsCompletion` | the pipeline implements `ChunkCompletion` |
| `OneWriter` | no two I/O threads handle the same sub-block at a time |
| `SerialEnqueue` | `SerialEnqueueDelivers`: while no two SHA-256 threads enqueue at once, every verdict is drained exactly once |

None of these is inductive by itself. `Invariance` proves `IndInv`,
which adds: a marked sub-block, or one whose thread is past its `memcpy`, is
written (`MarkedIsWritten`); only the thread whose `fetch_or` set a bit is about
to decrement for it (`CounterOwned`); only the thread that took the counter to
zero is about to report, and the chunk is then not yet reported (`ReportOwned`).
The counter equals a cardinality, so the step of `fetch_sub` needs finite-set
facts: the sub-blocks still to be counted lose exactly one member (`CountStep`),
and when the last one goes every bit is set, hence every sub-block written. The
refinement maps `written` to the sub-blocks whose memory is not empty.
The assumptions are `ChunksAssumption` and `WorkersAssumption`, which TLC
evaluates in the runs of `MCChunkPipeline`. Of the routing the proof uses only
that it names an existing thread: the counter would be right even if copies of a
sub-block went to different threads. Per action there is one lemma (`EarlyStep`,
`MarkStep`, `CountStep`, `NotifyStep`), and a lemma per conjunct says when
the conjunct survives threads that only leave the steps it speaks of.

`OneWriter` is where the routing matters: every piece in a thread's queue or hands
is one that routing gives to that thread (`RoutedRight`). `SerialEnqueue` has what the
queue demands of its producers as a hypothesis about the run, not about the number of
threads; `MCChunkPipeline_two_producers` shows that it cannot be dropped. Its invariant
`ResultsInv` says that a reported chunk is in one place of the path (`OnePlace`:
one queue position, one thread, or published), that the slots from front to tail hold
the verdicts that are published and not drained, each once (`RingExact`), and that
the slot a producer has taken stays its own until it publishes (`SlotReserved`).

`TaskLifeProofs` proves, for any tasks, clients and I/O threads and any finite set
of SHA-256 threads (`TaskLifeAssumption`):

| Theorem | States |
|---|---|
| `TypeCorrect` | `TypeOK`; no queue passes below 0 |
| `OnlyDescriptorsAreLeft` | between two handlers a task is stored and whole, or nothing of it is left but the descriptor of a seed |

The property looks at finished states; in the middle of a destructor
nothing of the kind holds. `LifeInv` therefore says what has been destroyed at
each step of the event loop: every stored task is whole (`StoredIsWhole`), every
task that is neither stored nor being destroyed is gone and has no thread
(`OthersAreGone`, but for its `seed_fd`), and for the one being destroyed the step decides which members
exist, which pool has no thread left and who has the port (`HalfDestroyed`). Steps of
the threads keep this because none of them starts a thread or changes a member
(`QuietLife`); the joins are the only steps that use that all threads
have exited. Each handler and destructor step has a lemma.

`TaskTrackerProofs` proves, for any number of chunks, retries and chains, and for
periods with `(MaxLost + 1) * AnnounceEvery <= StaleAfter`
(`TrackerAssumption`, `PeriodsAssumption`):

| Theorem | States |
|---|---|
| `TypeCorrect` | `TypeOK`; `bytes_done` never passes the file size |
| `NeverDeadEarly` | the tracker is given up only with all retries used |
| `RunningIsListed` | a running daemon is listed at every moment |
| `WholeStaysWhole` | seeding and complete are final, and complete has every byte counted |

The invariant `TrackInv` adds that counted and uncounted bytes together fit in the
file (`Counted`), and that the entry of a running daemon is exactly as old as its
announces make it (`AgeExact`): `since + lost * AnnounceEvery`, which the
assumption keeps at or below `StaleAfter` (`NotYetStale`). `WholeStaysWhole` is an
action property.

`FileLayoutProofs` proves, for every file size, every `MinSize <= MaxSize <=
MaxChunkSize`, every segment size and every outcome of the rolling hash
(`LayoutAssumption`):

| Theorem | States |
|---|---|
| `TypeCorrect` | `TypeOK` |
| `ScanTiles` | the chunks cover the file without gap or overlap |
| `AllPlaced` | `get_chunk_base` refuses no chunk of the seed |
| `BasesAlwaysRight` | the bytes behind a base are mapped, and those of its chunk |
| `OnlyWhatIsOnDisk` | a chunk is on disk when it is taken for complete, and only a wrong piece of it takes it away |
| `DataSurvives` | restarts keep what was downloaded, and a wrong piece costs its own chunk at most |

`LayoutInv` states the scan by its ends: the chunks so far end at `offset_start`,
which is less than `MaxSize` behind `i`, and any two are in order (`ScanInv`,
`ChunkInv`). Of a base it says that it is the quotient and the remainder of the
chunk's offset by the segment size, and of a segment that it is mapped in full size
(`BaseInv`, `WriterInv`). The arithmetic is in `Placed`: a chunk starts
in its segment and is no longer than the guard region of `MaxChunkSize` bytes behind
it, so all of it is mapped. That one chunk's wrong pieces leave the others alone is
`ChunksDisjoint`.

`PeerManagerProofs` proves, for any finite set of daemons, any `MAX_PEERS`, any
number of dials at a time and any number of breaks and broadcasts (`ManagerAssumption`):

| Theorem | States |
|---|---|
| `TypeCorrect` | `TypeOK`; PEX lists name nodes, never a session without an address |
| `DialerWasAnswered` | a dialer past the handshake was answered (`HandshakeAgreed`) |

`HandshakeAgreed` needs to know what the dialer may find to read. `ManagerInv` adds,
per link (`LinkInv`): an acceptor that still waits for the handshake has put no
handshake on the wire, PEX broadcasts or not; nobody has accepted a dial that is
under way; and where a dial starts nothing of an earlier connection is left to read.

`PeerSessionProofs` proves, for any number of sub-blocks, any pipeline cap and any
limits on faults and backlog (`SessionAssumption`), across any number of breaks
and new connections:

| Theorem | States |
|---|---|
| `TypeCorrect` | `TypeOK`; at most one message is with the socket |
| `NoStranded` | a queued message has a write under way in front of it |
| `ChokeAgreed` | `ChokeAgreement`: once an end has read what is in flight, it knows whether the other chokes it |
| `InterestAgreed` | `InterestAgreement`: the same of U and D's interest |

The agreements speak of two CONNECTED ends, but the messages they depend on are
queued before that: an end may choke while the handshakes are on their way.
`SessionInv` therefore states them from the first message of a connection on
(`ChokeAgrees`, `InterestAgrees`), and says what a connection starts from:
a dead session keeps nothing, and an end that still dials is alone, has heard nothing
and finds empty wires (`Lives`). `Handshakes` says that each end sends one
handshake and that a CONNECTED end has read it; without it an end could be dropped, or
restart the agreement, half way through. The stream from one end to the other
(`InFlight`: wire, socket, queue) only grows at its end or loses its head, and a
lemma each says what a message read, a message sent and a message that decides
nothing do to the last message that decides (`SettlesRead`, `SettlesLast`,
`SettlesQuiet`). There is one lemma per action.

The assumptions are evaluated in the runs of `MCChunkPipeline`, `MCTaskLife`,
`MCTaskTracker`, `MCFileLayout`, `MCPeerManager` and `MCPeerSession`.

Only model-checked: all liveness (the prover does not handle fairness), and
`Scheduler`, whose handlers loop over chunks, peers and sub-blocks.

## Not modelled

Byte formats (`protocol`, `seed/*`), the sendfile path (off by default), the
split of choke slots over sessions, an update in place, the
signal and the caught exception that stop the heartbeat, the stop of
`FileReadPool`, the CLI, Windows branches. SHA-256 is a comparison
that never errs. Hazards that no property covers are listed with the reason in
`PROJECT.json`.

## Plan

1. `ChokeSlots`: `tick_choke` over several sessions (slot arithmetic, nobody
   starved), composed with `PeerSession`.
2. `Upload`: sendfile and read pool as two writers of one socket.
3. `Protocol`: message and seed encodings as operators with a round trip.
4. Proofs about `Scheduler`: the exact list and phase, the counters, the owner of
   every requested sub-block, with one invariance lemma for its loops.
