------------------------------ MODULE TaskLife ------------------------------
(***************************************************************************)
(* How a task comes and goes: the commands of the IPC server, the map of   *)
(* tasks in TaskManager, the construction and destruction of an ActiveTask *)
(* with its two thread pools, and the event loop of main.                  *)
(*                                                                         *)
(* The event loop runs one handler at a time.  A handler is one action,    *)
(* except where it destroys a task: destroying a pool waits for its        *)
(* threads, so the destructor is a sequence of steps (`loop') and the      *)
(* threads run in between.                                                 *)
(*                                                                         *)
(* Handlers and threads reach the parts of a task through plain pointers.  *)
(* One that uses a part after its destruction is undefined behaviour: the  *)
(* process dies, or goes on as if the part were still there.               *)
(***************************************************************************)
EXTENDS Integers, FiniteSets

CONSTANTS
    Tasks,          \* bound: the tasks created in a run
    Clients,        \* users of tbt, each with one request at a time
    IOWorkers,      \* the threads of an IOWorkerPool
    VerifyWorkers,  \* the threads of a VerifyWorkerPool
    MaxQueue,       \* bound: pieces, and chunks to verify, waiting in a queue
    None            \* no task, no client

ASSUME TaskLifeAssumption ==
    /\ IsFiniteSet(VerifyWorkers)
    /\ MaxQueue \in Nat \ {0}
    /\ None \notin Tasks \union Clients

\* The parts of an ActiveTask that handlers and threads point to, and the
\* descriptor of the file a seed uploads from.
Members == {"writer", "seed_fd", "peer_mgr", "scheduler", "verify_pool", "io_pool",
            "assemblers", "seed"}

\* What asio may still have to call back for a destroyed task: the accept of
\* its PeerManager, the announce chain of its TrackerClient, the read of a
\* session that had completed.
Callbacks == {"accept", "announce", "read"}

VARIABLES
    daemon,     \* the process: running, leaving main, ended, killed by a fault
    client,     \* what each client has asked, or the status it was answered
    tasks,      \* TaskManager::tasks_
    kind,       \* what each task was created for
    own,        \* the parts of it that exist
    late,       \* the Callbacks to come after its PeerManager is gone
    pool,       \* the flags and queues of its two pools
    io,         \* its I/O threads
    vf,         \* its SHA-256 threads
    port,       \* the task whose PeerManager listens on p2p_port_
    loop        \* what the event loop is executing

objects == <<kind, own, late>>
threads == <<io, vf>>
vars == <<daemon, client, tasks, objects, pool, threads, port, loop>>

NewPool == [io_running |-> TRUE, vf_running |-> TRUE,
            pieces |-> [w \in IOWorkers |-> 0], chunks |-> 0, poison |-> 0]

IdleLoop == [pc |-> "idle", task |-> None, client |-> None, answer |-> "ok"]
Commands == {"seed", "add", "query", "remove"}
Answers == {"ok", "error"}
Alive == daemon \in {"run", "leaving"}
\* The event loop can take the next handler.
Free == daemon = "run" /\ loop.pc = "idle"

Init ==
    /\ daemon = "run"
    /\ client = [c \in Clients |-> "ok"]
    /\ tasks = {}
    /\ kind = [t \in Tasks |-> "none"]
    /\ own = [t \in Tasks |-> {}]
    /\ late = [t \in Tasks |-> {}]
    /\ pool = [t \in Tasks |-> NewPool]
    /\ io = [t \in Tasks |-> [w \in IOWorkers |-> "none"]]
    /\ vf = [t \in Tasks |-> [v \in VerifyWorkers |-> "none"]]
    /\ port = None
    /\ loop = IdleLoop

-----------------------------------------------------------------------------
(* Commands.                                                                *)

\* A client connects and sends its next request.
Ask(c, cmd) ==
    /\ Alive
    /\ client[c] \notin Commands
    /\ client' = [client EXCEPT ![c] = cmd]
    /\ UNCHANGED <<daemon, tasks, objects, pool, threads, port, loop>>

Answer(c, status) == client' = [client EXCEPT ![c] = status]

\* The seed file cannot be read, or the data file not opened or mapped: no
\* thread has been started yet.
StartRefused(c) ==
    /\ Free
    /\ client[c] \in {"seed", "add"}
    /\ Answer(c, "error")
    /\ UNCHANGED <<daemon, tasks, objects, pool, threads, port, loop>>

\* gen_task_id: which of the unused names is taken does not matter.
NewTask == CHOOSE t \in Tasks : kind[t] = "none"

\* verify_pool->start and io_pool->start.
PoolsStarted(t, cmd, parts) ==
    /\ kind[t] = "none"
    /\ t = NewTask
    /\ kind' = [kind EXCEPT ![t] = cmd]
    /\ own' = [own EXCEPT ![t] = parts]
    /\ pool' = [pool EXCEPT ![t] = NewPool]
    /\ io' = [io EXCEPT ![t] = [w \in IOWorkers |-> "check"]]
    /\ vf' = [vf EXCEPT ![t] = [v \in VerifyWorkers |-> "check"]]

\* A task that seeds has a descriptor and no SegmentWriter; a download has its
\* descriptor in the SegmentWriter.
PartsOf(cmd) == IF cmd = "seed" THEN Members \ {"writer"} ELSE Members \ {"seed_fd"}

\* Slip: what was built before the bind failed is not destroyed.
MutantBindFails(c, t) ==
    /\ Free
    /\ client[c] \in {"seed", "add"}
    /\ port # None
    /\ PoolsStarted(t, client[c], PartsOf(client[c]) \ {"peer_mgr"})
    /\ Answer(c, "error")
    /\ UNCHANGED <<daemon, tasks, late, port, loop>>

\* Another task listens on p2p_port_: the constructor of PeerManager throws,
\* and the task, its threads already running, is destroyed on the way out.
BindFails(c, t) ==
    /\ Free
    /\ client[c] \in {"seed", "add"}
    /\ port # None
    /\ PoolsStarted(t, client[c], PartsOf(client[c]) \ {"peer_mgr"})
    /\ loop' = [pc |-> "writer", task |-> t, client |-> c, answer |-> "error"]
    /\ UNCHANGED <<daemon, client, tasks, late, port>>

\* cmd_seed, cmd_add, cmd_update to the end.  announce_task_now comes after
\* the task is stored: when the tracker's name cannot be resolved the client
\* is told of an error, and the task stays.
Start(c, t, resolved) ==
    /\ Free
    /\ client[c] \in {"seed", "add"}
    /\ port = None
    /\ PoolsStarted(t, client[c], PartsOf(client[c]))
    /\ port' = t
    /\ tasks' = tasks \union {t}
    /\ Answer(c, IF resolved THEN "ok" ELSE "error")
    /\ UNCHANGED <<daemon, late, loop>>

\* cmd_list, cmd_peers, the status form of update, an unknown command.
Query(c, status) ==
    /\ Free
    /\ client[c] = "query"
    /\ Answer(c, status)
    /\ UNCHANGED <<daemon, tasks, objects, pool, threads, port, loop>>

\* cmd_remove: the task leaves tasks_ and is destroyed before the answer.
cmd_remove(c, t) ==
    /\ Free
    /\ client[c] = "remove"
    /\ t \in tasks
    /\ tasks' = tasks \ {t}
    /\ loop' = [pc |-> "writer", task |-> t, client |-> c, answer |-> "ok"]
    /\ UNCHANGED <<daemon, client, objects, pool, threads, port>>

RemoveUnknown(c) ==
    /\ Free
    /\ client[c] = "remove"
    /\ Answer(c, "error")
    /\ UNCHANGED <<daemon, tasks, objects, pool, threads, port, loop>>

-----------------------------------------------------------------------------
(* ~ActiveTask: the members go in the reverse of their order.               *)

Destroying(step) == Alive /\ loop.pc = step
Then(step) == loop' = [loop EXCEPT !.pc = step]
Drop(t, parts) == own' = [own EXCEPT ![t] = @ \ parts]

\* ~SegmentWriter unmaps the file.
DestroyWriter ==
    LET t == loop.task IN
    /\ Destroying("writer")
    /\ Drop(t, {"writer"})
    /\ Then("peer_mgr")
    /\ UNCHANGED <<daemon, client, tasks, kind, late, pool, threads, port>>

\* ~PeerManager disconnects the sessions and closes the acceptor; then
\* ~Scheduler.  The accept is called back with an error later; an announce
\* chain goes on, and a read that had completed is called back as a success.
DestroyPeerManager(pending) ==
    LET t == loop.task IN
    /\ Destroying("peer_mgr")
    /\ late' = [late EXCEPT ![t] =
           IF "peer_mgr" \in own[t] THEN pending \union {"accept"} ELSE {}]
    /\ Drop(t, {"peer_mgr", "scheduler"})
    /\ port' = IF port = t THEN None ELSE port
    /\ Then("verify_stop")
    /\ UNCHANGED <<daemon, client, tasks, kind, pool, threads>>

\* Slip: the poison tasks are trusted alone, and one is missing.
MutantVerifyStop ==
    LET t == loop.task IN
    /\ Destroying("verify_stop")
    /\ pool' = [pool EXCEPT ![t].poison = Cardinality(VerifyWorkers) - 1]
    /\ Then("verify_join")
    /\ UNCHANGED <<daemon, client, tasks, objects, threads, port>>

\* VerifyWorkerPool::stop: the flag, a poison task for every thread, join.
VerifyStop ==
    LET t == loop.task IN
    /\ Destroying("verify_stop")
    /\ pool' = [pool EXCEPT ![t].vf_running = FALSE,
                            ![t].poison = Cardinality(VerifyWorkers)]
    /\ Then("verify_join")
    /\ UNCHANGED <<daemon, client, tasks, objects, threads, port>>

VerifyJoin ==
    LET t == loop.task IN
    /\ Destroying("verify_join")
    /\ \A v \in VerifyWorkers : vf[t][v] = "exited"
    /\ Drop(t, {"verify_pool"})
    /\ pool' = [pool EXCEPT ![t].chunks = 0, ![t].poison = 0]
    /\ Then("io_stop")
    /\ UNCHANGED <<daemon, client, tasks, kind, late, threads, port>>

\* The threads of t that wait on their condition variable, woken.
Woken(t, W) == [w \in IOWorkers |->
    IF w \in W /\ io[t][w] = "wait" THEN "check" ELSE io[t][w]]

\* Slip: the threads are woken, and find the flag still set.
MutantIOStop ==
    LET t == loop.task IN
    /\ Destroying("io_stop")
    /\ io' = [io EXCEPT ![t] = Woken(t, IOWorkers)]
    /\ Then("io_join")
    /\ UNCHANGED <<daemon, client, tasks, objects, pool, vf, port>>

\* IOWorkerPool::stop: the flag, notify_all, join.  Neither the flag nor the
\* notification is under the mutex.
IOStop ==
    LET t == loop.task IN
    /\ Destroying("io_stop")
    /\ pool' = [pool EXCEPT ![t].io_running = FALSE]
    /\ io' = [io EXCEPT ![t] = Woken(t, IOWorkers)]
    /\ Then("io_join")
    /\ UNCHANGED <<daemon, client, tasks, objects, vf, port>>

\* After the join the queues go with what is still in them, then the
\* assemblers and the seed; the handler answers its client.  seed_fd is an int
\* that no destructor closes.
IOJoin ==
    LET t == loop.task IN
    /\ Destroying("io_join")
    /\ \A w \in IOWorkers : io[t][w] = "exited"
    /\ Drop(t, Members \ {"seed_fd"})
    /\ kind' = [kind EXCEPT ![t] = "gone"]
    /\ pool' = [pool EXCEPT ![t] = NewPool]
    /\ loop' = IdleLoop
    /\ client' = [c \in Clients |-> IF c = loop.client THEN loop.answer ELSE client[c]]
    /\ UNCHANGED <<daemon, tasks, late, threads, port>>

-----------------------------------------------------------------------------
(* The threads.                                                             *)

\* The operating system takes back all that the process had.
ProcessGone ==
    /\ tasks' = {}
    /\ kind' = [t \in Tasks |-> "none"]
    /\ own' = [t \in Tasks |-> {}]
    /\ late' = [t \in Tasks |-> {}]
    /\ pool' = [t \in Tasks |-> NewPool]
    /\ io' = [t \in Tasks |-> [w \in IOWorkers |-> "none"]]
    /\ vf' = [t \in Tasks |-> [v \in VerifyWorkers |-> "none"]]
    /\ port' = None
    /\ loop' = IdleLoop
    /\ UNCHANGED client

Fault(t, part) ==
    /\ part \notin own[t]
    /\ daemon' = "crashed"
    /\ ProcessGone

IOGoto(t, w, pc) == io' = [io EXCEPT ![t][w] = pc]
KeepButIO == UNCHANGED <<daemon, client, tasks, objects, vf, port, loop>>

\* IOWorkerPool::worker_loop.  "drained" is "drain" after at least one piece.
IOCheck(t, w) ==
    /\ Alive
    /\ io[t][w] = "check"
    /\ IOGoto(t, w, IF pool[t].io_running THEN "drain" ELSE "exited")
    /\ UNCHANGED pool /\ KeepButIO

IODequeue(t, w) ==
    /\ Alive
    /\ io[t][w] \in {"drain", "drained"}
    /\ IF pool[t].pieces[w] > 0
       THEN /\ pool' = [pool EXCEPT ![t].pieces[w] = @ - 1]
            /\ IOGoto(t, w, "copy")
       ELSE /\ IOGoto(t, w, IF io[t][w] = "drain" THEN "lock" ELSE "check")
            /\ UNCHANGED pool
    /\ KeepButIO

\* on_piece copies into the mapping; it may have completed a chunk.
IOCopy(t, w, complete) ==
    /\ Alive
    /\ io[t][w] = "copy"
    /\ \/ Fault(t, "writer")
       \/ /\ IOGoto(t, w, IF complete THEN "report" ELSE "drained")
          /\ UNCHANGED pool /\ KeepButIO

\* on_complete_: VerifyWorkerPool::enqueue.
IOReport(t, w) ==
    /\ Alive
    /\ io[t][w] = "report"
    /\ \/ Fault(t, "verify_pool")
       \/ /\ pool[t].chunks < MaxQueue
          /\ pool' = [pool EXCEPT ![t].chunks =
                         IF "verify_pool" \in own[t] THEN @ + 1 ELSE @]
          /\ IOGoto(t, w, "drained")
          /\ KeepButIO

\* The queue was empty: lock the mutex and wait.  A notification that came
\* since the last try_dequeue is lost.
IOWait(t, w) ==
    /\ Alive
    /\ io[t][w] = "lock"
    /\ IOGoto(t, w, "wait")
    /\ UNCHANGED pool /\ KeepButIO

\* Slip: the thread waits for a notification and nothing else.
MutantIOTimeout(t, w) == FALSE /\ UNCHANGED vars

\* wait_for gives up after 1 ms.
IOTimeout(t, w) ==
    /\ Alive
    /\ io[t][w] = "wait"
    /\ IOGoto(t, w, "check")
    /\ UNCHANGED pool /\ KeepButIO

VGoto(t, v, pc) == vf' = [vf EXCEPT ![t][v] = pc]
KeepButVF == UNCHANGED <<daemon, client, tasks, objects, io, port, loop>>

\* VerifyWorkerPool::worker_loop polls; the queue is not a FIFO between
\* producers, so a poison task may overtake a chunk.
VCheck(t, v) ==
    /\ Alive
    /\ vf[t][v] = "check"
    /\ VGoto(t, v, IF pool[t].vf_running THEN "poll" ELSE "exited")
    /\ UNCHANGED pool /\ KeepButVF

\* Slip: the result of try_dequeue is not looked at.
MutantVDequeue(t, v) ==
    /\ Alive
    /\ vf[t][v] = "poll"
    /\ pool' = [pool EXCEPT ![t].chunks = @ - 1]
    /\ VGoto(t, v, "hash")
    /\ KeepButVF

VDequeue(t, v) ==
    /\ Alive
    /\ vf[t][v] = "poll"
    /\ \/ /\ pool[t].chunks > 0
          /\ pool' = [pool EXCEPT ![t].chunks = @ - 1]
          /\ VGoto(t, v, "hash")
       \/ /\ pool[t].poison > 0
          /\ pool' = [pool EXCEPT ![t].poison = @ - 1]
          /\ VGoto(t, v, "exited")
       \/ /\ pool[t].chunks + pool[t].poison = 0
          /\ VGoto(t, v, "check")
          /\ UNCHANGED pool
    /\ KeepButVF

\* sha256 of the mapping, and the result for TaskManager::tick.
VHash(t, v) ==
    /\ Alive
    /\ vf[t][v] = "hash"
    /\ \/ Fault(t, "writer")
       \/ VGoto(t, v, "check") /\ UNCHANGED pool /\ KeepButVF

-----------------------------------------------------------------------------
(* Other handlers of the event loop.                                        *)

\* The sessions of a stored download read a PIECE and dispatch it: enqueue,
\* then notify_one.
Dispatch(t, w) ==
    /\ Free
    /\ t \in tasks
    /\ kind[t] = "add"
    /\ pool[t].pieces[w] < MaxQueue
    /\ pool' = [pool EXCEPT ![t].pieces[w] = @ + 1]
    /\ io' = [io EXCEPT ![t] = Woken(t, {w})]
    /\ UNCHANGED <<daemon, client, tasks, objects, vf, port, loop>>

\* What a callback left over from a removed task reaches: the accept handler
\* its PeerManager, whatever the error; the announce chain the task; a
\* completed read the Scheduler.
Target(k) == CASE k = "accept" -> "peer_mgr"
               [] k = "announce" -> "seed"
               [] k = "read" -> "scheduler"

LateCallback(t, k) ==
    /\ Free
    /\ k \in late[t]
    /\ \/ Fault(t, Target(k))
       \/ /\ k # "accept"  \* its handler calls do_accept, which fails again
          /\ late' = [late EXCEPT ![t] = @ \ {k}]
          /\ UNCHANGED <<daemon, client, tasks, kind, own, pool, threads, port, loop>>

\* A retry timer calls do_announce and the name cannot be resolved: the
\* exception leaves ioc.run, main returns 1 and destroys the TaskManager.
RetryThrows(t) ==
    /\ Free
    /\ t \in tasks \/ "announce" \in late[t]
    /\ daemon' = "leaving"
    /\ UNCHANGED <<client, tasks, objects, pool, threads, port, loop>>

\* ~TaskManager: one task of tasks_ after the other.
DestroyNext(t) ==
    /\ daemon = "leaving"
    /\ loop.pc = "idle"
    /\ t \in tasks
    /\ tasks' = tasks \ {t}
    /\ loop' = [IdleLoop EXCEPT !.pc = "writer", !.task = t]
    /\ UNCHANGED <<daemon, client, objects, pool, threads, port>>

Exit ==
    /\ daemon = "leaving"
    /\ loop.pc = "idle"
    /\ tasks = {}
    /\ daemon' = "ended"
    /\ ProcessGone

-----------------------------------------------------------------------------

IOStep(t, w) ==
    \/ IOCheck(t, w)
    \/ IODequeue(t, w)
    \/ \E complete \in BOOLEAN : IOCopy(t, w, complete)
    \/ IOReport(t, w)
    \/ IOWait(t, w)
    \/ IOTimeout(t, w)

VStep(t, v) == VCheck(t, v) \/ VDequeue(t, v) \/ VHash(t, v)

Handle(c) ==
    \/ StartRefused(c)
    \/ \E t \in Tasks : BindFails(c, t)
    \/ \E t \in Tasks, resolved \in BOOLEAN : Start(c, t, resolved)
    \/ \E status \in Answers : Query(c, status)
    \/ \E t \in Tasks : cmd_remove(c, t)
    \/ RemoveUnknown(c)

Destroy ==
    \/ DestroyWriter
    \/ \E pending \in SUBSET {"announce", "read"} : DestroyPeerManager(pending)
    \/ VerifyStop
    \/ VerifyJoin
    \/ IOStop
    \/ IOJoin

Leave == (\E t \in Tasks : DestroyNext(t)) \/ Exit

Next ==
    \/ \E c \in Clients, cmd \in Commands : Ask(c, cmd)
    \/ \E c \in Clients : Handle(c)
    \/ Destroy
    \/ \E t \in Tasks, w \in IOWorkers : IOStep(t, w) \/ Dispatch(t, w)
    \/ \E t \in Tasks, v \in VerifyWorkers : VStep(t, v)
    \/ \E t \in Tasks, k \in Callbacks : LateCallback(t, k)
    \/ \E t \in Tasks : RetryThrows(t)
    \/ Leave

Spec == Init /\ [][Next]_vars

\* The operating system schedules every thread, a wait of 1 ms ends, and the
\* event loop takes up every request that has arrived.
Fairness ==
    /\ \A c \in Clients : WF_vars(Handle(c))
    /\ WF_vars(Destroy \/ Leave)
    /\ \A t \in Tasks, w \in IOWorkers : WF_vars(IOStep(t, w))
    /\ \A t \in Tasks, v \in VerifyWorkers : WF_vars(VStep(t, v))

FairSpec == Spec /\ Fairness

-----------------------------------------------------------------------------
(* Properties.                                                              *)

IOPC == {"none", "check", "drain", "drained", "copy", "report", "lock", "wait", "exited"}
VPC == {"none", "check", "poll", "hash", "exited"}
Steps == {"idle", "writer", "peer_mgr", "verify_stop", "verify_join", "io_stop", "io_join"}

\* Threads, queues, members and the steps of the event loop keep their ranges.
TypeOK ==
    /\ daemon \in {"run", "leaving", "ended", "crashed"}
    /\ client \in [Clients -> Commands \union Answers]
    /\ tasks \subseteq Tasks
    /\ kind \in [Tasks -> {"none", "seed", "add", "gone"}]
    /\ own \in [Tasks -> SUBSET Members]
    /\ late \in [Tasks -> SUBSET Callbacks]
    /\ pool \in [Tasks -> [io_running : BOOLEAN, vf_running : BOOLEAN,
                           pieces : [IOWorkers -> 0 .. MaxQueue],
                           chunks : 0 .. MaxQueue,
                           poison : 0 .. Cardinality(VerifyWorkers)]]
    /\ io \in [Tasks -> [IOWorkers -> IOPC]]
    /\ vf \in [Tasks -> [VerifyWorkers -> VPC]]
    /\ port \in Tasks \union {None}
    /\ loop \in [pc : Steps, task : Tasks \union {None},
                 client : Clients \union {None}, answer : Answers]

Stopped(t) ==
    /\ \A w \in IOWorkers : io[t][w] \in {"none", "exited"}
    /\ \A v \in VerifyWorkers : vf[t][v] \in {"none", "exited"}

\* Between two handlers, and after the process has left main, a task is
\* either stored and whole, and listens on the port, or nothing of it is
\* left but the descriptor of a seed: no other member, no thread, not the
\* port.  After a failed start or a removal the port is free for the next
\* task; the descriptors are what a daemon that runs for long piles up.
OnlyDescriptorsLeft ==
    loop.pc = "idle" =>
        \A t \in Tasks :
            IF t \in tasks
            THEN own[t] = PartsOf(kind[t]) /\ port = t
            ELSE own[t] \subseteq {"seed_fd"} /\ Stopped(t) /\ port # t

\* A process that has left ioc.run ends: ~TaskManager destroys the task that
\* is stored, and the joins of both of its pools return, whatever their
\* threads were doing and whatever is still in their queues.
LeavingEnds == (daemon = "leaving") ~> (daemon \in {"ended", "crashed"})

\* Every request is answered, unless the process ends first; in particular
\* stop() of both pools returns, whatever their threads are doing.
RequestAnswered ==
    \A c \in Clients :
        (client[c] \in Commands) ~> (client[c] \in Answers \/ daemon # "run")

\* A dispatched piece is taken from its queue, though notify_one may come
\* before the thread waits and is lost then.
PieceHandled ==
    \A t \in Tasks, w \in IOWorkers :
        (pool[t].pieces[w] > 0) ~> (pool[t].pieces[w] = 0 \/ ~Alive)

-----------------------------------------------------------------------------
(* What the deployment test demands of repeated add and remove, and the     *)
(* code does not keep.                                                      *)

\* The daemon does not crash.
NoCrash == daemon # "crashed"
=============================================================================
