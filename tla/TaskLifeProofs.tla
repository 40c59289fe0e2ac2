-------------------------- MODULE TaskLifeProofs --------------------------
(* Proofs about TaskLife for any number of tasks, clients and threads.      *)
EXTENDS TaskLife, FiniteSetTheorems, TLAPS

VStopped(t) == \A v \in VerifyWorkers : vf[t][v] \in {"none", "exited"}

\* A stored task is whole and is the one that listens on the port.
StoredIsWhole ==
    \A t \in Tasks : t \in tasks =>
        /\ kind[t] \in {"seed", "add"}
        /\ own[t] = PartsOf(kind[t])
        /\ port = t

\* Of a task that is not stored nothing is left but the descriptor of a seed,
\* unless the event loop is about to destroy it.
OthersAreGone ==
    \A t \in Tasks : (t \notin tasks /\ (loop.pc = "idle" \/ loop.task # t)) =>
        /\ own[t] \subseteq {"seed_fd"}
        /\ Stopped(t)
        /\ port # t

\* How far the destructor has come.  Each pool exists until its threads are
\* joined, and the port is given up before the first join.
HalfDestroyed ==
    loop.pc # "idle" =>
        /\ loop.task \in Tasks \ tasks
        /\ "io_pool" \in own[loop.task]
        /\ loop.pc \in {"writer", "peer_mgr", "verify_stop", "verify_join"}
              => "verify_pool" \in own[loop.task]
        /\ loop.pc \in {"verify_stop", "verify_join", "io_stop", "io_join"}
              => port # loop.task
        /\ loop.pc \in {"io_stop", "io_join"} => VStopped(loop.task)

\* The inductive invariant.
LifeInv == TypeOK /\ StoredIsWhole /\ OthersAreGone /\ HalfDestroyed

-----------------------------------------------------------------------------
Pools == [io_running : BOOLEAN, vf_running : BOOLEAN,
          pieces : [IOWorkers -> 0 .. MaxQueue], chunks : 0 .. MaxQueue,
          poison : 0 .. Cardinality(VerifyWorkers)]

\* The pools start, and end, with empty queues.
LEMMA NewPoolType ==
    /\ NewPool \in Pools
    /\ Cardinality(VerifyWorkers) \in Nat
<1>1. Cardinality(VerifyWorkers) \in Nat
  BY TaskLifeAssumption, FS_CardinalityType
<1> QED  BY <1>1, TaskLifeAssumption DEF NewPool, Pools

\* What stop() and the join of each pool do to its flags and queues.
LEMMA PoolUpdates ==
    ASSUME NEW q \in Pools
    PROVE  /\ [q EXCEPT !.vf_running = FALSE, !.poison = Cardinality(VerifyWorkers)] \in Pools
           /\ [q EXCEPT !.chunks = 0, !.poison = 0] \in Pools
           /\ [q EXCEPT !.io_running = FALSE] \in Pools
<1>1. /\ Cardinality(VerifyWorkers) \in 0 .. Cardinality(VerifyWorkers)
      /\ 0 \in 0 .. Cardinality(VerifyWorkers)
      /\ 0 \in 0 .. MaxQueue
  BY NewPoolType, TaskLifeAssumption
<1>2. [q EXCEPT !.vf_running = FALSE, !.poison = Cardinality(VerifyWorkers)] \in Pools
  BY <1>1, Zenon DEF Pools
<1>3. [q EXCEPT !.chunks = 0, !.poison = 0] \in Pools
  BY <1>1, Zenon DEF Pools
<1>4. [q EXCEPT !.io_running = FALSE] \in Pools
  BY Zenon DEF Pools
<1> QED  BY <1>2, <1>3, <1>4

\* The pools of one task are replaced.
LEMMA PoolReplaced ==
    ASSUME NEW P \in [Tasks -> Pools], NEW t \in Tasks, NEW q \in Pools
    PROVE  [P EXCEPT ![t] = q] \in [Tasks -> Pools]
OBVIOUS

\* An initial state satisfies the invariant.
LEMMA InitLife == Init => LifeInv
<1> SUFFICES ASSUME Init PROVE LifeInv
  OBVIOUS
<1>1. TypeOK
  <2>1. pool \in [Tasks -> Pools]
    BY NewPoolType DEF Init
  <2>2. io \in [Tasks -> [IOWorkers -> IOPC]] /\ vf \in [Tasks -> [VerifyWorkers -> VPC]]
    BY DEF Init, IOPC, VPC
  <2>3. loop \in [pc : Steps, task : Tasks \union {None},
                  client : Clients \union {None}, answer : Answers]
    BY DEF Init, IdleLoop, Steps, Answers
  <2> QED  BY <2>1, <2>2, <2>3 DEF Init, TypeOK, Pools, Commands, Answers
<1>2. StoredIsWhole /\ HalfDestroyed
  BY DEF Init, StoredIsWhole, HalfDestroyed, IdleLoop
<1>3. OthersAreGone
  BY TaskLifeAssumption DEF Init, OthersAreGone, Stopped
<1> QED  BY <1>1, <1>2, <1>3 DEF LifeInv

\* A process that is gone leaves nothing behind.
LEMMA GoneLife ==
    ASSUME LifeInv, ProcessGone, daemon' \in {"ended", "crashed"}
    PROVE  LifeInv'
<1>1. TypeOK'
  <2>1. pool' \in [Tasks -> Pools]
    BY NewPoolType DEF ProcessGone
  <2>2. io' \in [Tasks -> [IOWorkers -> IOPC]] /\ vf' \in [Tasks -> [VerifyWorkers -> VPC]]
    BY DEF ProcessGone, IOPC, VPC
  <2>3. loop' \in [pc : Steps, task : Tasks \union {None},
                   client : Clients \union {None}, answer : Answers]
    BY DEF ProcessGone, IdleLoop, Steps, Answers
  <2>4. client' \in [Clients -> Commands \union Answers]
    BY DEF LifeInv, TypeOK, ProcessGone
  <2> QED  BY <2>1, <2>2, <2>3, <2>4 DEF ProcessGone, TypeOK, Pools
<1>2. (StoredIsWhole /\ HalfDestroyed)'
  BY DEF ProcessGone, StoredIsWhole, HalfDestroyed, IdleLoop
<1>3. OthersAreGone'
  BY TaskLifeAssumption DEF ProcessGone, OthersAreGone, Stopped
<1> QED  BY <1>1, <1>2, <1>3 DEF LifeInv

\* A step that leaves the tasks, their parts, the port and the event loop
\* alone, and starts no thread that had not been started or had ended.
Quiet ==
    /\ UNCHANGED <<tasks, kind, own, port, loop>>
    /\ \A t \in Tasks : Stopped(t) => Stopped(t)'
    /\ \A t \in Tasks : VStopped(t) => VStopped(t)'

\* Such a step keeps the invariant.
LEMMA QuietLife ==
    ASSUME LifeInv, TypeOK', Quiet
    PROVE  LifeInv'
<1>1. StoredIsWhole'
  BY DEF LifeInv, StoredIsWhole, Quiet
<1>2. OthersAreGone'
  BY DEF LifeInv, OthersAreGone, Quiet
<1>3. HalfDestroyed'
  BY DEF LifeInv, HalfDestroyed, Quiet
<1> QED  BY <1>1, <1>2, <1>3 DEF LifeInv

\* A request, and the answer of a handler that changes nothing else.
LEMMA ClientLife ==
    ASSUME LifeInv, NEW c \in Clients, NEW x \in Commands \union Answers,
           client' = [client EXCEPT ![c] = x],
           UNCHANGED <<daemon, tasks, objects, pool, threads, port, loop>>
    PROVE  LifeInv'
<1>1. client' \in [Clients -> Commands \union Answers]
  BY DEF LifeInv, TypeOK
<1>2. TypeOK'
  BY <1>1 DEF LifeInv, TypeOK, objects, threads
<1>3. Quiet
  BY DEF Quiet, Stopped, VStopped, objects, threads
<1> QED  BY <1>2, <1>3, QuietLife

\* A step of one I/O thread that is running; the queues keep their type.
LEMMA IOThreadLife ==
    ASSUME LifeInv, NEW t \in Tasks, NEW w \in IOWorkers, NEW pc \in IOPC,
           io[t][w] \notin {"none", "exited"},
           IOGoto(t, w, pc), pool' \in [Tasks -> Pools], KeepButIO
    PROVE  LifeInv'
<1>1. io' \in [Tasks -> [IOWorkers -> IOPC]]
  BY DEF LifeInv, TypeOK, IOGoto
<1>2. TypeOK'
  BY <1>1 DEF LifeInv, TypeOK, KeepButIO, objects, Pools
<1>3. \A u \in Tasks : u # t => io'[u] = io[u]
  BY DEF LifeInv, TypeOK, IOGoto
<1>4. ~Stopped(t)
  BY DEF Stopped
<1>5. Quiet
  BY <1>3, <1>4 DEF Quiet, Stopped, VStopped, KeepButIO, objects
<1> QED  BY <1>2, <1>5, QuietLife

\* The same for a SHA-256 thread.
LEMMA VThreadLife ==
    ASSUME LifeInv, NEW t \in Tasks, NEW v \in VerifyWorkers, NEW pc \in VPC,
           vf[t][v] \notin {"none", "exited"},
           VGoto(t, v, pc), pool' \in [Tasks -> Pools], KeepButVF
    PROVE  LifeInv'
<1>1. vf' \in [Tasks -> [VerifyWorkers -> VPC]]
  BY DEF LifeInv, TypeOK, VGoto
<1>2. TypeOK'
  BY <1>1 DEF LifeInv, TypeOK, KeepButVF, objects, Pools
<1>3. \A u \in Tasks : u # t => vf'[u] = vf[u]
  BY DEF LifeInv, TypeOK, VGoto
<1>4. ~Stopped(t) /\ ~VStopped(t)
  BY DEF Stopped, VStopped
<1>5. Quiet
  BY <1>3, <1>4 DEF Quiet, Stopped, VStopped, KeepButVF, objects
<1> QED  BY <1>2, <1>5, QuietLife

\* A piece more, or less, in the queue of one thread.
LEMMA PiecesType ==
    ASSUME pool \in [Tasks -> Pools], NEW t \in Tasks, NEW w \in IOWorkers,
           NEW n \in 0 .. MaxQueue
    PROVE  [pool EXCEPT ![t].pieces[w] = n] \in [Tasks -> Pools]
<1> DEFINE q == [pool[t].pieces EXCEPT ![w] = n]
<1>1. pool[t] \in Pools /\ pool[t].pieces \in [IOWorkers -> 0 .. MaxQueue]
  BY DEF Pools
<1>2. q \in [IOWorkers -> 0 .. MaxQueue]
  BY <1>1
<1>3. [pool[t] EXCEPT !.pieces = q] \in Pools
  <2> HIDE DEF q
  <2> QED  BY <1>1, <1>2 DEF Pools
<1>4. [pool EXCEPT ![t].pieces[w] = n] = [pool EXCEPT ![t] = [pool[t] EXCEPT !.pieces = q]]
  OBVIOUS
<1> QED  BY <1>3, <1>4

\* IOWorkerPool::worker_loop preserves the invariant.
LEMMA IOStepLife ==
    ASSUME LifeInv, NEW t \in Tasks, NEW w \in IOWorkers, IOStep(t, w)
    PROVE  LifeInv'
<1>0. pool \in [Tasks -> Pools]
  BY DEF LifeInv, TypeOK, Pools
<1>1. CASE IOCheck(t, w)
  <2>1. (IF pool[t].io_running THEN "drain" ELSE "exited") \in IOPC
    BY DEF IOPC
  <2> QED  BY <1>0, <1>1, <2>1, IOThreadLife DEF IOCheck
<1>2. CASE IODequeue(t, w)
  <2>1. CASE pool[t].pieces[w] > 0
    <3>1. pool[t].pieces[w] - 1 \in 0 .. MaxQueue
      BY <1>0, <2>1, TaskLifeAssumption DEF Pools
    <3>2. pool' \in [Tasks -> Pools]
      <4>1. pool' = [pool EXCEPT ![t].pieces[w] = pool[t].pieces[w] - 1]
        BY <1>2, <2>1 DEF IODequeue
      <4> QED  BY <1>0, <3>1, <4>1, PiecesType
    <3>3. "copy" \in IOPC
      BY DEF IOPC
    <3> QED  BY <1>2, <2>1, <3>2, <3>3, IOThreadLife DEF IODequeue
  <2>2. CASE ~(pool[t].pieces[w] > 0)
    <3>1. (IF io[t][w] = "drain" THEN "lock" ELSE "check") \in IOPC
      BY DEF IOPC
    <3> QED  BY <1>0, <1>2, <2>2, <3>1, IOThreadLife DEF IODequeue
  <2> QED  BY <2>1, <2>2
<1>3. ASSUME NEW complete \in BOOLEAN, IOCopy(t, w, complete)
      PROVE  LifeInv'
  <2>1. CASE Fault(t, "writer")
    BY <2>1, GoneLife DEF Fault
  <2>2. (IF complete THEN "report" ELSE "drained") \in IOPC
    BY DEF IOPC
  <2> QED  BY <1>0, <1>3, <2>1, <2>2, IOThreadLife DEF IOCopy
<1>4. CASE IOReport(t, w)
  <2>1. CASE Fault(t, "verify_pool")
    BY <2>1, GoneLife DEF Fault
  <2>2. CASE ~Fault(t, "verify_pool")
    <3>1. pool[t].chunks + 1 \in 0 .. MaxQueue
      BY <1>0, <1>4, <2>2, TaskLifeAssumption DEF IOReport, Pools
    <3>2. pool' \in [Tasks -> Pools]
      BY <1>0, <1>4, <2>2, <3>1 DEF IOReport, Pools
    <3>3. "drained" \in IOPC
      BY DEF IOPC
    <3> QED  BY <1>4, <2>2, <3>2, <3>3, IOThreadLife DEF IOReport
  <2> QED  BY <2>1, <2>2
<1>5. CASE IOTimeout(t, w)
  <2>1. "check" \in IOPC
    BY DEF IOPC
  <2> QED  BY <1>0, <1>5, <2>1, IOThreadLife DEF IOTimeout
<1>6. CASE IOWait(t, w)
  <2>1. "wait" \in IOPC
    BY DEF IOPC
  <2> QED  BY <1>0, <1>6, <2>1, IOThreadLife DEF IOWait
<1> QED  BY <1>1, <1>2, <1>3, <1>4, <1>5, <1>6 DEF IOStep

\* VerifyWorkerPool::worker_loop preserves the invariant.
LEMMA VStepLife ==
    ASSUME LifeInv, NEW t \in Tasks, NEW v \in VerifyWorkers, VStep(t, v)
    PROVE  LifeInv'
<1>0. pool \in [Tasks -> Pools] /\ {"check", "poll", "hash", "exited"} \subseteq VPC
  BY DEF LifeInv, TypeOK, Pools, VPC
<1>1. CASE VCheck(t, v)
  <2>1. (IF pool[t].vf_running THEN "poll" ELSE "exited") \in VPC
    BY DEF VPC
  <2> QED  BY <1>0, <1>1, <2>1, VThreadLife DEF VCheck
<1>2. CASE VDequeue(t, v)
  <2>1. pool' \in [Tasks -> Pools]
    <3>1. pool[t].chunks > 0 => pool[t].chunks - 1 \in 0 .. MaxQueue
      BY <1>0, TaskLifeAssumption DEF Pools
    <3>2. pool[t].poison > 0 => pool[t].poison - 1 \in 0 .. Cardinality(VerifyWorkers)
      BY <1>0, NewPoolType DEF Pools
    <3> QED  BY <1>0, <1>2, <3>1, <3>2 DEF VDequeue, Pools
  <2> QED  BY <1>0, <1>2, <2>1, VThreadLife DEF VDequeue
<1>3. CASE VHash(t, v)
  <2>1. CASE Fault(t, "writer")
    BY <2>1, GoneLife DEF Fault
  <2> QED  BY <1>0, <1>3, <2>1, VThreadLife DEF VHash
<1> QED  BY <1>1, <1>2, <1>3 DEF VStep

\* dispatch wakes a thread; it starts none.
LEMMA DispatchLife ==
    ASSUME LifeInv, NEW t \in Tasks, NEW w \in IOWorkers, Dispatch(t, w)
    PROVE  LifeInv'
<1>1. pool' \in [Tasks -> Pools]
  <2>1. pool \in [Tasks -> Pools]
    BY DEF LifeInv, TypeOK, Pools
  <2>2. pool[t].pieces[w] + 1 \in 0 .. MaxQueue
    BY <2>1, TaskLifeAssumption DEF Dispatch, Pools
  <2>3. pool' = [pool EXCEPT ![t].pieces[w] = pool[t].pieces[w] + 1]
    BY DEF Dispatch
  <2> QED  BY <2>1, <2>2, <2>3, PiecesType
<1>2. Woken(t, {w}) \in [IOWorkers -> IOPC]
  <2>1. io[t] \in [IOWorkers -> IOPC] /\ "check" \in IOPC
    BY DEF LifeInv, TypeOK, IOPC
  <2> QED  BY <2>1 DEF Woken
<1>3. io' \in [Tasks -> [IOWorkers -> IOPC]] /\ io'[t] = Woken(t, {w})
      /\ \A u \in Tasks : u # t => io'[u] = io[u]
  BY <1>2, Zenon DEF LifeInv, TypeOK, Dispatch
<1>4. TypeOK'
  BY <1>1, <1>3, Zenon DEF LifeInv, TypeOK, Dispatch, objects, Pools
<1>5. Stopped(t) => Stopped(t)'
  BY <1>3 DEF Stopped, Woken, Dispatch
<1>6. Quiet
  BY <1>3, <1>5, Zenon DEF Quiet, Stopped, VStopped, Dispatch, objects
<1> QED  BY <1>4, <1>6, QuietLife

\* Handlers that come after a task is gone.
LEMMA LateLife ==
    ASSUME LifeInv, NEW t \in Tasks, NEW k \in Callbacks,
           LateCallback(t, k) \/ RetryThrows(t)
    PROVE  LifeInv'
<1>1. CASE LateCallback(t, k) /\ Fault(t, Target(k))
  BY <1>1, GoneLife DEF Fault
<1>2. CASE LateCallback(t, k) /\ ~Fault(t, Target(k))
  <2>1. late' \in [Tasks -> SUBSET Callbacks]
    <3>1. late \in [Tasks -> SUBSET Callbacks]
      BY DEF LifeInv, TypeOK
    <3>2. late' = [late EXCEPT ![t] = late[t] \ {k}]
      BY <1>2 DEF LateCallback
    <3> QED  BY <3>1, <3>2
  <2>2. TypeOK'
    BY <1>2, <2>1 DEF LifeInv, TypeOK, LateCallback, threads
  <2>3. Quiet
    BY <1>2 DEF Quiet, Stopped, VStopped, LateCallback, threads
  <2> QED  BY <2>2, <2>3, QuietLife
<1>3. CASE RetryThrows(t)
  <2>1. TypeOK'
    BY <1>3 DEF LifeInv, TypeOK, RetryThrows, objects, threads
  <2>2. Quiet
    BY <1>3 DEF Quiet, Stopped, VStopped, RetryThrows, objects, threads
  <2> QED  BY <2>1, <2>2, QuietLife
<1> QED  BY <1>1, <1>2, <1>3

\* Starting the pools of a new task, stored or not, keeps the types.
LEMMA PoolsStartedType ==
    ASSUME LifeInv, NEW t \in Tasks, NEW cmd \in {"seed", "add"},
           NEW parts \in SUBSET Members, PoolsStarted(t, cmd, parts)
    PROVE  /\ kind' \in [Tasks -> {"none", "seed", "add", "gone"}]
           /\ own' \in [Tasks -> SUBSET Members]
           /\ pool' \in [Tasks -> Pools]
           /\ io' \in [Tasks -> [IOWorkers -> IOPC]]
           /\ vf' \in [Tasks -> [VerifyWorkers -> VPC]]
<1>1. kind' \in [Tasks -> {"none", "seed", "add", "gone"}]
  BY DEF LifeInv, TypeOK, PoolsStarted
<1>2. own' \in [Tasks -> SUBSET Members]
  BY DEF LifeInv, TypeOK, PoolsStarted
<1>3. pool' \in [Tasks -> Pools]
  <2>1. pool \in [Tasks -> Pools] /\ pool' = [pool EXCEPT ![t] = NewPool]
    BY DEF LifeInv, TypeOK, Pools, PoolsStarted
  <2> QED  BY <2>1, NewPoolType, PoolReplaced
<1>4. io' \in [Tasks -> [IOWorkers -> IOPC]]
  BY DEF LifeInv, TypeOK, PoolsStarted, IOPC
<1>5. vf' \in [Tasks -> [VerifyWorkers -> VPC]]
  BY DEF LifeInv, TypeOK, PoolsStarted, VPC
<1> QED  BY <1>1, <1>2, <1>3, <1>4, <1>5

\* It concerns the new task only, which was not in tasks_.
LEMMA PoolsStartedParts ==
    ASSUME LifeInv, NEW t \in Tasks, NEW cmd, NEW parts, PoolsStarted(t, cmd, parts)
    PROVE  /\ t \notin tasks
           /\ kind'[t] = cmd /\ own'[t] = parts
           /\ \A u \in Tasks : u # t => kind'[u] = kind[u] /\ own'[u] = own[u]
<1>1. t \notin tasks
  BY DEF LifeInv, StoredIsWhole, PoolsStarted
<1>2. kind'[t] = cmd /\ \A u \in Tasks : u # t => kind'[u] = kind[u]
  BY DEF LifeInv, TypeOK, PoolsStarted
<1>3. own'[t] = parts /\ \A u \in Tasks : u # t => own'[u] = own[u]
  BY DEF LifeInv, TypeOK, PoolsStarted
<1> QED  BY <1>1, <1>2, <1>3

\* ... and leave the threads of the other tasks alone.
LEMMA PoolsStartedThreads ==
    ASSUME LifeInv, NEW t \in Tasks, NEW cmd, NEW parts, PoolsStarted(t, cmd, parts)
    PROVE  \A u \in Tasks : u # t => io'[u] = io[u] /\ vf'[u] = vf[u]
BY DEF LifeInv, TypeOK, PoolsStarted

\* The parts of a task, with or without its PeerManager, are members, and
\* both pools are among them.
LEMMA PartsFacts ==
    ASSUME NEW cmd
    PROVE  /\ PartsOf(cmd) \in SUBSET Members
           /\ PartsOf(cmd) \ {"peer_mgr"} \in SUBSET Members
           /\ {"io_pool", "verify_pool"} \subseteq PartsOf(cmd) \ {"peer_mgr"}
BY DEF PartsOf, Members

\* A new task takes the port, which no other task can have.
LEMMA StartLife ==
    ASSUME LifeInv, NEW c \in Clients, NEW t \in Tasks, NEW resolved \in BOOLEAN,
           Start(c, t, resolved)
    PROVE  LifeInv'
<1>1. PICK cmd \in {"seed", "add"} : cmd = client[c] /\ PoolsStarted(t, cmd, PartsOf(cmd))
  BY DEF Start
<1>2. PICK parts \in SUBSET Members : parts = PartsOf(cmd)
  BY PartsFacts
<1>3. PoolsStarted(t, cmd, parts)
  BY <1>1, <1>2
<1>4. /\ kind' \in [Tasks -> {"none", "seed", "add", "gone"}]
      /\ own' \in [Tasks -> SUBSET Members]
      /\ pool' \in [Tasks -> Pools]
      /\ io' \in [Tasks -> [IOWorkers -> IOPC]]
      /\ vf' \in [Tasks -> [VerifyWorkers -> VPC]]
  BY <1>3, PoolsStartedType
<1>5. kind'[t] = cmd /\ own'[t] = parts
  BY <1>3, PoolsStartedParts
<1>6. \A u \in Tasks : u # t => own'[u] = own[u] /\ io'[u] = io[u] /\ vf'[u] = vf[u]
  <2>1. \A u \in Tasks : u # t => own'[u] = own[u]
    BY <1>3, PoolsStartedParts
  <2>2. \A u \in Tasks : u # t => io'[u] = io[u] /\ vf'[u] = vf[u]
    BY <1>3, PoolsStartedThreads
  <2> QED  BY <2>1, <2>2, Zenon
<1>7. client' \in [Clients -> Commands \union Answers]
  BY DEF LifeInv, TypeOK, Start, Answer, Answers
<1>8. /\ port = None /\ port' = t /\ tasks' = tasks \union {t} /\ tasks \subseteq Tasks
      /\ loop.pc = "idle" /\ UNCHANGED <<daemon, late, loop>>
  BY DEF LifeInv, TypeOK, Start, Free
<1>9. TypeOK'
  BY <1>4, <1>7, <1>8 DEF LifeInv, TypeOK, Pools
<1>10. tasks = {}
  BY <1>8, TaskLifeAssumption DEF LifeInv, StoredIsWhole
<1>11. StoredIsWhole'
  BY <1>2, <1>5, <1>8, <1>10 DEF StoredIsWhole
<1>12. OthersAreGone'
  <2>1. \A u \in Tasks : u # t => own[u] \subseteq {"seed_fd"} /\ Stopped(u)
    BY <1>8, <1>10 DEF LifeInv, OthersAreGone
  <2>2. \A u \in Tasks : u # t => own'[u] \subseteq {"seed_fd"} /\ Stopped(u)'
    BY <1>6, <2>1 DEF Stopped
  <2> QED  BY <1>8, <2>2 DEF OthersAreGone
<1>13. HalfDestroyed'
  BY <1>8 DEF HalfDestroyed
<1> QED  BY <1>9, <1>11, <1>12, <1>13 DEF LifeInv

\* A start that fails leaves the event loop to destroy what was built.
LEMMA BindFailsLife ==
    ASSUME LifeInv, NEW c \in Clients, NEW t \in Tasks, BindFails(c, t)
    PROVE  LifeInv'
<1>1. PICK cmd \in {"seed", "add"} :
          PoolsStarted(t, cmd, PartsOf(cmd) \ {"peer_mgr"})
  BY DEF BindFails
<1>2. PICK parts \in SUBSET Members : parts = PartsOf(cmd) \ {"peer_mgr"}
  BY PartsFacts, Zenon
<1>3. PoolsStarted(t, cmd, parts) /\ {"io_pool", "verify_pool"} \subseteq parts
  BY <1>1, <1>2, PartsFacts
<1>4. /\ kind' \in [Tasks -> {"none", "seed", "add", "gone"}]
      /\ own' \in [Tasks -> SUBSET Members]
      /\ pool' \in [Tasks -> Pools]
      /\ io' \in [Tasks -> [IOWorkers -> IOPC]]
      /\ vf' \in [Tasks -> [VerifyWorkers -> VPC]]
  BY <1>3, PoolsStartedType
<1>5. own'[t] = parts /\ t \notin tasks
  BY <1>3, PoolsStartedParts
<1>6. \A u \in Tasks : u # t => kind'[u] = kind[u] /\ own'[u] = own[u]
  BY <1>3, PoolsStartedParts
<1>7. \A u \in Tasks : u # t => io'[u] = io[u] /\ vf'[u] = vf[u]
  BY <1>3, PoolsStartedThreads
<1>8. /\ loop.pc = "idle" /\ UNCHANGED <<daemon, client, tasks, late, port>>
      /\ loop' = [pc |-> "writer", task |-> t, client |-> c, answer |-> "error"]
  BY DEF BindFails, Free
<1>9. loop' \in [pc : Steps, task : Tasks \union {None},
                 client : Clients \union {None}, answer : Answers]
  BY <1>8 DEF Steps, Answers
<1>10. TypeOK'
  BY <1>4, <1>8, <1>9 DEF LifeInv, TypeOK, Pools
<1>11. StoredIsWhole'
  <2>1. \A u \in Tasks : u \in tasks => kind'[u] = kind[u] /\ own'[u] = own[u]
    BY <1>5, <1>6
  <2> QED  BY <1>8, <2>1 DEF LifeInv, StoredIsWhole
<1>12. OthersAreGone'
  <2>1. \A u \in Tasks : u \notin tasks => own[u] \subseteq {"seed_fd"} /\ Stopped(u) /\ port # u
    BY <1>8 DEF LifeInv, OthersAreGone
  <2>2. \A u \in Tasks : u \notin tasks /\ u # t => own'[u] \subseteq {"seed_fd"} /\ Stopped(u)' /\ port # u
    BY <1>6, <1>7, <2>1 DEF Stopped
  <2> QED  BY <1>8, <2>2 DEF OthersAreGone
<1>13. HalfDestroyed'
  BY <1>3, <1>5, <1>8 DEF HalfDestroyed
<1> QED  BY <1>10, <1>11, <1>12, <1>13 DEF LifeInv

\* cmd_remove and ~TaskManager take a whole task out of tasks_.
LEMMA TakenLife ==
    ASSUME LifeInv, NEW t \in tasks, NEW c \in Clients \union {None},
           loop.pc = "idle", tasks' = tasks \ {t},
           loop' = [pc |-> "writer", task |-> t, client |-> c, answer |-> "ok"],
           UNCHANGED <<client, objects, pool, threads, port>>,
           daemon' = daemon
    PROVE  LifeInv'
<1>1. t \in Tasks
  BY DEF LifeInv, TypeOK
<1>2. loop' \in [pc : Steps, task : Tasks \union {None},
                 client : Clients \union {None}, answer : Answers]
  BY <1>1 DEF Steps, Answers
<1>3. TypeOK'
  BY <1>2 DEF LifeInv, TypeOK, objects, threads
<1>4. StoredIsWhole'
  BY DEF LifeInv, StoredIsWhole, objects
<1>5. OthersAreGone'
  BY DEF LifeInv, OthersAreGone, Stopped, objects, threads
<1>6. HalfDestroyed'
  <2>1. own[t] = PartsOf(kind[t])
    BY <1>1 DEF LifeInv, StoredIsWhole
  <2> QED  BY <1>1, <2>1, PartsFacts DEF HalfDestroyed, objects
<1> QED  BY <1>3, <1>4, <1>5, <1>6 DEF LifeInv

\* The requests a client can have made.
LEMMA HandleLife ==
    ASSUME LifeInv, NEW c \in Clients, Handle(c)
    PROVE  LifeInv'
<1>1. CASE StartRefused(c) \/ RemoveUnknown(c) \/ \E status \in Answers : Query(c, status)
  <2>1. "error" \in Answers
    BY DEF Answers
  <2> QED  BY <1>1, <2>1, ClientLife DEF StartRefused, RemoveUnknown, Query, Answer
<1>2. CASE \E t \in Tasks : BindFails(c, t)
  BY <1>2, BindFailsLife
<1>3. CASE \E t \in Tasks, resolved \in BOOLEAN : Start(c, t, resolved)
  BY <1>3, StartLife
<1>4. CASE \E t \in Tasks : cmd_remove(c, t)
  BY <1>4, TakenLife DEF cmd_remove, Free
<1> QED  BY <1>1, <1>2, <1>3, <1>4 DEF Handle

\* A step of the destructor: only the task being destroyed is touched, the
\* threads of the others, and the ones of it that have ended, stay as they are.
LEMMA DestroyStepLife ==
    ASSUME LifeInv, TypeOK', loop.pc # "idle", HalfDestroyed',
           UNCHANGED tasks, loop'.pc # "idle", loop'.task = loop.task,
           kind' = kind,
           \A u \in Tasks : u # loop.task =>
               own'[u] = own[u] /\ io'[u] = io[u] /\ vf'[u] = vf[u],
           port' = port \/ (port = loop.task /\ port' = None)
    PROVE  LifeInv'
<1>1. loop.task \in Tasks /\ loop.task \notin tasks
  BY DEF LifeInv, HalfDestroyed
<1>2. StoredIsWhole'
  BY <1>1 DEF LifeInv, StoredIsWhole
<1>3. OthersAreGone'
  BY <1>1, TaskLifeAssumption DEF LifeInv, OthersAreGone, Stopped
<1> QED  BY <1>2, <1>3 DEF LifeInv

\* What Then does to the event loop.
LEMMA ThenFacts ==
    ASSUME LifeInv, NEW step \in Steps, Then(step)
    PROVE  /\ loop'.pc = step /\ loop'.task = loop.task
           /\ loop' \in [pc : Steps, task : Tasks \union {None},
                         client : Clients \union {None}, answer : Answers]
BY Zenon DEF LifeInv, TypeOK, Then

\* What Drop does to the parts of the tasks.
LEMMA DropFacts ==
    ASSUME LifeInv, NEW t \in Tasks, NEW parts, Drop(t, parts)
    PROVE  /\ own' \in [Tasks -> SUBSET Members]
           /\ own'[t] = own[t] \ parts
           /\ \A u \in Tasks : u # t => own'[u] = own[u]
<1>1. own \in [Tasks -> SUBSET Members]
  BY DEF LifeInv, TypeOK
<1>2. own' = [own EXCEPT ![t] = own[t] \ parts]
  BY DEF Drop
<1> QED  BY <1>1, <1>2

\* The destructor up to the join of the SHA-256 threads.
LEMMA DestroyFirstLife ==
    ASSUME LifeInv, NEW pending \in SUBSET {"announce", "read"},
           DestroyWriter \/ DestroyPeerManager(pending) \/ VerifyStop \/ VerifyJoin
    PROVE  LifeInv'
<1> DEFINE t == loop.task
<1>0. {"peer_mgr", "verify_stop", "verify_join", "io_stop"} \subseteq Steps
  BY DEF Steps
<1>1. CASE DestroyWriter
  <2>1. t \in Tasks \ tasks /\ {"io_pool", "verify_pool"} \subseteq own[t] /\ loop.pc = "writer"
    BY <1>1 DEF LifeInv, HalfDestroyed, DestroyWriter, Destroying
  <2>2. /\ loop'.pc = "peer_mgr" /\ loop'.task = t
        /\ loop' \in [pc : Steps, task : Tasks \union {None},
                      client : Clients \union {None}, answer : Answers]
    BY <1>0, <1>1, ThenFacts DEF DestroyWriter
  <2>3. /\ own' \in [Tasks -> SUBSET Members] /\ own'[t] = own[t] \ {"writer"}
        /\ \A u \in Tasks : u # t => own'[u] = own[u]
    BY <1>1, <2>1, DropFacts DEF DestroyWriter
  <2>4. UNCHANGED <<daemon, client, tasks, kind, late, pool, io, vf, port>>
    BY <1>1 DEF DestroyWriter, threads
  <2>5. TypeOK'
    BY <2>2, <2>3, <2>4, Zenon DEF LifeInv, TypeOK
  <2>6. HalfDestroyed'
    BY <2>1, <2>2, <2>3, <2>4 DEF HalfDestroyed
  <2> QED  BY <2>1, <2>2, <2>3, <2>4, <2>5, <2>6, DestroyStepLife, Zenon
<1>2. CASE DestroyPeerManager(pending)
  <2>1. t \in Tasks \ tasks /\ {"io_pool", "verify_pool"} \subseteq own[t] /\ loop.pc = "peer_mgr"
    BY <1>2 DEF LifeInv, HalfDestroyed, DestroyPeerManager, Destroying
  <2>2. /\ loop'.pc = "verify_stop" /\ loop'.task = t
        /\ loop' \in [pc : Steps, task : Tasks \union {None},
                      client : Clients \union {None}, answer : Answers]
    BY <1>0, <1>2, ThenFacts DEF DestroyPeerManager
  <2>3. /\ own' \in [Tasks -> SUBSET Members] /\ own'[t] = own[t] \ {"peer_mgr", "scheduler"}
        /\ \A u \in Tasks : u # t => own'[u] = own[u]
    BY <1>2, <2>1, DropFacts, Zenon DEF DestroyPeerManager
  <2>4. /\ UNCHANGED <<daemon, client, tasks, kind, pool, io, vf>>
        /\ port' = IF port = t THEN None ELSE port
    BY <1>2 DEF DestroyPeerManager, threads
  <2>5. late' \in [Tasks -> SUBSET Callbacks]
    <3>1. late \in [Tasks -> SUBSET Callbacks]
      BY DEF LifeInv, TypeOK
    <3>2. PICK S \in SUBSET Callbacks : late' = [late EXCEPT ![t] = S]
      BY <1>2, Zenon DEF DestroyPeerManager, Callbacks
    <3> QED  BY <3>1, <3>2, Zenon
  <2>6. TypeOK'
    BY <2>2, <2>3, <2>4, <2>5 DEF LifeInv, TypeOK
  <2>7. HalfDestroyed'
    <3>1. port' # t
      BY <2>1, <2>4, TaskLifeAssumption
    <3>2. t \in Tasks \ tasks' /\ {"io_pool", "verify_pool"} \subseteq own'[t]
      BY <2>1, <2>3, <2>4
    <3> QED  BY <2>2, <3>1, <3>2 DEF HalfDestroyed
  <2> QED  BY <2>1, <2>2, <2>3, <2>4, <2>6, <2>7, DestroyStepLife, Zenon
<1>3. CASE VerifyStop
  <2>1. t \in Tasks \ tasks /\ {"io_pool", "verify_pool"} \subseteq own[t]
        /\ loop.pc = "verify_stop" /\ port # t
    BY <1>3 DEF LifeInv, HalfDestroyed, VerifyStop, Destroying
  <2>2. /\ loop'.pc = "verify_join" /\ loop'.task = t
        /\ loop' \in [pc : Steps, task : Tasks \union {None},
                      client : Clients \union {None}, answer : Answers]
    BY <1>0, <1>3, ThenFacts DEF VerifyStop
  <2>3. UNCHANGED <<daemon, client, tasks, kind, own, late, io, vf, port>>
    BY <1>3, Zenon DEF VerifyStop, objects, threads
  <2>4. pool' \in [Tasks -> Pools]
    <3>1. pool \in [Tasks -> Pools]
      BY DEF LifeInv, TypeOK, Pools
    <3>2. pool' = [pool EXCEPT ![t] = [pool[t] EXCEPT !.vf_running = FALSE,
                                                    !.poison = Cardinality(VerifyWorkers)]]
      BY <1>3, <2>1, <3>1, Zenon DEF VerifyStop
    <3> QED  BY <2>1, <3>1, <3>2, PoolUpdates, PoolReplaced, Zenon
  <2>5. TypeOK'
    BY <2>2, <2>3, <2>4 DEF LifeInv, TypeOK, Pools
  <2>6. HalfDestroyed'
    BY <2>1, <2>2, <2>3, Zenon DEF HalfDestroyed
  <2> QED  BY <2>1, <2>2, <2>3, <2>5, <2>6, DestroyStepLife
<1>4. CASE VerifyJoin
  <2>1. t \in Tasks \ tasks /\ "io_pool" \in own[t] /\ loop.pc = "verify_join" /\ port # t
    BY <1>4 DEF LifeInv, HalfDestroyed, VerifyJoin, Destroying
  <2>2. /\ loop'.pc = "io_stop" /\ loop'.task = t
        /\ loop' \in [pc : Steps, task : Tasks \union {None},
                      client : Clients \union {None}, answer : Answers]
    BY <1>0, <1>4, ThenFacts DEF VerifyJoin
  <2>3. /\ own' \in [Tasks -> SUBSET Members] /\ own'[t] = own[t] \ {"verify_pool"}
        /\ \A u \in Tasks : u # t => own'[u] = own[u]
    BY <1>4, <2>1, DropFacts DEF VerifyJoin
  <2>4. UNCHANGED <<daemon, client, tasks, kind, late, io, vf, port>>
    BY <1>4, Zenon DEF VerifyJoin, threads
  <2>5. pool' \in [Tasks -> Pools]
    <3>1. pool \in [Tasks -> Pools]
      BY DEF LifeInv, TypeOK, Pools
    <3>2. pool' = [pool EXCEPT ![t] = [pool[t] EXCEPT !.chunks = 0, !.poison = 0]]
      BY <1>4, <2>1, <3>1, Zenon DEF VerifyJoin
    <3> QED  BY <2>1, <3>1, <3>2, PoolUpdates, PoolReplaced, Zenon
  <2>6. VStopped(t)
    BY <1>4 DEF VStopped, VerifyJoin
  <2>7. TypeOK'
    BY <2>2, <2>3, <2>4, <2>5, Zenon DEF LifeInv, TypeOK, Pools
  <2>8. HalfDestroyed'
    BY <2>1, <2>2, <2>3, <2>4, <2>6 DEF HalfDestroyed, VStopped
  <2> QED  BY <2>1, <2>2, <2>3, <2>4, <2>7, <2>8, DestroyStepLife
<1> QED  BY <1>1, <1>2, <1>3, <1>4

\* The join of the I/O threads and what comes after it.
LEMMA DestroyLastLife ==
    ASSUME LifeInv, IOStop \/ IOJoin
    PROVE  LifeInv'
<1> DEFINE t == loop.task
<1>1. CASE IOStop
  <2>1. t \in Tasks \ tasks /\ "io_pool" \in own[t] /\ loop.pc = "io_stop"
        /\ port # t /\ VStopped(t)
    BY <1>1 DEF LifeInv, HalfDestroyed, IOStop, Destroying
  <2>2. /\ loop'.pc = "io_join" /\ loop'.task = t
        /\ loop' \in [pc : Steps, task : Tasks \union {None},
                      client : Clients \union {None}, answer : Answers]
    BY <1>1, ThenFacts DEF IOStop, Steps
  <2>3. UNCHANGED <<daemon, client, tasks, kind, own, late, vf, port>>
    BY <1>1, Zenon DEF IOStop, objects
  <2>4. pool' \in [Tasks -> Pools]
    <3>1. pool \in [Tasks -> Pools]
      BY DEF LifeInv, TypeOK, Pools
    <3>2. pool' = [pool EXCEPT ![t] = [pool[t] EXCEPT !.io_running = FALSE]]
      BY <1>1, <2>1, <3>1, Zenon DEF IOStop
    <3> QED  BY <2>1, <3>1, <3>2, PoolUpdates, PoolReplaced, Zenon
  <2>5. Woken(t, IOWorkers) \in [IOWorkers -> IOPC]
    <3>1. io[t] \in [IOWorkers -> IOPC] /\ "check" \in IOPC
      BY <2>1 DEF LifeInv, TypeOK, IOPC
    <3> QED  BY <3>1 DEF Woken
  <2>6. io' \in [Tasks -> [IOWorkers -> IOPC]] /\ \A u \in Tasks : u # t => io'[u] = io[u]
    BY <1>1, <2>1, <2>5 DEF LifeInv, TypeOK, IOStop
  <2>7. TypeOK'
    BY <2>2, <2>3, <2>4, <2>6, Zenon DEF LifeInv, TypeOK, Pools
  <2>8. HalfDestroyed'
    BY <2>1, <2>2, <2>3 DEF HalfDestroyed, VStopped
  <2> QED  BY <2>1, <2>2, <2>3, <2>6, <2>7, <2>8, DestroyStepLife
<1>2. CASE IOJoin
  <2>1. t \in Tasks \ tasks /\ loop.pc = "io_join" /\ port # t /\ VStopped(t)
    BY <1>2, Zenon DEF LifeInv, HalfDestroyed, IOJoin, Destroying
  <2>2. /\ own' \in [Tasks -> SUBSET Members] /\ own'[t] = own[t] \ (Members \ {"seed_fd"})
        /\ \A u \in Tasks : u # t => own'[u] = own[u]
    BY <1>2, <2>1, DropFacts DEF IOJoin
  <2>3. own'[t] \subseteq {"seed_fd"}
    BY <2>1, <2>2 DEF LifeInv, TypeOK
  <2>4. /\ kind' \in [Tasks -> {"none", "seed", "add", "gone"}]
        /\ \A u \in Tasks : u # t => kind'[u] = kind[u]
    BY <1>2, <2>1 DEF LifeInv, TypeOK, IOJoin
  <2>5. /\ UNCHANGED <<daemon, tasks, late, io, vf, port>> /\ loop' = IdleLoop
        /\ loop'.pc = "idle"
    BY <1>2, Zenon DEF IOJoin, threads, IdleLoop
  <2>6. pool' \in [Tasks -> Pools]
    <3>1. pool \in [Tasks -> Pools] /\ pool' = [pool EXCEPT ![t] = NewPool]
      BY <1>2 DEF LifeInv, TypeOK, Pools, IOJoin
    <3> QED  BY <2>1, <3>1, NewPoolType, PoolReplaced, Zenon
  <2>7. client' \in [Clients -> Commands \union Answers]
    BY <1>2 DEF LifeInv, TypeOK, IOJoin
  <2>8. loop' \in [pc : Steps, task : Tasks \union {None},
                   client : Clients \union {None}, answer : Answers]
    BY <2>5 DEF IdleLoop, Steps, Answers
  <2>9. TypeOK'
    BY <2>2, <2>4, <2>5, <2>6, <2>7, <2>8, Zenon DEF LifeInv, TypeOK, Pools
  <2>10. Stopped(t)
    BY <1>2, <2>1, Zenon DEF Stopped, VStopped, IOJoin
  <2>11. StoredIsWhole'
    <3>1. \A u \in Tasks : u \in tasks =>
              u # t /\ kind[u] \in {"seed", "add"} /\ own[u] = PartsOf(kind[u]) /\ port = u
      BY <2>1 DEF LifeInv, StoredIsWhole
    <3>2. \A u \in Tasks : u \in tasks =>
              kind'[u] \in {"seed", "add"} /\ own'[u] = PartsOf(kind'[u]) /\ port = u
      BY <2>2, <2>4, <3>1
    <3> QED  BY <2>5, <3>2 DEF StoredIsWhole
  <2>12. OthersAreGone'
    <3>1. \A u \in Tasks : u \notin tasks => own'[u] \subseteq {"seed_fd"} /\ Stopped(u) /\ port # u
      BY <2>1, <2>2, <2>3, <2>10 DEF LifeInv, OthersAreGone
    <3> QED  BY <2>5, <3>1 DEF OthersAreGone, Stopped
  <2>13. HalfDestroyed'
    BY <2>5 DEF HalfDestroyed
  <2> QED  BY <2>9, <2>11, <2>12, <2>13 DEF LifeInv
<1> QED  BY <1>1, <1>2, Zenon

\* Every step preserves the invariant.
LEMMA NextLife == LifeInv /\ [Next]_vars => LifeInv'
<1> SUFFICES ASSUME LifeInv, [Next]_vars PROVE LifeInv'
  OBVIOUS
<1>1. ASSUME NEW c \in Clients, NEW cmd \in Commands, Ask(c, cmd)
      PROVE  LifeInv'
  BY <1>1, ClientLife, Zenon DEF Ask
<1>2. ASSUME NEW c \in Clients, Handle(c)
      PROVE  LifeInv'
  BY <1>2, HandleLife
<1>3. CASE Destroy
  <2>1. {} \in SUBSET {"announce", "read"}
    OBVIOUS
  <2> QED  BY <1>3, <2>1, DestroyFirstLife, DestroyLastLife, Zenon DEF Destroy
<1>4. ASSUME NEW t \in Tasks, NEW w \in IOWorkers, IOStep(t, w) \/ Dispatch(t, w)
      PROVE  LifeInv'
  BY <1>4, IOStepLife, DispatchLife
<1>5. ASSUME NEW t \in Tasks, NEW v \in VerifyWorkers, VStep(t, v)
      PROVE  LifeInv'
  BY <1>5, VStepLife
<1>6. ASSUME NEW t \in Tasks, NEW k \in Callbacks, LateCallback(t, k)
      PROVE  LifeInv'
  BY <1>6, LateLife
<1>7. ASSUME NEW t \in Tasks, RetryThrows(t)
      PROVE  LifeInv'
  BY <1>7, LateLife DEF Callbacks
<1>8. CASE Leave
  <2>1. CASE Exit
    BY <2>1, GoneLife DEF Exit
  <2>2. ASSUME NEW t \in Tasks, DestroyNext(t)
        PROVE  LifeInv'
    <3>1. loop' = [pc |-> "writer", task |-> t, client |-> None, answer |-> "ok"]
      BY <2>2, Zenon DEF DestroyNext, IdleLoop
    <3> QED  BY <2>2, <3>1, TakenLife, Zenon DEF DestroyNext
  <2> QED  BY <1>8, <2>1, <2>2 DEF Leave
<1>9. CASE UNCHANGED vars
  <2>1. TypeOK'
    BY <1>9, Zenon DEF LifeInv, TypeOK, vars, objects, threads
  <2>2. Quiet
    BY <1>9 DEF Quiet, Stopped, VStopped, vars, objects, threads
  <2> QED  BY <2>1, <2>2, QuietLife, Zenon
<1> QED  BY <1>1, <1>2, <1>3, <1>4, <1>5, <1>6, <1>7, <1>8, <1>9 DEF Next

-----------------------------------------------------------------------------
\* The invariant holds in every state of every run.
THEOREM LifeInvariant == Spec => []LifeInv
BY InitLife, NextLife, PTL DEF Spec

\* Threads, queues, members and the steps of the event loop keep their ranges.
THEOREM TypeCorrect == Spec => []TypeOK
<1>1. LifeInv => TypeOK
  BY DEF LifeInv
<1> QED  BY <1>1, LifeInvariant, PTL

\* Between two handlers a task is stored and whole, or nothing of it is left
\* but the descriptor of a seed: no other member, no thread, not the port.
\* This covers failed starts, removals and the exit of the daemon, for any
\* number of threads in any state.
THEOREM OnlyDescriptorsAreLeft == Spec => []OnlyDescriptorsLeft
<1>1. LifeInv => OnlyDescriptorsLeft
  BY DEF LifeInv, StoredIsWhole, OthersAreGone, OnlyDescriptorsLeft
<1> QED  BY <1>1, LifeInvariant, PTL
=============================================================================
