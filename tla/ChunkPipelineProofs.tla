------------------------ MODULE ChunkPipelineProofs ------------------------
(* Proofs about ChunkPipeline for any seed, any number of threads and any   *)
(* routing of sub-blocks to I/O threads.                                    *)
EXTENDS ChunkPipeline, FiniteSetTheorems, TLAPS

\* A thread that is past its memcpy, and every bit that is set, stand for
\* bytes that are there.
MarkedIsWritten ==
    /\ \A w \in IOWorkers :
          io[w].pc \in {"mark", "count", "notify"} => mem[io[w].piece.sub] # "none"
    /\ \A sub \in completed_mask : mem[sub] # "none"

\* Only the thread that set a bit decrements for it.
CounterOwned ==
    /\ \A w \in IOWorkers : io[w].pc = "count" => io[w].piece.sub \in completed_mask
    /\ \A w1, w2 \in IOWorkers :
          /\ io[w1].pc = "count"
          /\ io[w2].pc = "count"
          /\ io[w1].piece.sub = io[w2].piece.sub
          => w1 = w2

\* Only the thread that took the counter to zero reports the chunk.
ReportOwned ==
    /\ \A w \in IOWorkers :
          io[w].pc = "notify" => /\ pending_count[io[w].piece.sub[1]] = 0
                                 /\ announced[io[w].piece.sub[1]] = 0
    /\ \A w1, w2 \in IOWorkers :
          /\ io[w1].pc = "notify"
          /\ io[w2].pc = "notify"
          /\ io[w1].piece.sub[1] = io[w2].piece.sub[1]
          => w1 = w2
    /\ \A c \in Chunks :
          announced[c] # 0 => announced[c] = 1 /\ pending_count[c] = 0

\* The inductive invariant: the counter is exact, and marking, counting and
\* reporting each have one owner.
IndInv ==
    /\ TypeOK
    /\ PendingCountExact
    /\ MarkedIsWritten
    /\ CounterOwned
    /\ ReportOwned

-----------------------------------------------------------------------------
\* A sub-block names its chunk, and every chunk has a first one.
LEMMA SubsFacts ==
    /\ \A sub \in Subs : sub[1] \in Chunks /\ sub \in SubsOf(sub[1])
    /\ \A c \in Chunks : SubsOf(c) \subseteq Subs
    /\ \A c \in Chunks : \A sub \in SubsOf(c) : sub[1] = c
    /\ <<0, 0>> \in Subs
    /\ 0 \in Chunks
<1>1. \A c \in Chunks : \A sub \in SubsOf(c) : sub[1] = c
  BY DEF SubsOf
<1>2. 0 \in Chunks
  BY ChunksAssumption DEF Chunks
<1>3. <<0, 0>> \in SubsOf(0)
  <2>1. 0 \in 0 .. TotalSlots(0) - 1
    BY <1>2, ChunksAssumption
  <2> QED  BY <2>1 DEF SubsOf
<1> QED  BY <1>1, <1>2, <1>3 DEF Subs

\* init(): a chunk has total_slots_ sub-blocks, finitely many and at least one.
LEMMA SlotCount ==
    \A c \in Chunks : /\ IsFiniteSet(SubsOf(c))
                      /\ Cardinality(SubsOf(c)) = TotalSlots(c)
<1> SUFFICES ASSUME NEW c \in Chunks
             PROVE  IsFiniteSet(SubsOf(c)) /\ Cardinality(SubsOf(c)) = TotalSlots(c)
  OBVIOUS
<1>1. TotalSlots(c) \in Nat \ {0}
  BY ChunksAssumption
<1> DEFINE I == 0 .. TotalSlots(c) - 1
<1>2. IsFiniteSet(I) /\ Cardinality(I) = TotalSlots(c)
  <2> SUFFICES ASSUME NEW n \in Nat \ {0}
               PROVE  IsFiniteSet(0 .. n - 1) /\ Cardinality(0 .. n - 1) = n
    BY <1>1
  <2>1. 0 \in Int /\ n - 1 \in Int /\ ~(0 > n - 1) /\ n - 1 - 0 + 1 = n
    OBVIOUS
  <2> QED  BY <2>1, FS_Interval
<1>3. IsFiniteSet({c}) /\ Cardinality({c}) = 1
  BY FS_Singleton
<1>4. /\ IsFiniteSet({c} \X I)
      /\ Cardinality({c} \X I) = Cardinality({c}) * Cardinality(I)
  <2> HIDE DEF I
  <2> QED  BY <1>2, <1>3, FS_Product
<1> QED  BY <1>1, <1>2, <1>3, <1>4 DEF SubsOf

\* The ring arithmetic stays inside the ring.
LEMMA RingRange ==
    ASSUME NEW n \in Int
    PROVE  n % RingSize \in 0 .. RingSize - 1
  BY WorkersAssumption

\* The slots of the result queue between its two ends are finitely many.
LEMMA RingIndicesFinite ==
    ASSUME TypeOK
    PROVE  RingIndices \subseteq 0 .. RingSize - 1 /\ IsFiniteSet(RingIndices)
<1>1. RingIndices \subseteq 0 .. RingSize - 1
  BY RingRange DEF RingIndices, TypeOK
<1>2. IsFiniteSet(0 .. RingSize - 1)
  BY FS_Interval, WorkersAssumption
<1> QED  BY <1>1, <1>2, FS_Subset, Zenon

-----------------------------------------------------------------------------
\* The sub-blocks still to be counted are finitely many.
LEMMA OpenSubsFacts ==
    \A c \in Chunks : /\ OpenSubs(c) \subseteq SubsOf(c)
                      /\ IsFiniteSet(OpenSubs(c))
                      /\ Cardinality(OpenSubs(c)) \in Nat
  BY SlotCount, FS_Subset, FS_CardinalityType DEF OpenSubs

\* A thread about to decrement finds the counter above zero.
LEMMA CountPositive ==
    ASSUME IndInv, NEW w \in IOWorkers, io[w].pc = "count"
    PROVE  /\ io[w].piece.sub \in OpenSubs(io[w].piece.sub[1])
           /\ pending_count[io[w].piece.sub[1]] \in Nat \ {0}
<1> DEFINE sub == io[w].piece.sub
<1>1. sub \in Subs
  BY DEF IndInv, TypeOK, IOThread, Piece
<1>2. sub[1] \in Chunks /\ sub \in SubsOf(sub[1])
  BY <1>1, SubsFacts
<1>3. sub \in OpenSubs(sub[1])
  BY <1>2 DEF OpenSubs
<1>4. Cardinality(OpenSubs(sub[1])) # 0
  BY <1>2, <1>3, OpenSubsFacts, FS_EmptySet
<1> QED  BY <1>2, <1>3, <1>4, OpenSubsFacts DEF IndInv, PendingCountExact

\* Moving a thread to another step keeps its record well-typed.
LEMMA ThreadTypes ==
    /\ IdleIO \in IOThread
    /\ IdleVW \in VerifyThread
    /\ \A c \in Chunks : [IdleVW EXCEPT !.pc = "hash", !.chunk = c] \in VerifyThread
    /\ \A r \in IOThread, p \in {"mark", "count", "notify"} :
          [r EXCEPT !.pc = p] \in IOThread
    /\ \A r \in VerifyThread, p \in {"reserve", "hash", "construct", "publish"} :
          /\ [r EXCEPT !.pc = p] \in VerifyThread
          /\ \A t \in 0 .. RingSize - 1 :
                [r EXCEPT !.tail = t, !.pc = p] \in VerifyThread
          /\ \A b \in BOOLEAN, n \in Nat :
                [r EXCEPT !.ok = b, !.pos = n, !.pc = p] \in VerifyThread
<1>1. IdleIO \in IOThread
  BY SubsFacts DEF IdleIO, NoPiece, Piece, IOThread
<1>2. IdleVW \in VerifyThread
  BY SubsFacts, WorkersAssumption DEF IdleVW, VerifyThread
<1>3. \A r \in IOThread, p \in {"mark", "count", "notify"} :
          [r EXCEPT !.pc = p] \in IOThread
  BY DEF IOThread
<1>4. ASSUME NEW r \in VerifyThread,
             NEW p \in {"reserve", "hash", "construct", "publish"}
      PROVE  /\ [r EXCEPT !.pc = p] \in VerifyThread
             /\ \A t \in 0 .. RingSize - 1 :
                   [r EXCEPT !.tail = t, !.pc = p] \in VerifyThread
             /\ \A b \in BOOLEAN, n \in Nat :
                   [r EXCEPT !.ok = b, !.pos = n, !.pc = p] \in VerifyThread
  BY <1>4, Zenon DEF VerifyThread
<1>5. \A r \in VerifyThread, c \in Chunks :
          [r EXCEPT !.pc = "hash", !.chunk = c] \in VerifyThread
  BY Zenon DEF VerifyThread
<1> QED  BY <1>1, <1>2, <1>3, <1>4, <1>5, Zenon

\* The invariant holds when the assemblers have been initialised.
LEMMA InitInv == Init => IndInv
<1> SUFFICES ASSUME Init PROVE IndInv
  OBVIOUS
<1>1. TypeOK
  <2>2. 0 \in 0 .. RingSize - 1
    BY WorkersAssumption
  <2>3. [chunk |-> 0, passed |-> FALSE] \in Result
    BY SubsFacts DEF Result
  <2>4. pending_count \in [Chunks -> Nat]
    BY ChunksAssumption DEF Init
  <2>5. bad_count \in 0 .. MaxBad /\ missing_count \in Int
    BY ChunksAssumption, WorkersAssumption DEF Init
  <2>6. ring \in [0 .. RingSize - 1 -> Result]
    BY <2>3 DEF Init
  <2>7. /\ io \in [IOWorkers -> IOThread]
        /\ vw \in [VerifyWorkers -> VerifyThread]
    BY ThreadTypes, Zenon DEF Init
  <2> QED
    BY <2>2, <2>4, <2>5, <2>6, <2>7 DEF Init, TypeOK
<1>2. PendingCountExact
  <2> SUFFICES ASSUME NEW c \in Chunks
               PROVE  pending_count[c] = Cardinality(OpenSubs(c))
    BY DEF PendingCountExact
  <2>1. OpenSubs(c) = SubsOf(c)
    BY DEF Init, OpenSubs
  <2> QED  BY <2>1, SlotCount DEF Init
<1>3. MarkedIsWritten /\ CounterOwned /\ ReportOwned
  BY DEF Init, IdleIO, MarkedIsWritten, CounterOwned, ReportOwned
<1> QED  BY <1>1, <1>2, <1>3 DEF IndInv

\* Every step of every thread keeps the types.
LEMMA TypeStep ==
    ASSUME IndInv, [Next]_vars
    PROVE  TypeOK'
<1> USE DEF assembly, results, verdicts
<1>0. TypeOK
  BY DEF IndInv
<1>1. \A w \in IOWorkers : /\ io[w] \in IOThread
                           /\ io[w].piece.sub \in Subs
                           /\ io[w].piece.sub[1] \in Chunks
                           /\ io[w].piece.data \in {"good", "bad"}
  BY <1>0, SubsFacts DEF TypeOK, IOThread, Piece
<1>2. ASSUME NEW sub \in Subs, NEW d \in {"good", "bad"}, Dispatch(sub, d)
      PROVE  TypeOK'
  <2>1. [sub |-> sub, data |-> d] \in Piece
    BY DEF Piece
  <2>2. bad_count' \in 0 .. MaxBad
    BY <1>0, <1>2, WorkersAssumption DEF TypeOK, Dispatch
  <2>3. queue' \in [IOWorkers -> Seq(Piece)]
    BY <1>0, <1>2, <2>1, WorkersAssumption DEF TypeOK, Dispatch
  <2> QED  BY <1>0, <1>2, <2>2, <2>3, Zenon DEF TypeOK, Dispatch
<1>3. ASSUME NEW w \in IOWorkers, IODequeue(w)
      PROVE  TypeOK'
  <2>1. Head(queue[w]) \in Piece /\ Tail(queue[w]) \in Seq(Piece)
    BY <1>0, <1>3 DEF TypeOK, IODequeue
  <2>2. [pc |-> "copy", piece |-> Head(queue[w])] \in IOThread
    BY <2>1 DEF IOThread
  <2> QED  BY <1>0, <1>3, <2>1, <2>2 DEF TypeOK, IODequeue
<1>4. ASSUME NEW w \in IOWorkers, IOReject(w)
      PROVE  TypeOK'
  BY <1>0, <1>4, ThreadTypes, Zenon DEF TypeOK, IOReject
<1>5. ASSUME NEW w \in IOWorkers, IOCopy(w)
      PROVE  TypeOK'
  <2>1. [io[w] EXCEPT !.pc = "mark"] \in IOThread
    BY <1>1, ThreadTypes, Zenon
  <2>2. io' \in [IOWorkers -> IOThread]
    BY <1>0, <1>5, <2>1 DEF TypeOK, IOCopy
  <2>3. mem' \in [Subs -> {"none", "good", "bad"}]
    BY <1>0, <1>1, <1>5 DEF TypeOK, IOCopy
  <2> QED  BY <1>0, <1>5, <2>2, <2>3 DEF TypeOK, IOCopy
<1>6. ASSUME NEW w \in IOWorkers, IOMark(w)
      PROVE  TypeOK'
  <2>1. [io[w] EXCEPT !.pc = "count"] \in IOThread
    BY <1>1, ThreadTypes, Zenon
  <2>2. io' \in [IOWorkers -> IOThread]
    BY <1>0, <1>6, <2>1, ThreadTypes, Zenon DEF TypeOK, IOMark
  <2> QED  BY <1>0, <1>1, <1>6, <2>2 DEF TypeOK, IOMark
<1>7. ASSUME NEW w \in IOWorkers, IOCount(w)
      PROVE  TypeOK'
  <2>1. [io[w] EXCEPT !.pc = "notify"] \in IOThread
    BY <1>1, ThreadTypes, Zenon
  <2>2. io' \in [IOWorkers -> IOThread]
    BY <1>0, <1>7, <2>1, ThreadTypes, Zenon DEF TypeOK, IOCount
  <2>3. pending_count[io[w].piece.sub[1]] \in Nat \ {0}
    BY <1>7, CountPositive DEF IOCount
  <2>4. pending_count' \in [Chunks -> Nat]
    <3>1. pending_count[io[w].piece.sub[1]] - 1 \in Nat
      BY <2>3
    <3> QED  BY <1>0, <1>7, <3>1, Zenon DEF TypeOK, IOCount
  <2> QED  BY <1>0, <1>7, <2>2, <2>4, Zenon DEF TypeOK, IOCount
<1>8. ASSUME NEW w \in IOWorkers, IONotify(w)
      PROVE  TypeOK'
  <2>0. /\ task_queue \in [IOWorkers -> Seq(Chunks)]
        /\ announced \in [Chunks -> Nat]
        /\ io[w].piece.sub[1] \in Chunks
    BY <1>0, <1>1 DEF TypeOK
  <2>1. task_queue' \in [IOWorkers -> Seq(Chunks)]
    <3>1. Append(task_queue[w], io[w].piece.sub[1]) \in Seq(Chunks)
      BY <2>0
    <3> QED  BY <1>8, <2>0, <3>1 DEF IONotify
  <2>2. announced' \in [Chunks -> Nat]
    <3>1. announced[io[w].piece.sub[1]] + 1 \in Nat
      BY <2>0
    <3> QED  BY <1>8, <2>0, <3>1 DEF IONotify
  <2> QED  BY <1>0, <1>8, <2>1, <2>2, ThreadTypes, Zenon DEF TypeOK, IONotify
<1>9. ASSUME NEW v \in VerifyWorkers, VStep(v)
      PROVE  TypeOK'
  <2>1. vw[v] \in VerifyThread
    BY <1>0 DEF TypeOK
  <2>2. CASE VDequeue(v)
    <3>1. PICK w \in IOWorkers :
             /\ task_queue[w] # <<>>
             /\ vw' = [vw EXCEPT ![v] = [IdleVW EXCEPT !.pc = "hash",
                                             !.chunk = Head(task_queue[w])]]
             /\ task_queue' = [task_queue EXCEPT ![w] = Tail(@)]
             /\ UNCHANGED <<queue, io, assembly, results, verdicts, bad_count,
                            announced>>
      BY <2>2, Zenon DEF VDequeue
    <3>2. Head(task_queue[w]) \in Chunks /\ Tail(task_queue[w]) \in Seq(Chunks)
      BY <1>0, <3>1 DEF TypeOK
    <3>3. [IdleVW EXCEPT !.pc = "hash", !.chunk = Head(task_queue[w])] \in VerifyThread
      BY <3>2, ThreadTypes, Zenon
    <3> QED  BY <1>0, <3>1, <3>2, <3>3, Zenon DEF TypeOK
  <2>3. CASE VHash(v)
    <3> DEFINE ok == vw[v].ok /\ mem[<<vw[v].chunk, vw[v].pos>>] = "good"
               pos == vw[v].pos + 1
               pc == IF vw[v].pos + 1 = TotalSlots(vw[v].chunk)
                     THEN "reserve" ELSE "hash"
               r == [vw[v] EXCEPT !.ok = ok, !.pos = pos, !.pc = pc]
    <3>1. vw' = [vw EXCEPT ![v] = r]
      BY <2>3 DEF VHash
    <3>2. ok \in BOOLEAN /\ pos \in Nat /\ pc \in {"reserve", "hash"}
      BY <2>1 DEF VerifyThread
    <3>3. r \in VerifyThread
      <4> HIDE DEF ok, pos, pc
      <4> QED  BY <2>1, <3>2, ThreadTypes, Zenon
    <3> HIDE DEF r
    <3> QED  BY <1>0, <2>3, <3>1, <3>3 DEF TypeOK, VHash
  <2>4. CASE VReserve(v)
    <3>1. [vw[v] EXCEPT !.tail = ring_tail, !.pc = "construct"] \in VerifyThread
      BY <1>0, <2>1, ThreadTypes, Zenon DEF TypeOK
    <3> QED  BY <1>0, <2>4, <3>1 DEF TypeOK, VReserve
  <2>5. CASE VConstruct(v)
    <3>1. [vw[v] EXCEPT !.pc = "publish"] \in VerifyThread
      BY <2>1, ThreadTypes, Zenon
    <3>2. [chunk |-> vw[v].chunk, passed |-> vw[v].ok] \in Result
      BY <2>1 DEF VerifyThread, Result
    <3> QED  BY <1>0, <2>5, <3>1, <3>2, Zenon DEF TypeOK, VConstruct
  <2>6. CASE VPublish(v)
    <3>1. vw[v].tail \in Int /\ vw[v].chunk \in Chunks
      BY <2>1 DEF VerifyThread
    <3>2. ring_tail' \in 0 .. RingSize - 1
      BY <2>6, <3>1, RingRange DEF VPublish
    <3> QED  BY <1>0, <2>6, <3>1, <3>2, ThreadTypes, Zenon DEF TypeOK, VPublish
  <2> QED  BY <1>9, <2>2, <2>3, <2>4, <2>5, <2>6 DEF VStep
<1>10. CASE Drain
  <2> DEFINE P == {i \in RingIndices : ring[i].passed}
             S(c) == {i \in RingIndices : ring[i].chunk = c}
  <2>1. Cardinality(P) \in Nat /\ \A c \in Chunks : Cardinality(S(c)) \in Nat
    BY <1>0, RingIndicesFinite, FS_Subset, FS_CardinalityType
  <2>2. missing_count' \in Int
    BY <1>0, <1>10, <2>1 DEF TypeOK, Drain
  <2>3. delivered' \in [Chunks -> Nat]
    <3>1. delivered' = [c \in Chunks |-> delivered[c] + Cardinality(S(c))]
      BY <1>10 DEF Drain
    <3> HIDE DEF S
    <3> QED  BY <1>0, <2>1, <3>1 DEF TypeOK
  <2>4. chunk_states' \in [Chunks -> {"MISSING", "COMPLETE"}]
    BY <1>0, <1>10 DEF TypeOK, Drain
  <2> QED  BY <1>0, <1>10, <2>2, <2>3, <2>4 DEF TypeOK, Drain
<1>11. CASE UNCHANGED vars
  BY <1>0, <1>11 DEF TypeOK, vars
<1> QED
  BY <1>2, <1>3, <1>4, <1>5, <1>6, <1>7, <1>8, <1>9, <1>10, <1>11
  DEF Next, IOStep

-----------------------------------------------------------------------------
\* The steps of a thread after its memcpy.
PastCopy == {"mark", "count", "notify"}

\* In a step of w the other threads do not move.
OthersWait(w) == \A u \in IOWorkers : u # w => io'[u] = io[u]

\* No thread enters the steps P, or changes its piece there.
Stays(P) ==
    \A u \in IOWorkers :
        io'[u].pc \in P => io[u].pc \in P /\ io'[u].piece = io[u].piece

\* No thread enters P when the one that moves does not.
LEMMA StaysByOne ==
    ASSUME NEW w \in IOWorkers, NEW P, OthersWait(w),
           io'[w].pc \in P => io[w].pc \in P /\ io'[w].piece = io[w].piece
    PROVE  Stays(P)
<1> SUFFICES ASSUME NEW u \in IOWorkers, io'[u].pc \in P
             PROVE  io[u].pc \in P /\ io'[u].piece = io[u].piece
  BY DEF Stays
<1>1. CASE u = w
  BY <1>1
<1>2. CASE u # w
  BY <1>2 DEF OthersWait
<1> QED  BY <1>1, <1>2

\* The counters stay exact when no thread starts or ends counting.
LEMMA CounterKept ==
    ASSUME PendingCountExact, UNCHANGED <<completed_mask, pending_count>>,
           \A w \in IOWorkers :
              \/ io'[w] = io[w]
              \/ io[w].pc # "count" /\ io'[w].pc # "count"
    PROVE  PendingCountExact'
<1>1. ASSUME NEW c \in Chunks
      PROVE  OpenSubs(c)' = OpenSubs(c)
  BY DEF OpenSubs
<1> QED  BY <1>1 DEF PendingCountExact

\* Marked sub-blocks stay written when no byte changes and only a thread past
\* its memcpy sets a bit.
LEMMA MarkedKept ==
    ASSUME MarkedIsWritten, mem' = mem, Stays(PastCopy),
           \A sub \in completed_mask' :
              \/ sub \in completed_mask
              \/ \E u \in IOWorkers : io[u].pc \in PastCopy /\ sub = io[u].piece.sub
    PROVE  MarkedIsWritten'
<1>1. ASSUME NEW u \in IOWorkers, io[u].pc \in PastCopy
      PROVE  mem[io[u].piece.sub] # "none"
  BY <1>1 DEF MarkedIsWritten, PastCopy
<1>2. ASSUME NEW u \in IOWorkers, io'[u].pc \in PastCopy
      PROVE  mem'[io'[u].piece.sub] # "none"
  <2>1. io[u].pc \in PastCopy /\ io'[u].piece = io[u].piece
    BY <1>2 DEF Stays
  <2> QED  BY <1>1, <2>1
<1>3. ASSUME NEW sub \in completed_mask'
      PROVE  mem'[sub] # "none"
  <2>1. CASE sub \in completed_mask
    BY <2>1 DEF MarkedIsWritten
  <2>2. CASE \E u \in IOWorkers : io[u].pc \in PastCopy /\ sub = io[u].piece.sub
    BY <1>1, <2>2
  <2> QED  BY <1>3, <2>1, <2>2
<1> QED  BY <1>2, <1>3 DEF MarkedIsWritten, PastCopy

\* Decrements keep their owner when no thread starts counting.
LEMMA CounterOwnerKept ==
    ASSUME CounterOwned, Stays({"count"}), completed_mask \subseteq completed_mask'
    PROVE  CounterOwned'
<1>1. ASSUME NEW u \in IOWorkers, io'[u].pc = "count"
      PROVE  io[u].pc = "count" /\ io'[u].piece = io[u].piece
  BY <1>1 DEF Stays
<1>2. ASSUME NEW u \in IOWorkers, io'[u].pc = "count"
      PROVE  io'[u].piece.sub \in completed_mask'
  BY <1>1, <1>2 DEF CounterOwned
<1>3. ASSUME NEW u1 \in IOWorkers, NEW u2 \in IOWorkers,
             io'[u1].pc = "count", io'[u2].pc = "count",
             io'[u1].piece.sub = io'[u2].piece.sub
      PROVE  u1 = u2
  <2>1. io[u1].pc = "count" /\ io'[u1].piece = io[u1].piece
    BY <1>1, <1>3
  <2>2. io[u2].pc = "count" /\ io'[u2].piece = io[u2].piece
    BY <1>1, <1>3
  <2>3. io[u1].piece.sub = io[u2].piece.sub
    BY <1>3, <2>1, <2>2
  <2> QED  BY <2>1, <2>2, <2>3 DEF CounterOwned
<1> QED  BY <1>2, <1>3 DEF CounterOwned

\* At most one thread is about to report a chunk when no thread joins in.
LEMMA ReporterKept ==
    ASSUME ReportOwned, Stays({"notify"})
    PROVE  \A u1, u2 \in IOWorkers :
              /\ io'[u1].pc = "notify"
              /\ io'[u2].pc = "notify"
              /\ io'[u1].piece.sub[1] = io'[u2].piece.sub[1]
              => u1 = u2
<1> SUFFICES ASSUME NEW u1 \in IOWorkers, NEW u2 \in IOWorkers,
                    io'[u1].pc = "notify", io'[u2].pc = "notify",
                    io'[u1].piece.sub[1] = io'[u2].piece.sub[1]
             PROVE  u1 = u2
  OBVIOUS
<1>1. io[u1].pc = "notify" /\ io'[u1].piece = io[u1].piece
  BY DEF Stays
<1>2. io[u2].pc = "notify" /\ io'[u2].piece = io[u2].piece
  BY DEF Stays
<1>3. io[u1].piece.sub[1] = io[u2].piece.sub[1]
  BY <1>1, <1>2
<1> QED  BY <1>1, <1>2, <1>3 DEF ReportOwned

\* Reports keep their owner when no counter changes and none is made.
LEMMA ReportOwnerKept ==
    ASSUME ReportOwned, Stays({"notify"}), UNCHANGED <<pending_count, announced>>
    PROVE  ReportOwned'
<1>1. ASSUME NEW u \in IOWorkers, io'[u].pc = "notify"
      PROVE  /\ pending_count'[io'[u].piece.sub[1]] = 0
             /\ announced'[io'[u].piece.sub[1]] = 0
  <2>1. io[u].pc = "notify" /\ io'[u].piece = io[u].piece
    BY <1>1 DEF Stays
  <2>2. pending_count[io[u].piece.sub[1]] = 0 /\ announced[io[u].piece.sub[1]] = 0
    BY <2>1 DEF ReportOwned
  <2> QED  BY <2>1, <2>2
<1>2. \A c \in Chunks : announced'[c] # 0 => announced'[c] = 1 /\ pending_count'[c] = 0
  BY DEF ReportOwned
<1> QED  BY <1>1, <1>2, ReporterKept DEF ReportOwned

\* Steps that leave the assemblers, the I/O threads and the history alone.
LEMMA OtherStep ==
    ASSUME IndInv, UNCHANGED <<io, assembly, announced>>
    PROVE  PendingCountExact' /\ MarkedIsWritten' /\ CounterOwned' /\ ReportOwned'
<1>1. PendingCountExact'
  BY CounterKept DEF IndInv, assembly
<1>2. MarkedIsWritten' /\ CounterOwned' /\ ReportOwned'
  BY DEF IndInv, assembly, MarkedIsWritten, CounterOwned, ReportOwned
<1> QED  BY <1>1, <1>2

\* Steps of a thread before it reaches its fetch_or.
LEMMA EarlyStep ==
    ASSUME IndInv, NEW w \in IOWorkers,
           IODequeue(w) \/ IOReject(w) \/ IOCopy(w)
    PROVE  PendingCountExact' /\ MarkedIsWritten' /\ CounterOwned' /\ ReportOwned'
<1>1. io \in [IOWorkers -> IOThread]
  BY DEF IndInv, TypeOK
<1>2. /\ OthersWait(w)
      /\ io[w].pc \in {"idle", "copy"}
      /\ io'[w].pc \in {"idle", "copy", "mark"}
      /\ UNCHANGED <<completed_mask, pending_count, announced>>
  <2>1. CASE IODequeue(w)
    BY <1>1, <2>1 DEF IODequeue, OthersWait, assembly
  <2>2. CASE IOReject(w)
    BY <1>1, <2>2 DEF IOReject, IdleIO, OthersWait, assembly
  <2>3. CASE IOCopy(w)
    BY <1>1, <2>3 DEF IOThread, IOCopy, OthersWait
  <2> QED  BY <2>1, <2>2, <2>3
<1>3. PendingCountExact'
  BY <1>2, CounterKept DEF IndInv, OthersWait
<1>4. CounterOwned'
  <2>1. Stays({"count"})
    BY <1>2, StaysByOne
  <2> QED  BY <1>2, <2>1, CounterOwnerKept DEF IndInv
<1>5. ReportOwned'
  <2>1. Stays({"notify"})
    BY <1>2, StaysByOne
  <2> QED  BY <1>2, <2>1, ReportOwnerKept DEF IndInv
<1>6. MarkedIsWritten'
  <2>1. CASE IODequeue(w) \/ IOReject(w)
    <3>1. mem' = mem /\ io'[w].pc \in {"idle", "copy"}
      <4>1. CASE IODequeue(w)
        BY <1>1, <4>1 DEF IODequeue, assembly
      <4>2. CASE IOReject(w)
        BY <1>1, <4>2 DEF IOReject, IdleIO, assembly
      <4> QED  BY <2>1, <4>1, <4>2
    <3>2. Stays(PastCopy)
      BY <1>2, <3>1, StaysByOne DEF PastCopy
    <3> QED  BY <1>2, <3>1, <3>2, MarkedKept DEF IndInv
  <2>2. CASE IOCopy(w)
    <3>1. /\ io'[w].piece = io[w].piece
          /\ mem' = [mem EXCEPT ![io[w].piece.sub] = io[w].piece.data]
      BY <1>1, <2>2 DEF IOThread, IOCopy
    <3>2. /\ mem \in [Subs -> {"none", "good", "bad"}]
          /\ completed_mask \subseteq Subs
          /\ \A u \in IOWorkers : io[u].piece.sub \in Subs
          /\ io[w].piece.data # "none"
      BY Zenon DEF IndInv, TypeOK, IOThread, Piece
    <3>3. /\ mem'[io[w].piece.sub] # "none"
          /\ \A sub \in Subs : mem[sub] # "none" => mem'[sub] # "none"
      BY <3>1, <3>2
    <3>4. ASSUME NEW u \in IOWorkers, io'[u].pc \in PastCopy
          PROVE  mem'[io'[u].piece.sub] # "none"
      <4>1. CASE u = w
        BY <3>1, <3>3, <4>1
      <4>2. CASE u # w
        <5>1. io'[u] = io[u]
          BY <1>2, <4>2 DEF OthersWait
        <5>2. mem[io[u].piece.sub] # "none"
          BY <3>4, <5>1 DEF IndInv, MarkedIsWritten, PastCopy
        <5> QED  BY <3>2, <3>3, <5>1, <5>2
      <4> QED  BY <4>1, <4>2
    <3>5. \A sub \in completed_mask' : mem'[sub] # "none"
      BY <1>2, <3>2, <3>3 DEF IndInv, MarkedIsWritten
    <3> QED  BY <3>4, <3>5 DEF MarkedIsWritten, PastCopy
  <2> QED  BY <2>1, <2>2
<1> QED  BY <1>3, <1>4, <1>5, <1>6

\* on_piece at its fetch_or: the thread that sets the bit will count it.
LEMMA MarkStep ==
    ASSUME IndInv, NEW w \in IOWorkers, IOMark(w)
    PROVE  PendingCountExact' /\ MarkedIsWritten' /\ CounterOwned' /\ ReportOwned'
<1> DEFINE sub == io[w].piece.sub
<1>1. io \in [IOWorkers -> IOThread]
  BY DEF IndInv, TypeOK
<1>2. /\ OthersWait(w)
      /\ io[w].pc = "mark"
      /\ UNCHANGED <<mem, pending_count, announced>>
      /\ completed_mask' = completed_mask \union {sub}
  BY <1>1 DEF IOMark, OthersWait
<1>3. IF sub \in completed_mask THEN io'[w].pc = "idle"
                                ELSE io'[w].pc = "count" /\ io'[w].piece = io[w].piece
  BY <1>1 DEF IOMark, IOThread, IdleIO
<1>4. MarkedIsWritten'
  <2>1. Stays(PastCopy)
    BY <1>2, <1>3, StaysByOne DEF PastCopy
  <2>2. io[w].pc \in PastCopy
    BY <1>2 DEF PastCopy
  <2> QED  BY <1>2, <2>1, <2>2, MarkedKept DEF IndInv
<1>5. ReportOwned'
  <2>1. Stays({"notify"})
    BY <1>2, <1>3, StaysByOne
  <2> QED  BY <1>2, <2>1, ReportOwnerKept DEF IndInv
<1>6. CASE sub \in completed_mask
  <2>1. io'[w].pc = "idle" /\ completed_mask' = completed_mask
    BY <1>2, <1>3, <1>6
  <2>2. PendingCountExact'
    BY <1>2, <2>1, CounterKept DEF IndInv, OthersWait
  <2>3. Stays({"count"})
    BY <1>2, <2>1, StaysByOne
  <2>4. CounterOwned'
    BY <2>1, <2>3, CounterOwnerKept DEF IndInv
  <2> QED  BY <1>4, <1>5, <2>2, <2>4
<1>7. CASE sub \notin completed_mask
  <2>1. io'[w].pc = "count" /\ io'[w].piece = io[w].piece
    BY <1>3, <1>7
  <2>2. ASSUME NEW u \in IOWorkers, io[u].pc = "count"
        PROVE  io[u].piece.sub \in completed_mask
    BY <2>2 DEF IndInv, CounterOwned
  <2>3. ASSUME NEW x
        PROVE  (\E u \in IOWorkers : io'[u].pc = "count" /\ io'[u].piece.sub = x)
                   <=> \/ x = sub
                       \/ \E u \in IOWorkers : io[u].pc = "count" /\ io[u].piece.sub = x
    BY <1>2, <2>1 DEF OthersWait
  <2>4. \A c \in Chunks : OpenSubs(c)' = OpenSubs(c)
    <3>1. ASSUME NEW x
          PROVE  (\/ x \notin completed_mask'
                  \/ \E u \in IOWorkers : io'[u].pc = "count" /\ io'[u].piece.sub = x)
                     <=> \/ x \notin completed_mask
                         \/ \E u \in IOWorkers :
                               io[u].pc = "count" /\ io[u].piece.sub = x
      <4>1. x \in completed_mask' <=> x \in completed_mask \/ x = sub
        BY <1>2
      <4> QED  BY <1>7, <2>3, <4>1
    <3> QED  BY <3>1 DEF OpenSubs
  <2>5. PendingCountExact'
    BY <1>2, <2>4 DEF IndInv, PendingCountExact
  <2>6. ASSUME NEW u \in IOWorkers, u # w, io'[u].pc = "count"
        PROVE  io'[u] = io[u] /\ io'[u].piece.sub \in completed_mask
    BY <1>2, <2>2, <2>6 DEF OthersWait
  <2>7. ASSUME NEW u1 \in IOWorkers, NEW u2 \in IOWorkers,
               io'[u1].pc = "count", io'[u2].pc = "count",
               io'[u1].piece.sub = io'[u2].piece.sub
        PROVE  u1 = u2
    <3>1. CASE u1 # w /\ u2 # w
      <4>1. io'[u1] = io[u1] /\ io'[u2] = io[u2]
        BY <2>6, <2>7, <3>1
      <4> QED  BY <2>7, <4>1 DEF IndInv, CounterOwned
    <3>2. CASE u1 = w \/ u2 = w
      BY <1>7, <2>1, <2>6, <2>7, <3>2
    <3> QED  BY <3>1, <3>2
  <2>8. ASSUME NEW u \in IOWorkers, io'[u].pc = "count"
        PROVE  io'[u].piece.sub \in completed_mask'
    BY <1>2, <2>1, <2>6, <2>8
  <2>9. CounterOwned'
    BY <2>7, <2>8 DEF CounterOwned
  <2> QED  BY <1>4, <1>5, <2>5, <2>9
<1> QED  BY <1>6, <1>7

\* on_piece at its fetch_sub: the thread that reaches zero will report.
LEMMA CountStep ==
    ASSUME IndInv, NEW w \in IOWorkers, IOCount(w)
    PROVE  PendingCountExact' /\ MarkedIsWritten' /\ CounterOwned' /\ ReportOwned'
<1>1. /\ io \in [IOWorkers -> IOThread]
      /\ pending_count \in [Chunks -> Nat]
      /\ \A u \in IOWorkers : io[u].piece.sub \in Subs /\ io[u].piece.sub[1] \in Chunks
  BY SubsFacts DEF IndInv, TypeOK, IOThread, Piece
<1> SUFFICES ASSUME NEW sub \in Subs, NEW c \in Chunks,
                    sub = io[w].piece.sub, c = sub[1]
             PROVE  /\ PendingCountExact' /\ MarkedIsWritten'
                    /\ CounterOwned' /\ ReportOwned'
  BY <1>1
<1>2. /\ OthersWait(w)
      /\ io[w].pc = "count"
      /\ UNCHANGED <<mem, completed_mask, announced>>
  BY <1>1 DEF IOCount, OthersWait
<1>3. IF pending_count[c] = 1 THEN io'[w].pc = "notify" /\ io'[w].piece = io[w].piece
                              ELSE io'[w].pc = "idle"
  BY <1>1 DEF IOThread, IOCount, IdleIO
<1>4. /\ pending_count' = [pending_count EXCEPT ![c] = @ - 1]
      /\ pending_count[c] \in Nat \ {0}
      /\ sub \in OpenSubs(c)
  BY <1>2, CountPositive DEF IOCount
<1>5. /\ pending_count'[c] = pending_count[c] - 1
      /\ \A d \in Chunks : d # c => pending_count'[d] = pending_count[d]
  BY <1>1, <1>4
<1>6. ASSUME NEW x
      PROVE  (\E u \in IOWorkers : io'[u].pc = "count" /\ io'[u].piece.sub = x)
                 <=> /\ x # sub
                     /\ \E u \in IOWorkers : io[u].pc = "count" /\ io[u].piece.sub = x
  <2>1. io'[w].pc # "count"
    BY <1>3
  <2>2. ASSUME NEW u \in IOWorkers, u # w, io[u].pc = "count"
        PROVE  io[u].piece.sub # sub
    BY <1>2, <2>2 DEF IndInv, CounterOwned
  <2> QED  BY <1>2, <2>1, <2>2 DEF OthersWait
<1>7. OpenSubs(c)' = OpenSubs(c) \ {sub}
  <2>1. sub \in completed_mask
    BY <1>2 DEF IndInv, CounterOwned
  <2>2. ASSUME NEW x \in SubsOf(c)
        PROVE  x \in OpenSubs(c)' <=> x \in OpenSubs(c) /\ x # sub
    <3>1. x \in OpenSubs(c)' <=>
             \/ x \notin completed_mask'
             \/ \E u \in IOWorkers : io'[u].pc = "count" /\ io'[u].piece.sub = x
      BY DEF OpenSubs
    <3>2. x \in OpenSubs(c) <=>
             \/ x \notin completed_mask
             \/ \E u \in IOWorkers : io[u].pc = "count" /\ io[u].piece.sub = x
      BY DEF OpenSubs
    <3> QED  BY <1>2, <1>6, <2>1, <3>1, <3>2
  <2>3. OpenSubs(c) \subseteq SubsOf(c) /\ OpenSubs(c)' \subseteq SubsOf(c)
    BY DEF OpenSubs
  <2> QED  BY <2>2, <2>3
<1>8. ASSUME NEW d \in Chunks, d # c
      PROVE  OpenSubs(d)' = OpenSubs(d)
  <2>1. \A x \in SubsOf(d) : x # sub
    BY <1>8, SubsFacts
  <2>2. ASSUME NEW x \in SubsOf(d)
        PROVE  (\E u \in IOWorkers : io'[u].pc = "count" /\ io'[u].piece.sub = x)
                   <=> \E u \in IOWorkers : io[u].pc = "count" /\ io[u].piece.sub = x
    BY <1>6, <2>1
  <2>3. completed_mask' = completed_mask
    BY <1>2
  <2> QED  BY <2>2, <2>3 DEF OpenSubs
<1>9. PendingCountExact'
  <2>1. Cardinality(OpenSubs(c)') = Cardinality(OpenSubs(c)) - 1
    <3>1. IsFiniteSet(OpenSubs(c))
      BY OpenSubsFacts
    <3>2. Cardinality(OpenSubs(c) \ {sub}) = Cardinality(OpenSubs(c)) - 1
      <4> DEFINE S == OpenSubs(c)
      <4> HIDE DEF S
      <4>1. IsFiniteSet(S) => Cardinality(S \ {sub}) =
               IF sub \in S THEN Cardinality(S) - 1 ELSE Cardinality(S)
        BY FS_RemoveElement, Zenon
      <4> QED  BY <1>4, <3>1, <4>1 DEF S
    <3> QED  BY <1>7, <3>2
  <2>2. pending_count'[c] = Cardinality(OpenSubs(c)')
    BY <1>5, <2>1 DEF IndInv, PendingCountExact
  <2>3. ASSUME NEW d \in Chunks, d # c
        PROVE  pending_count'[d] = Cardinality(OpenSubs(d)')
    <3>1. pending_count[d] = Cardinality(OpenSubs(d))
      BY DEF IndInv, PendingCountExact
    <3> QED  BY <1>5, <1>8, <2>3, <3>1
  <2> QED  BY <2>2, <2>3 DEF PendingCountExact
<1>10. MarkedIsWritten'
  <2>1. Stays(PastCopy)
    BY <1>2, <1>3, StaysByOne DEF PastCopy
  <2> QED  BY <1>2, <2>1, MarkedKept DEF IndInv
<1>11. CounterOwned'
  <2>1. Stays({"count"})
    BY <1>2, <1>3, StaysByOne
  <2> QED  BY <1>2, <2>1, CounterOwnerKept DEF IndInv
<1>12. ReportOwned'
  <2>1. announced[c] = 0
    BY <1>4 DEF IndInv, ReportOwned
  <2>2. ASSUME NEW u \in IOWorkers, u # w, io'[u].pc = "notify"
        PROVE  /\ io'[u] = io[u]
               /\ io[u].piece.sub[1] # c
               /\ pending_count[io[u].piece.sub[1]] = 0
               /\ announced[io[u].piece.sub[1]] = 0
    <3>1. io'[u] = io[u]
      BY <1>2, <2>2 DEF OthersWait
    <3>2. pending_count[io[u].piece.sub[1]] = 0 /\ announced[io[u].piece.sub[1]] = 0
      BY <2>2, <3>1 DEF IndInv, ReportOwned
    <3> QED  BY <1>4, <3>1, <3>2
  <2>3. io'[w].pc = "notify" => /\ io'[w].piece.sub[1] = c
                                /\ pending_count'[c] = 0
    <3>1. CASE pending_count[c] = 1
      <4>1. io'[w].piece = io[w].piece
        BY <1>3, <3>1
      <4>2. pending_count'[c] = 0
        BY <1>5, <3>1
      <4> QED  BY <4>1, <4>2
    <3>2. CASE pending_count[c] # 1
      BY <1>3, <3>2
    <3> QED  BY <3>1, <3>2
  <2>4. ASSUME NEW u \in IOWorkers, io'[u].pc = "notify"
        PROVE  /\ pending_count'[io'[u].piece.sub[1]] = 0
               /\ announced'[io'[u].piece.sub[1]] = 0
    <3>1. CASE u = w
      BY <1>2, <2>1, <2>3, <2>4, <3>1
    <3>2. CASE u # w
      <4>1. /\ io'[u].piece.sub[1] \in Chunks \ {c}
            /\ pending_count[io'[u].piece.sub[1]] = 0
            /\ announced[io'[u].piece.sub[1]] = 0
        BY <1>1, <2>2, <2>4, <3>2
      <4> QED  BY <1>2, <1>5, <4>1
    <3> QED  BY <3>1, <3>2
  <2>5. ASSUME NEW u1 \in IOWorkers, NEW u2 \in IOWorkers,
               io'[u1].pc = "notify", io'[u2].pc = "notify",
               io'[u1].piece.sub[1] = io'[u2].piece.sub[1]
        PROVE  u1 = u2
    <3>1. CASE u1 # w /\ u2 # w
      <4>1. io'[u1] = io[u1] /\ io'[u2] = io[u2]
        BY <2>2, <2>5, <3>1
      <4> QED  BY <2>5, <4>1 DEF IndInv, ReportOwned
    <3>2. ASSUME NEW u \in IOWorkers, u # w,
                 io'[u].pc = "notify", io'[w].pc = "notify"
          PROVE  io'[u].piece.sub[1] # io'[w].piece.sub[1]
      <4>1. io'[u] = io[u] /\ io[u].piece.sub[1] # c
        BY <2>2, <3>2
      <4>2. io'[w].piece.sub[1] = c
        BY <2>3, <3>2
      <4> QED  BY <4>1, <4>2
    <3> QED  BY <2>5, <3>1, <3>2
  <2>6. ASSUME NEW d \in Chunks, announced'[d] # 0
        PROVE  announced'[d] = 1 /\ pending_count'[d] = 0
    <3>1. d # c /\ announced[d] # 0
      BY <1>2, <2>1, <2>6
    <3>2. announced[d] = 1 /\ pending_count[d] = 0
      BY <3>1 DEF IndInv, ReportOwned
    <3> QED  BY <1>2, <1>5, <3>1, <3>2
  <2> QED  BY <2>4, <2>5, <2>6 DEF ReportOwned
<1> QED  BY <1>9, <1>10, <1>11, <1>12

\* worker_loop at its callback: the report is made and the thread done.
LEMMA NotifyStep ==
    ASSUME IndInv, NEW w \in IOWorkers, IONotify(w)
    PROVE  PendingCountExact' /\ MarkedIsWritten' /\ CounterOwned' /\ ReportOwned'
<1> DEFINE c == io[w].piece.sub[1]
<1>1. /\ io \in [IOWorkers -> IOThread]
      /\ announced \in [Chunks -> Nat]
      /\ \A u \in IOWorkers : io[u].piece.sub[1] \in Chunks
  BY SubsFacts DEF IndInv, TypeOK, IOThread, Piece
<1>2. /\ OthersWait(w)
      /\ io[w].pc = "notify"
      /\ io'[w].pc = "idle"
      /\ UNCHANGED <<mem, completed_mask, pending_count>>
      /\ announced' = [announced EXCEPT ![c] = @ + 1]
  BY <1>1 DEF IONotify, IdleIO, OthersWait, assembly
<1>3. PendingCountExact'
  BY <1>2, CounterKept DEF IndInv, OthersWait
<1>4. Stays(PastCopy) /\ Stays({"count"}) /\ Stays({"notify"})
  BY <1>2, StaysByOne DEF PastCopy
<1>5. MarkedIsWritten' /\ CounterOwned'
  BY <1>2, <1>4, MarkedKept, CounterOwnerKept DEF IndInv
<1>6. ReportOwned'
  <2>1. announced[c] = 0 /\ pending_count[c] = 0
    BY <1>2 DEF IndInv, ReportOwned
  <2>2. /\ announced'[c] = 1
        /\ \A d \in Chunks : d # c => announced'[d] = announced[d]
    <3> HIDE DEF c
    <3>1. c \in Chunks
      BY <1>1 DEF c
    <3>2. announced' = [announced EXCEPT ![c] = announced[c] + 1]
      BY <1>2
    <3>3. announced'[c] = announced[c] + 1
      BY <1>1, <3>1, <3>2
    <3>4. \A d \in Chunks : d # c => announced'[d] = announced[d]
      BY <1>1, <3>1, <3>2
    <3>5. announced'[c] = 1
      <4>1. announced[c] + 1 = 1
        BY <2>1
      <4> QED  BY <3>3, <4>1
    <3> QED  BY <3>4, <3>5
  <2>3. ASSUME NEW u \in IOWorkers, io'[u].pc = "notify"
        PROVE  /\ pending_count'[io'[u].piece.sub[1]] = 0
               /\ announced'[io'[u].piece.sub[1]] = 0
    <3>1. u # w /\ io'[u] = io[u] /\ io[u].pc = "notify"
      BY <1>2, <2>3 DEF OthersWait
    <3>2. pending_count[io[u].piece.sub[1]] = 0 /\ announced[io[u].piece.sub[1]] = 0
      BY <3>1 DEF IndInv, ReportOwned
    <3>3. io[u].piece.sub[1] # c
      BY <1>2, <3>1 DEF IndInv, ReportOwned
    <3> QED  BY <1>1, <1>2, <2>2, <3>1, <3>2, <3>3
  <2>4. ASSUME NEW d \in Chunks, announced'[d] # 0
        PROVE  announced'[d] = 1 /\ pending_count'[d] = 0
    <3>1. CASE d = c
      BY <1>2, <2>1, <2>2, <3>1
    <3>2. CASE d # c
      <4>1. announced'[d] = announced[d]
        BY <2>2, <3>2
      <4>2. announced[d] = 1 /\ pending_count[d] = 0
        BY <2>4, <4>1 DEF IndInv, ReportOwned
      <4> QED  BY <1>2, <4>1, <4>2
    <3> QED  BY <3>1, <3>2
  <2> QED  BY <1>4, <2>3, <2>4, ReporterKept DEF IndInv, ReportOwned
<1> QED  BY <1>3, <1>5, <1>6

\* Every step of the download keeps the invariant.
LEMMA NextInv == IndInv /\ [Next]_vars => IndInv'
<1> SUFFICES ASSUME IndInv, [Next]_vars
             PROVE  IndInv'
  OBVIOUS
<1>1. TypeOK'
  BY TypeStep
<1>2. ASSUME NEW sub \in Subs, NEW d \in {"good", "bad"}, Dispatch(sub, d)
      PROVE  UNCHANGED <<io, assembly, announced>>
  BY <1>2 DEF Dispatch
<1>3. ASSUME NEW v \in VerifyWorkers, VStep(v)
      PROVE  UNCHANGED <<io, assembly, announced>>
  BY <1>3, Zenon DEF VStep, VDequeue, VHash, VReserve, VConstruct, VPublish
<1>4. Drain \/ UNCHANGED vars => UNCHANGED <<io, assembly, announced>>
  BY DEF Drain, vars
<1>5. PendingCountExact' /\ MarkedIsWritten' /\ CounterOwned' /\ ReportOwned'
  <2>1. ASSUME NEW w \in IOWorkers, IOStep(w)
        PROVE  PendingCountExact' /\ MarkedIsWritten' /\ CounterOwned' /\ ReportOwned'
    BY <2>1, EarlyStep, MarkStep, CountStep, NotifyStep DEF IOStep
  <2> QED  BY <1>2, <1>3, <1>4, <2>1, OtherStep DEF Next
<1> QED  BY <1>1, <1>5 DEF IndInv

-----------------------------------------------------------------------------
\* In every reachable state of a download: pending_count_ is exact, and each
\* bit, each decrement and each report has exactly one owner among the I/O
\* threads (ChunkAssembler::on_piece under IOWorkerPool::worker_loop).
THEOREM Invariance == Spec => []IndInv
<1>1. Init => IndInv
  BY InitInv
<1>2. IndInv /\ [Next]_vars => IndInv'
  BY NextInv
<1> QED  BY <1>1, <1>2, PTL DEF Spec

\* All state stays within its type; in particular the unsigned pending_count_
\* never wraps below zero.
THEOREM TypeCorrect == Spec => []TypeOK
<1>1. IndInv => TypeOK
  BY DEF IndInv
<1> QED  BY <1>1, Invariance, PTL

\* pending_count_ always equals the number of sub-blocks still to be counted.
THEOREM CounterExact == Spec => []PendingCountExact
<1>1. IndInv => PendingCountExact
  BY DEF IndInv
<1> QED  BY <1>1, Invariance, PTL

\* on_piece reports a chunk complete at most once, for any number of threads,
\* any routing and any duplicates.
THEOREM ReportedOnce == Spec => []AnnouncedOnce
<1>1. IndInv => AnnouncedOnce
  <2> SUFFICES ASSUME IndInv, NEW c \in Chunks
               PROVE  announced[c] + Cardinality({w \in IOWorkers :
                         io[w].pc = "notify" /\ io[w].piece.sub[1] = c}) <= 1
    BY DEF AnnouncedOnce
  <2> DEFINE N == {w \in IOWorkers : io[w].pc = "notify" /\ io[w].piece.sub[1] = c}
  <2>1. announced[c] \in {0, 1}
    BY DEF IndInv, ReportOwned
  <2>2. CASE N = {}
    <3>1. Cardinality(N) = 0
      BY <2>2, FS_EmptySet
    <3> QED  BY <2>1, <3>1
  <2>3. CASE N # {}
    <3>1. PICK w \in N : TRUE
      BY <2>3
    <3>2. announced[c] = 0
      BY <3>1 DEF IndInv, ReportOwned
    <3>3. N = {w}
      BY <3>1 DEF IndInv, ReportOwned
    <3>4. Cardinality(N) = 1
      BY <3>3, FS_Singleton, Zenon
    <3> QED  BY <3>2, <3>4
  <2> QED  BY <2>2, <2>3
<1> QED  BY <1>1, Invariance, PTL

\* Bytes of an announced chunk: every sub-block is marked, hence written.
LEMMA ReportedAllWritten ==
    ASSUME IndInv, NEW c \in Chunks, pending_count[c] = 0, NEW sub \in SubsOf(c)
    PROVE  mem[sub] # "none"
<1>1. OpenSubs(c) = {}
  BY OpenSubsFacts, FS_EmptySet DEF IndInv, PendingCountExact
<1>2. sub \in completed_mask
  BY <1>1 DEF OpenSubs
<1> QED  BY <1>2 DEF IndInv, MarkedIsWritten

\* A chunk that was handed to the SHA-256 threads has all of its bytes.
THEOREM ReportedIsWritten == Spec => []AnnouncedIsWritten
<1>1. IndInv => AnnouncedIsWritten
  <2> SUFFICES ASSUME IndInv, NEW c \in Chunks, announced[c] > 0, NEW sub \in SubsOf(c)
               PROVE  mem[sub] # "none"
    BY DEF AnnouncedIsWritten
  <2>1. pending_count[c] = 0
    <3>1. ReportOwned
      BY DEF IndInv
    <3> QED  BY <3>1 DEF ReportOwned
  <2> QED  BY <2>1, ReportedAllWritten
<1> QED  BY <1>1, Invariance, PTL

-----------------------------------------------------------------------------
\* The threads, masks and counters implement ChunkCompletion: a memcpy is a
\* Write, an enqueue for SHA-256 is an Announce, every other step stutters.
THEOREM ImplementsCompletion == Spec => CompletionSpec
<1> DEFINE W == {sub \in Subs : mem[sub] # "none"}
<1>1. Init => Completion!Init
  BY DEF Init, Completion!Init
<1>2. IndInv /\ [Next]_vars => [Completion!Next]_<<W, announced>>
  <2> SUFFICES ASSUME IndInv, [Next]_vars
               PROVE  Completion!Next \/ UNCHANGED <<W, announced>>
    OBVIOUS
  <2> USE DEF assembly
  <2>1. TypeOK /\ \A w \in IOWorkers :
            /\ io[w].piece.sub \in Subs
            /\ io[w].piece.data \in {"good", "bad"}
            /\ io[w].piece.sub[1] \in Chunks
            /\ io[w].piece.sub \in SubsOf(io[w].piece.sub[1])
    BY SubsFacts, Zenon DEF IndInv, TypeOK, IOThread, Piece
  <2>2. ASSUME NEW w \in IOWorkers, IOCopy(w)
        PROVE  Completion!Next
    <3>1. W' = W \union {io[w].piece.sub}
      BY <2>1, <2>2, Zenon DEF TypeOK, IOCopy
    <3>2. announced' = announced
      BY <2>2 DEF IOCopy
    <3>3. \E c \in Chunks : \E sub \in SubsOf(c) : Completion!Write(sub)
      BY <2>1, <3>1, <3>2 DEF Completion!Write
    <3> QED  BY <3>3 DEF Completion!Next
  <2>3. ASSUME NEW w \in IOWorkers, IONotify(w)
        PROVE  Completion!Next
    <3> DEFINE c == io[w].piece.sub[1]
    <3>1. announced[c] = 0 /\ pending_count[c] = 0
      BY <2>3 DEF IONotify, IndInv, ReportOwned
    <3>2. SubsOf(c) \subseteq W
      BY <2>1, <3>1, ReportedAllWritten, SubsFacts
    <3>3. announced' = [announced EXCEPT ![c] = 1] /\ W' = W
      <4>1. announced' = [announced EXCEPT ![c] = announced[c] + 1] /\ mem' = mem
        BY <2>3 DEF IONotify
      <4>2. announced[c] + 1 = 1
        BY <3>1
      <4> QED  BY <4>1, <4>2, Zenon
    <3>4. Completion!Announce(c)
      BY <3>1, <3>2, <3>3 DEF Completion!Announce
    <3> QED  BY <2>1, <3>4 DEF Completion!Next
  <2>4. ASSUME NEW w \in IOWorkers,
               IODequeue(w) \/ IOReject(w) \/ IOMark(w) \/ IOCount(w)
        PROVE  UNCHANGED <<mem, announced>>
    BY <2>4 DEF IODequeue, IOReject, IOMark, IOCount
  <2>5. ASSUME NEW sub \in Subs, NEW d \in {"good", "bad"}, Dispatch(sub, d)
        PROVE  UNCHANGED <<mem, announced>>
    BY <2>5 DEF Dispatch
  <2>6. ASSUME NEW v \in VerifyWorkers, VStep(v)
        PROVE  UNCHANGED <<mem, announced>>
    BY <2>6, Zenon DEF VStep, VDequeue, VHash, VReserve, VConstruct, VPublish
  <2>7. Drain \/ UNCHANGED vars => UNCHANGED <<mem, announced>>
    BY DEF Drain, vars
  <2>8. UNCHANGED <<mem, announced>> => UNCHANGED <<W, announced>>
    OBVIOUS
  <2> QED
    BY <2>2, <2>3, <2>4, <2>5, <2>6, <2>7, <2>8 DEF Next, IOStep
<1> QED
  BY <1>1, <1>2, Invariance, PTL DEF Spec, CompletionSpec, Completion!Spec

-----------------------------------------------------------------------------
(* Queues: the elements behind the first one, and in front of a new one.   *)

\* try_dequeue leaves the rest of a queue in its order.
LEMMA TailAt ==
    ASSUME NEW S, NEW s \in Seq(S), s # <<>>, NEW k \in 1 .. Len(Tail(s))
    PROVE  k + 1 \in 1 .. Len(s) /\ Tail(s)[k] = s[k + 1]
OBVIOUS

\* enqueue adds behind the elements that wait.
LEMMA AppendAt ==
    ASSUME NEW S, NEW s \in Seq(S), NEW e \in S, NEW k \in 1 .. Len(Append(s, e))
    PROVE  \/ k = Len(s) + 1 /\ Append(s, e)[k] = e
           \/ k \in 1 .. Len(s) /\ Append(s, e)[k] = s[k]
OBVIOUS

-----------------------------------------------------------------------------
(* Routing: dispatch fixes the thread of a sub-block.                       *)

\* A piece waits for, and is handled by, the thread its sub-block hashes to.
RoutedRight ==
    /\ \A w \in IOWorkers : \A k \in 1 .. Len(queue[w]) :
          Worker(queue[w][k].sub[1], queue[w][k].sub[2]) = w
    /\ \A w \in IOWorkers :
          io[w].pc # "idle" => Worker(io[w].piece.sub[1], io[w].piece.sub[2]) = w

\* Every step keeps the pieces on the thread that dispatch chose.
LEMMA RoutedStep ==
    ASSUME TypeOK, RoutedRight, [Next]_vars
    PROVE  RoutedRight'
<1>0. queue \in [IOWorkers -> Seq(Piece)] /\ io \in [IOWorkers -> IOThread]
  BY DEF TypeOK
<1>1. ASSUME NEW sub \in Subs, NEW d \in {"good", "bad"}, Dispatch(sub, d)
      PROVE  RoutedRight'
  <2> DEFINE t == Worker(sub[1], sub[2])
             p == [sub |-> sub, data |-> d]
  <2>1. io' = io /\ queue' = [queue EXCEPT ![t] = Append(@, p)]
    BY <1>1 DEF Dispatch
  <2>2. t \in IOWorkers /\ p \in Piece
    BY WorkersAssumption DEF Piece
  <2>3. ASSUME NEW w \in IOWorkers, NEW k \in 1 .. Len(queue'[w])
        PROVE  Worker(queue'[w][k].sub[1], queue'[w][k].sub[2]) = w
    <3>1. CASE w # t
      BY <1>0, <2>1, <3>1 DEF RoutedRight
    <3>2. CASE w = t
      <4> HIDE DEF p
      <4>1. queue[w] \in Seq(Piece) /\ queue'[w] = Append(queue[w], p)
        BY <1>0, <2>1, <2>2, <3>2
      <4>2. k \in 1 .. Len(Append(queue[w], p))
        BY <4>1
      <4>3. \/ Append(queue[w], p)[k] = p
            \/ k \in 1 .. Len(queue[w]) /\ Append(queue[w], p)[k] = queue[w][k]
        <5> DEFINE q == queue[w]
        <5>1. p \in Piece /\ q \in Seq(Piece) /\ k \in 1 .. Len(Append(q, p))
          BY <2>2, <4>1, <4>2
        <5> HIDE DEF q
        <5>2. \/ k = Len(q) + 1 /\ Append(q, p)[k] = p
              \/ k \in 1 .. Len(q) /\ Append(q, p)[k] = q[k]
          BY <5>1, AppendAt
        <5> QED  BY <5>2 DEF q
      <4>4. CASE queue'[w][k] = p
        BY <3>2, <4>4 DEF p
      <4>5. CASE k \in 1 .. Len(queue[w]) /\ queue'[w][k] = queue[w][k]
        BY <4>5 DEF RoutedRight
      <4> QED  BY <4>1, <4>3, <4>4, <4>5
    <3> QED  BY <3>1, <3>2
  <2> QED  BY <2>1, <2>3 DEF RoutedRight
<1>2. ASSUME NEW u \in IOWorkers, IODequeue(u)
      PROVE  RoutedRight'
  <2>1. /\ queue[u] \in Seq(Piece) /\ queue[u] # <<>>
        /\ io' = [io EXCEPT ![u] = [pc |-> "copy", piece |-> Head(queue[u])]]
        /\ queue' = [queue EXCEPT ![u] = Tail(queue[u])]
    BY <1>0, <1>2 DEF IODequeue
  <2>2. ASSUME NEW w \in IOWorkers, NEW k \in 1 .. Len(queue'[w])
        PROVE  Worker(queue'[w][k].sub[1], queue'[w][k].sub[2]) = w
    <3>1. CASE w # u
      BY <1>0, <2>1, <3>1 DEF RoutedRight
    <3>2. CASE w = u
      <4>1. queue'[w] = Tail(queue[u])
        BY <1>0, <2>1, <3>2
      <4>2. k + 1 \in 1 .. Len(queue[u]) /\ queue'[w][k] = queue[u][k + 1]
        BY <2>1, <4>1, TailAt, Zenon
      <4>3. Worker(queue[u][k + 1].sub[1], queue[u][k + 1].sub[2]) = u
        BY <4>2, Zenon DEF RoutedRight
      <4> QED  BY <3>2, <4>2, <4>3, Zenon
    <3> QED  BY <3>1, <3>2
  <2>3. ASSUME NEW w \in IOWorkers, io'[w].pc # "idle"
        PROVE  Worker(io'[w].piece.sub[1], io'[w].piece.sub[2]) = w
    <3>1. CASE w # u
      BY <1>0, <2>1, <2>3, <3>1 DEF RoutedRight
    <3>2. CASE w = u
      <4>1. 1 \in 1 .. Len(queue[u]) /\ Head(queue[u]) = queue[u][1]
        BY <2>1
      <4>2. io'[w].piece = queue[u][1]
        BY <1>0, <2>1, <3>2, <4>1
      <4> QED  BY <3>2, <4>1, <4>2 DEF RoutedRight
    <3> QED  BY <3>1, <3>2
  <2> QED  BY <2>2, <2>3 DEF RoutedRight
<1>3. ASSUME NEW u \in IOWorkers,
             IOReject(u) \/ IOCopy(u) \/ IOMark(u) \/ IOCount(u) \/ IONotify(u)
      PROVE  RoutedRight'
  <2>1. /\ queue' = queue
        /\ io[u].pc # "idle"
        /\ \A w \in IOWorkers : w # u => io'[w] = io[w]
        /\ io'[u].pc # "idle" => io'[u].piece = io[u].piece
    <3>1. CASE IOReject(u)
      BY <1>0, <3>1 DEF IOReject, IdleIO
    <3>2. ASSUME NEW s PROVE [io[u] EXCEPT !.pc = s].piece = io[u].piece
      BY <1>0 DEF IOThread
    <3>3. CASE IOCopy(u)
      BY <1>0, <3>2, <3>3 DEF IOCopy
    <3>5. CASE IOMark(u)
      BY <1>0, <3>2, <3>5 DEF IOMark, IdleIO
    <3>6. CASE IOCount(u)
      BY <1>0, <3>2, <3>6 DEF IOCount, IdleIO
    <3>4. CASE IONotify(u)
      BY <1>0, <3>4 DEF IONotify, IdleIO
    <3> QED  BY <1>3, <3>1, <3>3, <3>4, <3>5, <3>6
  <2> QED  BY <2>1, Zenon DEF RoutedRight
<1>4. ASSUME NEW v \in VerifyWorkers, VStep(v)
      PROVE  UNCHANGED <<queue, io>>
  BY <1>4, Zenon DEF VStep, VDequeue, VHash, VReserve, VConstruct, VPublish
<1>5. Drain \/ UNCHANGED vars => UNCHANGED <<queue, io>>
  BY DEF Drain, vars
<1>6. UNCHANGED <<queue, io>> => RoutedRight'
  BY DEF RoutedRight
<1> QED  BY <1>1, <1>2, <1>3, <1>4, <1>5, <1>6 DEF Next, IOStep

\* No two I/O threads are ever inside on_piece for the same sub-block, for any
\* function that dispatch may use to choose the thread.
THEOREM OneWriter == Spec => []OneWriterPerSubBlock
<1>1. Init => RoutedRight
  <2> SUFFICES ASSUME Init PROVE RoutedRight
    OBVIOUS
  <2>1. \A w \in IOWorkers : queue[w] = <<>> /\ io[w].pc = "idle"
    BY DEF Init, IdleIO
  <2>2. 1 .. Len(<<>>) = {}
    OBVIOUS
  <2> QED  BY <2>1, <2>2 DEF RoutedRight
<1>2. TypeOK /\ RoutedRight /\ [Next]_vars => RoutedRight'
  BY RoutedStep
<1>3. RoutedRight => OneWriterPerSubBlock
  BY DEF RoutedRight, OneWriterPerSubBlock
<1> QED  BY <1>1, <1>2, <1>3, TypeCorrect, PTL DEF Spec

-----------------------------------------------------------------------------
(* The result queue, when no two SHA-256 threads enqueue at once.           *)

\* The slots of the result queue from front index f up to tail index t.
RingSlots(f, t) ==
    {i \in 0 .. RingSize - 1 :
        IF f <= t THEN f <= i /\ i < t ELSE f <= i \/ i < t}

\* A chunk waits at most once in the task queue, whichever thread announced it.
WaitsOnce ==
    \A w1, w2 \in IOWorkers :
        \A k1 \in 1 .. Len(task_queue[w1]) : \A k2 \in 1 .. Len(task_queue[w2]) :
            task_queue[w1][k1] = task_queue[w2][k2] => w1 = w2 /\ k1 = k2

\* No two SHA-256 threads work on the same chunk.
HashedOnce ==
    \A v1, v2 \in VerifyWorkers :
        vw[v1].pc # "idle" /\ vw[v2].pc # "idle" /\ vw[v1].chunk = vw[v2].chunk
            => v1 = v2

\* A chunk on its way to a result is in one place: once in the task queue, or
\* with one SHA-256 thread, or published.
OnePlace ==
    /\ WaitsOnce
    /\ HashedOnce
    /\ \A w \in IOWorkers : \A k \in 1 .. Len(task_queue[w]) :
          /\ announced[task_queue[w][k]] = 1
          /\ task_queue[w][k] \notin published
          /\ \A v \in VerifyWorkers :
                vw[v].pc # "idle" => vw[v].chunk # task_queue[w][k]
    /\ \A v \in VerifyWorkers :
          vw[v].pc # "idle" => /\ announced[vw[v].chunk] = 1
                               /\ vw[v].chunk \notin published
    /\ \A c \in published : announced[c] = 1

\* The slots in use hold each published chunk that was not drained yet, once.
RingExact ==
    LET slots == RingSlots(ring_front, ring_tail) IN
    /\ \A i, j \in slots : ring[i].chunk = ring[j].chunk => i = j
    /\ \A i \in slots : /\ ring[i].chunk \in published
                        /\ delivered[ring[i].chunk] = 0
    /\ \A c \in published :
          \/ delivered[c] = 1
          \/ delivered[c] = 0 /\ \E i \in slots : ring[i].chunk = c
    /\ \A c \in Chunks : c \notin published => delivered[c] = 0

\* The producer's copy of the tail index is current and its slot is free.
SlotReserved ==
    \A v \in VerifyWorkers :
        /\ vw[v].pc \in {"construct", "publish"} =>
              /\ vw[v].tail = ring_tail
              /\ (ring_tail + 1) % RingSize # ring_front
        /\ vw[v].pc = "publish" => ring[vw[v].tail].chunk = vw[v].chunk

\* The inductive invariant of the result queue.
ResultsInv == OnePlace /\ RingExact /\ SlotReserved

\* Index arithmetic of a ring: one wrap-around at most.
LEMMA Wrap ==
    ASSUME NEW R \in Nat \ {0}
    PROVE  /\ \A x \in 0 .. R - 1 : x % R = x
           /\ \A x \in R .. 2 * R - 1 : x % R = x - R
           /\ \A x \in -R .. -1 : x % R = x + R
<1>1. \A x \in 0 .. R - 1 : x % R = x
  OBVIOUS
<1>2. \A x \in R .. 2 * R - 1 : x % R = x - R
  OBVIOUS
<1>3. \A x \in -R .. -1 : x % R = x + R
  OBVIOUS
<1> QED  BY <1>1, <1>2, <1>3

\* The modular indices are the slots between the two ends of the ring.
LEMMA RingIndicesAre ==
    ASSUME TypeOK
    PROVE  RingIndices = RingSlots(ring_front, ring_tail)
<1> DEFINE R == RingSize
           f == ring_front
           t == ring_tail
           n == (t - f) % R
<1>1. R \in Nat \ {0} /\ f \in 0 .. R - 1 /\ t \in 0 .. R - 1
  BY WorkersAssumption DEF TypeOK
<1>2. n = IF f <= t THEN t - f ELSE t - f + R
  <2> SUFFICES ASSUME NEW r \in Nat \ {0}, NEW a \in 0 .. r - 1, NEW b \in 0 .. r - 1
               PROVE  (b - a) % r = IF a <= b THEN b - a ELSE b - a + r
    BY <1>1
  <2>1. CASE a <= b
    <3>1. b - a \in 0 .. r - 1
      BY <2>1
    <3> QED  BY <2>1, <3>1, Wrap
  <2>2. CASE ~(a <= b)
    <3>1. b - a \in -r .. -1
      BY <2>2
    <3> QED  BY <2>2, <3>1, Wrap
  <2> QED  BY <2>1, <2>2
<1>3. \A i \in 0 .. R - 1 : (f + i) % R = IF f + i < R THEN f + i ELSE f + i - R
  <2> SUFFICES ASSUME NEW r \in Nat \ {0}, NEW a \in 0 .. r - 1, NEW i \in 0 .. r - 1
               PROVE  (a + i) % r = IF a + i < r THEN a + i ELSE a + i - r
    BY <1>1
  <2>1. CASE a + i < r
    <3>1. a + i \in 0 .. r - 1
      BY <2>1
    <3> QED  BY <2>1, <3>1, Wrap
  <2>2. CASE ~(a + i < r)
    <3>1. a + i \in r .. 2 * r - 1
      BY <2>2
    <3> QED  BY <2>2, <3>1, Wrap
  <2> QED  BY <2>1, <2>2
<1>4. n \in 0 .. R - 1
  <2> HIDE DEF n
  <2> QED  BY <1>1, <1>2
<1>5. RingIndices = {(f + i) % R : i \in 0 .. n - 1}
  BY DEF RingIndices
<1> HIDE DEF R, f, t, n
<1>6. ASSUME NEW i \in 0 .. n - 1
      PROVE  (f + i) % R \in RingSlots(f, t)
  <2>1. i \in 0 .. R - 1
    BY <1>1, <1>4
  <2>2. (f + i) % R = IF f + i < R THEN f + i ELSE f + i - R
    BY <1>3, <2>1
  <2> DEFINE m == (f + i) % R
  <2> HIDE DEF m
  <2>3. m = IF f + i < R THEN f + i ELSE f + i - R
    BY <2>2 DEF m
  <2>4. m \in 0 .. R - 1 /\ (IF f <= t THEN f <= m /\ m < t ELSE f <= m \/ m < t)
    BY <1>1, <1>2, <2>1, <2>3
  <2> QED  BY <2>4 DEF RingSlots, m, R
<1>7. ASSUME NEW j \in RingSlots(f, t)
      PROVE  \E i \in 0 .. n - 1 : (f + i) % R = j
  <2>1. j \in 0 .. R - 1 /\ (IF f <= t THEN f <= j /\ j < t ELSE f <= j \/ j < t)
    BY DEF RingSlots, R
  <2> DEFINE i == IF f <= j THEN j - f ELSE j - f + R
  <2>2. i \in 0 .. n - 1
    BY <1>1, <1>2, <2>1
  <2>3. i \in 0 .. R - 1 /\ j = IF f + i < R THEN f + i ELSE f + i - R
    BY <1>1, <2>1
  <2> HIDE DEF i
  <2>4. (f + i) % R = j
    BY <1>3, <2>3
  <2> QED  BY <2>2, <2>4
<1> QED  BY <1>5, <1>6, <1>7 DEF R, f, t

\* Storing the next tail index makes the slot before it, and no other, visible.
LEMMA NextSlot ==
    ASSUME NEW f \in 0 .. RingSize - 1, NEW t \in 0 .. RingSize - 1,
           (t + 1) % RingSize # f
    PROVE  /\ RingSlots(f, (t + 1) % RingSize) = RingSlots(f, t) \union {t}
           /\ t \notin RingSlots(f, t)
<1> DEFINE R == RingSize
           u == (t + 1) % R
<1>1. R \in Nat \ {0}
  BY WorkersAssumption
<1>2. u = IF t + 1 < R THEN t + 1 ELSE 0
  <2>1. CASE t + 1 < R
    <3>1. t + 1 \in 0 .. R - 1
      BY <1>1, <2>1
    <3> QED  BY <1>1, <2>1, <3>1, Wrap
  <2>2. CASE ~(t + 1 < R)
    <3>1. t + 1 \in R .. 2 * R - 1 /\ t + 1 - R = 0
      BY <1>1, <2>2
    <3> QED  BY <1>1, <2>2, <3>1, Wrap
  <2> QED  BY <2>1, <2>2
<1>3. u # f
  OBVIOUS
<1> HIDE DEF u
<1>4. RingSlots(f, u) = RingSlots(f, t) \union {t}
  BY <1>1, <1>2, <1>3 DEF RingSlots
<1>5. t \notin RingSlots(f, t)
  BY <1>1 DEF RingSlots
<1> QED  BY <1>4, <1>5 DEF u

-----------------------------------------------------------------------------
\* The queues of the SHA-256 threads, left alone, hold a chunk once.
LEMMA WaitsKept ==
    ASSUME WaitsOnce, task_queue' = task_queue
    PROVE  WaitsOnce'
<1> SUFFICES ASSUME NEW w1 \in IOWorkers, NEW w2 \in IOWorkers,
                    NEW k1 \in 1 .. Len(task_queue[w1]),
                    NEW k2 \in 1 .. Len(task_queue[w2]),
                    task_queue[w1][k1] = task_queue[w2][k2]
             PROVE  w1 = w2 /\ k1 = k2
  BY DEF WaitsOnce
<1> QED  BY DEF WaitsOnce

\* WaitsOnce at two places of the queues.
LEMMA WaitsAt ==
    ASSUME WaitsOnce, NEW w1 \in IOWorkers, NEW w2 \in IOWorkers,
           NEW k1 \in 1 .. Len(task_queue[w1]), NEW k2 \in 1 .. Len(task_queue[w2]),
           task_queue[w1][k1] = task_queue[w2][k2]
    PROVE  w1 = w2 /\ k1 = k2
  BY DEF WaitsOnce

\* OnePlace at a place of the queues.
LEMMA PlaceAt ==
    ASSUME OnePlace, NEW w \in IOWorkers, NEW k \in 1 .. Len(task_queue[w])
    PROVE  /\ announced[task_queue[w][k]] = 1
           /\ task_queue[w][k] \notin published
           /\ \A v \in VerifyWorkers :
                 vw[v].pc # "idle" => vw[v].chunk # task_queue[w][k]
  BY DEF OnePlace

\* A chunk stays in one place when the threads keep theirs.
LEMMA OnePlaceKept ==
    ASSUME OnePlace, task_queue' = task_queue, published' = published,
           announced' = announced,
           \A v \in VerifyWorkers : vw'[v].pc # "idle" =>
               vw[v].pc # "idle" /\ vw'[v].chunk = vw[v].chunk
    PROVE  OnePlace'
<1>1. WaitsOnce'
  BY WaitsKept DEF OnePlace
<1>6. HashedOnce'
  <2> SUFFICES ASSUME NEW v1 \in VerifyWorkers, NEW v2 \in VerifyWorkers,
                      vw'[v1].pc # "idle", vw'[v2].pc # "idle",
                      vw'[v1].chunk = vw'[v2].chunk
               PROVE  v1 = v2
    BY Zenon DEF HashedOnce
  <2>1. /\ vw[v1].pc # "idle" /\ vw'[v1].chunk = vw[v1].chunk
        /\ vw[v2].pc # "idle" /\ vw'[v2].chunk = vw[v2].chunk
    OBVIOUS
  <2>2. HashedOnce
    BY DEF OnePlace
  <2> QED  BY <2>1, <2>2, Zenon DEF HashedOnce
<1>2. ASSUME NEW w \in IOWorkers, NEW k \in 1 .. Len(task_queue[w])
      PROVE  /\ announced[task_queue[w][k]] = 1
             /\ task_queue[w][k] \notin published
             /\ \A v \in VerifyWorkers :
                   vw'[v].pc # "idle" => vw'[v].chunk # task_queue[w][k]
  <2>1. /\ announced[task_queue[w][k]] = 1
        /\ task_queue[w][k] \notin published
        /\ \A v \in VerifyWorkers :
              vw[v].pc # "idle" => vw[v].chunk # task_queue[w][k]
    BY DEF OnePlace
  <2> QED  BY <2>1
<1>3. \A v \in VerifyWorkers : vw'[v].pc # "idle" =>
         announced[vw'[v].chunk] = 1 /\ vw'[v].chunk \notin published
  BY DEF OnePlace
<1>4. \A c \in published : announced[c] = 1
  BY DEF OnePlace
<1>5. /\ \A w \in IOWorkers : \A k \in 1 .. Len(task_queue'[w]) :
            /\ announced'[task_queue'[w][k]] = 1
            /\ task_queue'[w][k] \notin published'
            /\ \A v \in VerifyWorkers :
                  vw'[v].pc # "idle" => vw'[v].chunk # task_queue'[w][k]
      /\ \A v \in VerifyWorkers : vw'[v].pc # "idle" =>
            announced'[vw'[v].chunk] = 1 /\ vw'[v].chunk \notin published'
      /\ \A c \in published' : announced'[c] = 1
  BY <1>2, <1>3, <1>4
<1> QED  BY <1>1, <1>5, <1>6, Zenon DEF OnePlace

\* The ring stays exact when its live slots keep their chunks.
LEMMA RingKept ==
    ASSUME RingExact, published' = published, delivered' = delivered,
           RingSlots(ring_front, ring_tail)' = RingSlots(ring_front, ring_tail),
           \A i \in RingSlots(ring_front, ring_tail) : ring'[i].chunk = ring[i].chunk
    PROVE  RingExact'
<1> DEFINE S == RingSlots(ring_front, ring_tail)
<1>1. /\ \A i, j \in S : ring[i].chunk = ring[j].chunk => i = j
      /\ \A i \in S : ring[i].chunk \in published /\ delivered[ring[i].chunk] = 0
      /\ \A c \in published :
            \/ delivered[c] = 1
            \/ delivered[c] = 0 /\ \E i \in S : ring[i].chunk = c
      /\ \A c \in Chunks : c \notin published => delivered[c] = 0
  BY DEF RingExact
<1>2. S' = S /\ \A i \in S : ring'[i].chunk = ring[i].chunk
  OBVIOUS
<1> HIDE DEF S
<1>3. /\ \A i, j \in S : ring'[i].chunk = ring'[j].chunk => i = j
      /\ \A i \in S : ring'[i].chunk \in published /\ delivered[ring'[i].chunk] = 0
  <2>1. ASSUME NEW i \in S, NEW j \in S, ring'[i].chunk = ring'[j].chunk
        PROVE  i = j
    <3>1. ring[i].chunk = ring[j].chunk
      BY <1>2, <2>1
    <3> QED  BY <1>1, <3>1
  <2>2. ASSUME NEW i \in S
        PROVE  ring'[i].chunk \in published /\ delivered[ring'[i].chunk] = 0
    <3>1. ring'[i].chunk = ring[i].chunk
      BY <1>2
    <3> QED  BY <1>1, <3>1
  <2> QED  BY <2>1, <2>2
<1>4. \A c \in published :
         \/ delivered[c] = 1
         \/ delivered[c] = 0 /\ \E i \in S : ring'[i].chunk = c
  BY <1>1, <1>2
<1> QED  BY <1>1, <1>2, <1>3, <1>4 DEF RingExact, S

\* What the result path looks at, left alone by a step, leaves its invariant.
LEMMA ResultsKept ==
    ASSUME ResultsInv,
           UNCHANGED <<task_queue, vw, ring, ring_tail, ring_front, published,
                       delivered, announced>>
    PROVE  ResultsInv'
<1>1. OnePlace'
  BY OnePlaceKept DEF ResultsInv
<1>2. RingSlots(ring_front, ring_tail)' = RingSlots(ring_front, ring_tail)
  BY DEF RingSlots
<1>3. RingExact'
  BY <1>2, RingKept DEF ResultsInv
<1>4. SlotReserved'
  BY DEF ResultsInv, SlotReserved
<1> QED  BY <1>1, <1>3, <1>4 DEF ResultsInv

\* VerifyWorkerPool::enqueue: a chunk enters the path for the first time.
LEMMA NotifyResults ==
    ASSUME IndInv, ResultsInv, NEW u \in IOWorkers, IONotify(u)
    PROVE  ResultsInv'
<1> DEFINE c == io[u].piece.sub[1]
<1>1. /\ task_queue \in [IOWorkers -> Seq(Chunks)]
      /\ announced \in [Chunks -> Nat]
      /\ c \in Chunks
      /\ published \subseteq Chunks
      /\ \A v \in VerifyWorkers : vw[v].chunk \in Chunks
  BY SubsFacts DEF IndInv, TypeOK, IOThread, Piece, VerifyThread
<1>2. /\ task_queue' = [task_queue EXCEPT ![u] = Append(@, c)]
      /\ announced' = [announced EXCEPT ![c] = @ + 1]
      /\ UNCHANGED <<vw, ring, ring_tail, ring_front, published, delivered>>
  BY DEF IONotify, results, verdicts
<1>3. announced[c] = 0
  BY DEF IONotify, IndInv, ReportOwned
<1> HIDE DEF c
<1>4. announced'[c] = 1
  <2>1. announced'[c] = announced[c] + 1
    BY <1>1, <1>2
  <2> QED  BY <1>3, <2>1
<1>5. \A d \in Chunks : announced[d] = 1 => announced'[d] = 1 /\ d # c
  BY <1>1, <1>2, <1>3
<1>6. ASSUME NEW w \in IOWorkers, NEW k \in 1 .. Len(task_queue'[w])
      PROVE  \/ w = u /\ k = Len(task_queue[u]) + 1 /\ task_queue'[w][k] = c
             \/ k \in 1 .. Len(task_queue[w]) /\ task_queue'[w][k] = task_queue[w][k]
  <2>1. CASE w # u
    BY <1>1, <1>2, <2>1
  <2>2. CASE w = u
    <3>1. task_queue'[w] = Append(task_queue[u], c) /\ task_queue[u] \in Seq(Chunks)
      BY <1>1, <1>2, <2>2
    <3>2. k \in 1 .. Len(Append(task_queue[u], c))
      BY <3>1
    <3>3. \/ k = Len(task_queue[u]) + 1 /\ Append(task_queue[u], c)[k] = c
          \/ k \in 1 .. Len(task_queue[u])
             /\ Append(task_queue[u], c)[k] = task_queue[u][k]
      BY <1>1, <3>1, <3>2, AppendAt
    <3> QED  BY <2>2, <3>1, <3>3
  <2> QED  BY <2>1, <2>2
<1>7. ASSUME NEW w \in IOWorkers, NEW k \in 1 .. Len(task_queue[w])
      PROVE  /\ task_queue[w][k] \in Chunks
             /\ announced[task_queue[w][k]] = 1
             /\ task_queue[w][k] # c
             /\ task_queue[w][k] \notin published
             /\ \A v \in VerifyWorkers :
                   vw[v].pc # "idle" => vw[v].chunk # task_queue[w][k]
  <2>1. task_queue[w] \in Seq(Chunks)
    BY <1>1
  <2>2. task_queue[w][k] \in Chunks
    BY <2>1
  <2> QED  BY <1>5, <2>2 DEF ResultsInv, OnePlace
<1>8. /\ c \notin published
      /\ \A v \in VerifyWorkers : vw[v].pc # "idle" => vw[v].chunk # c
  <2>1. OnePlace
    BY DEF ResultsInv
  <2> QED  BY <1>3, <2>1 DEF OnePlace
<1>9. ASSUME NEW w1 \in IOWorkers, NEW w2 \in IOWorkers,
             NEW k1 \in 1 .. Len(task_queue'[w1]), NEW k2 \in 1 .. Len(task_queue'[w2]),
             task_queue'[w1][k1] = task_queue'[w2][k2]
      PROVE  w1 = w2 /\ k1 = k2
  <2>1. CASE task_queue'[w1][k1] = c
    <3>1. w1 = u /\ k1 = Len(task_queue[u]) + 1
      <4>1. \/ w1 = u /\ k1 = Len(task_queue[u]) + 1
            \/ k1 \in 1 .. Len(task_queue[w1]) /\ task_queue[w1][k1] = c
        BY <1>6, <2>1
      <4> QED  BY <1>7, <4>1
    <3>2. w2 = u /\ k2 = Len(task_queue[u]) + 1
      <4>1. task_queue'[w2][k2] = c
        BY <1>9, <2>1
      <4>2. \/ w2 = u /\ k2 = Len(task_queue[u]) + 1
            \/ k2 \in 1 .. Len(task_queue[w2]) /\ task_queue[w2][k2] = c
        BY <1>6, <4>1
      <4> QED  BY <1>7, <4>2
    <3> QED  BY <3>1, <3>2
  <2>2. CASE task_queue'[w1][k1] # c
    <3>1. k1 \in 1 .. Len(task_queue[w1]) /\ task_queue'[w1][k1] = task_queue[w1][k1]
      BY <1>6, <2>2
    <3>2. k2 \in 1 .. Len(task_queue[w2]) /\ task_queue'[w2][k2] = task_queue[w2][k2]
      BY <1>6, <1>9, <2>2
    <3>3. task_queue[w1][k1] = task_queue[w2][k2]
      BY <1>9, <3>1, <3>2
    <3>4. WaitsOnce
      BY DEF ResultsInv, OnePlace
    <3> QED  BY <3>1, <3>2, <3>3, <3>4, WaitsAt
  <2> QED  BY <2>1, <2>2
<1>10. ASSUME NEW w \in IOWorkers, NEW k \in 1 .. Len(task_queue'[w])
       PROVE  /\ announced'[task_queue'[w][k]] = 1
              /\ task_queue'[w][k] \notin published'
              /\ \A v \in VerifyWorkers :
                    vw'[v].pc # "idle" => vw'[v].chunk # task_queue'[w][k]
  <2>1. CASE task_queue'[w][k] = c
    <3>1. announced'[task_queue'[w][k]] = 1
      BY <1>4, <2>1, Zenon
    <3>2. published' = published /\ vw' = vw
      BY <1>2
    <3> QED  BY <1>8, <2>1, <3>1, <3>2
  <2>2. CASE task_queue'[w][k] # c
    <3>1. k \in 1 .. Len(task_queue[w]) /\ task_queue'[w][k] = task_queue[w][k]
      BY <1>6, <2>2
    <3> DEFINE d == task_queue[w][k]
    <3>2. /\ d \in Chunks /\ announced[d] = 1 /\ d \notin published
          /\ \A v \in VerifyWorkers : vw[v].pc # "idle" => vw[v].chunk # d
      BY <1>7, <3>1
    <3>3. task_queue'[w][k] = d /\ published' = published /\ vw' = vw
      BY <1>2, <3>1
    <3> HIDE DEF d
    <3> QED  BY <1>5, <3>2, <3>3
  <2> QED  BY <2>1, <2>2
<1>11. OnePlace'
  <2>1. \A v \in VerifyWorkers :
           vw'[v].pc # "idle" => /\ announced'[vw'[v].chunk] = 1
                                 /\ vw'[v].chunk \notin published'
    BY <1>1, <1>2, <1>5 DEF ResultsInv, OnePlace
  <2>2. \A d \in published' : announced'[d] = 1
    BY <1>1, <1>2, <1>5 DEF ResultsInv, OnePlace
  <2>3. WaitsOnce'
    BY <1>9 DEF WaitsOnce
  <2>4. HashedOnce'
    BY <1>2 DEF ResultsInv, OnePlace, HashedOnce
  <2> QED  BY <1>10, <2>1, <2>2, <2>3, <2>4 DEF OnePlace
<1>12. RingExact' /\ SlotReserved'
  BY <1>2 DEF ResultsInv, RingExact, SlotReserved, RingSlots
<1> QED  BY <1>11, <1>12 DEF ResultsInv

\* VerifyWorkerPool::worker_loop takes a chunk off the task queue.
LEMMA DequeueResults ==
    ASSUME IndInv, ResultsInv, NEW v \in VerifyWorkers, VDequeue(v)
    PROVE  ResultsInv'
<1>1. PICK u \in IOWorkers :
         /\ task_queue[u] # <<>>
         /\ vw' = [vw EXCEPT ![v] = [IdleVW EXCEPT !.pc = "hash",
                                         !.chunk = Head(task_queue[u])]]
         /\ task_queue' = [task_queue EXCEPT ![u] = Tail(@)]
         /\ UNCHANGED <<ring, ring_tail, ring_front, published, delivered, announced>>
  BY Zenon DEF VDequeue, results, verdicts
<1> DEFINE c == Head(task_queue[u])
<1>2. /\ task_queue \in [IOWorkers -> Seq(Chunks)]
      /\ vw \in [VerifyWorkers -> VerifyThread]
  BY DEF IndInv, TypeOK
<1>3. task_queue[u] \in Seq(Chunks) /\ 1 \in 1 .. Len(task_queue[u])
      /\ c = task_queue[u][1]
  BY <1>1, <1>2
<1>4. vw'[v].pc = "hash" /\ vw'[v].chunk = c
  BY <1>1, <1>2 DEF IdleVW
<1>5. \A x \in VerifyWorkers : x # v => vw'[x] = vw[x]
  BY <1>1, <1>2
<1>6. announced[c] = 1 /\ c \notin published
  <2>1. OnePlace
    BY DEF ResultsInv
  <2> QED  BY <1>3, <2>1, PlaceAt
<1>7. ASSUME NEW w \in IOWorkers, NEW k \in 1 .. Len(task_queue'[w])
      PROVE  \E j \in 1 .. Len(task_queue[w]) :
                /\ task_queue'[w][k] = task_queue[w][j]
                /\ j = IF w = u THEN k + 1 ELSE k
                /\ task_queue[w][j] # c
  <2>0. WaitsOnce
    BY DEF ResultsInv, OnePlace
  <2>1. CASE w # u
    <3>1. task_queue'[w] = task_queue[w]
      BY <1>1, <1>2, <2>1
    <3>2. k \in 1 .. Len(task_queue[w])
      BY <3>1
    <3>3. task_queue[w][k] # task_queue[u][1]
      BY <1>3, <2>0, <2>1, <3>2, Zenon DEF WaitsOnce
    <3> QED  BY <1>3, <2>1, <3>1, <3>2, <3>3
  <2>2. CASE w = u
    <3>1. task_queue'[w] = Tail(task_queue[u])
      BY <1>1, <1>2, <2>2
    <3>2. k \in 1 .. Len(Tail(task_queue[u]))
      BY <3>1
    <3>3. k + 1 \in 1 .. Len(task_queue[u])
          /\ Tail(task_queue[u])[k] = task_queue[u][k + 1]
      BY <1>1, <1>3, <3>2, TailAt
    <3>4. k + 1 # 1
      BY <3>2
    <3>5. task_queue[u][k + 1] # task_queue[u][1]
      BY <1>3, <2>0, <3>3, <3>4, WaitsAt
    <3> QED  BY <1>3, <2>2, <3>1, <3>3, <3>5
  <2> QED  BY <2>1, <2>2
<1> HIDE DEF c
<1>8. WaitsOnce'
  <2> SUFFICES ASSUME NEW w1 \in IOWorkers, NEW w2 \in IOWorkers,
                      NEW k1 \in 1 .. Len(task_queue'[w1]),
                      NEW k2 \in 1 .. Len(task_queue'[w2]),
                      task_queue'[w1][k1] = task_queue'[w2][k2]
               PROVE  w1 = w2 /\ k1 = k2
    BY DEF WaitsOnce
  <2>1. PICK j1 \in 1 .. Len(task_queue[w1]) :
           /\ task_queue'[w1][k1] = task_queue[w1][j1]
           /\ j1 = IF w1 = u THEN k1 + 1 ELSE k1
    BY <1>7
  <2>2. PICK j2 \in 1 .. Len(task_queue[w2]) :
           /\ task_queue'[w2][k2] = task_queue[w2][j2]
           /\ j2 = IF w2 = u THEN k2 + 1 ELSE k2
    BY <1>7
  <2>3. WaitsOnce
    BY DEF ResultsInv, OnePlace
  <2>4. task_queue[w1][j1] = task_queue[w2][j2]
    BY <2>1, <2>2
  <2>5. w1 = w2 /\ j1 = j2
    <3>1. \A a \in 1 .. Len(task_queue[w1]) : \A b \in 1 .. Len(task_queue[w2]) :
             task_queue[w1][a] = task_queue[w2][b] => w1 = w2 /\ a = b
      BY <2>3, Zenon DEF WaitsOnce
    <3> QED  BY <2>4, <3>1, Zenon
  <2>6. k1 \in Int /\ k2 \in Int
    OBVIOUS
  <2>7. j1 = (IF w1 = u THEN k1 + 1 ELSE k1) /\ j2 = (IF w1 = u THEN k2 + 1 ELSE k2)
    BY <2>1, <2>2, <2>5, Zenon
  <2>8. CASE w1 = u
    <3>1. k1 + 1 = k2 + 1
      BY <2>5, <2>7, <2>8, Zenon
    <3>2. k1 = k2
      BY <2>6, <3>1
    <3> QED  BY <2>5, <3>2, Zenon
  <2>9. CASE w1 # u
    BY <2>5, <2>7, <2>9, Zenon
  <2> QED  BY <2>8, <2>9, Zenon
<1>9. ASSUME NEW w \in IOWorkers, NEW k \in 1 .. Len(task_queue'[w])
      PROVE  /\ announced'[task_queue'[w][k]] = 1
             /\ task_queue'[w][k] \notin published'
             /\ \A x \in VerifyWorkers :
                   vw'[x].pc # "idle" => vw'[x].chunk # task_queue'[w][k]
  <2>1. PICK j \in 1 .. Len(task_queue[w]) :
           task_queue'[w][k] = task_queue[w][j] /\ task_queue[w][j] # c
    BY <1>7
  <2>2. announced[task_queue[w][j]] = 1 /\ task_queue[w][j] \notin published
    BY Zenon DEF ResultsInv, OnePlace
  <2>3. ASSUME NEW x \in VerifyWorkers, vw'[x].pc # "idle"
        PROVE  vw'[x].chunk # task_queue'[w][k]
    <3>1. CASE x = v
      BY <1>4, <2>1, <3>1
    <3>2. CASE x # v
      <4>1. vw[x].pc # "idle" /\ vw'[x] = vw[x]
        BY <1>5, <2>3, <3>2
      <4>2. vw[x].chunk # task_queue[w][j]
        BY <4>1, PlaceAt DEF ResultsInv
      <4> QED  BY <2>1, <4>1, <4>2
    <3> QED  BY <3>1, <3>2
  <2> QED  BY <1>1, <2>1, <2>2, <2>3
<1>10. \A x \in VerifyWorkers :
          vw'[x].pc # "idle" => /\ announced'[vw'[x].chunk] = 1
                                /\ vw'[x].chunk \notin published'
  <2> SUFFICES ASSUME NEW x \in VerifyWorkers, vw'[x].pc # "idle"
               PROVE  announced'[vw'[x].chunk] = 1 /\ vw'[x].chunk \notin published'
    OBVIOUS
  <2>1. CASE x = v
    BY <1>1, <1>4, <1>6, <2>1
  <2>2. CASE x # v
    <3>1. vw[x].pc # "idle" /\ vw'[x] = vw[x]
      BY <1>5, <2>2
    <3>2. announced[vw[x].chunk] = 1 /\ vw[x].chunk \notin published
      BY <3>1 DEF ResultsInv, OnePlace
    <3>3. announced' = announced /\ published' = published
      BY <1>1
    <3> QED  BY <3>1, <3>2, <3>3, Zenon
  <2> QED  BY <2>1, <2>2
<1>11. \A d \in published' : announced'[d] = 1
  BY <1>1 DEF ResultsInv, OnePlace
<1>15. \A x \in VerifyWorkers : vw[x].pc # "idle" => vw[x].chunk # c
  <2>1. OnePlace
    BY DEF ResultsInv
  <2> QED  BY <1>3, <2>1, PlaceAt
<1>16. HashedOnce'
  <2> SUFFICES ASSUME NEW v1 \in VerifyWorkers, NEW v2 \in VerifyWorkers,
                      vw'[v1].pc # "idle", vw'[v2].pc # "idle",
                      vw'[v1].chunk = vw'[v2].chunk, v1 # v2
               PROVE  FALSE
    BY Zenon DEF HashedOnce
  <2>1. CASE v1 = v
    BY <1>4, <1>5, <1>15, <2>1
  <2>2. CASE v2 = v
    BY <1>4, <1>5, <1>15, <2>2
  <2>3. CASE v1 # v /\ v2 # v
    <3>1. vw'[v1] = vw[v1] /\ vw'[v2] = vw[v2]
      BY <1>5, <2>3
    <3>2. HashedOnce
      BY DEF ResultsInv, OnePlace
    <3> QED  BY <3>1, <3>2 DEF HashedOnce
  <2> QED  BY <2>1, <2>2, <2>3
<1>12. OnePlace'
  BY <1>8, <1>9, <1>10, <1>11, <1>16, Zenon DEF OnePlace
<1>13. RingExact'
  BY <1>1 DEF ResultsInv, RingExact, RingSlots
<1>14. SlotReserved'
  BY <1>1, <1>4, <1>5 DEF ResultsInv, SlotReserved
<1> QED  BY <1>12, <1>13, <1>14 DEF ResultsInv

\* sha256 and the reading of the tail index: the thread keeps its chunk.
LEMMA HashResults ==
    ASSUME IndInv, ResultsInv, NEW v \in VerifyWorkers, VHash(v) \/ VReserve(v)
    PROVE  ResultsInv'
<1>1. /\ vw \in [VerifyWorkers -> VerifyThread]
      /\ \A x \in VerifyWorkers : x # v => vw'[x] = vw[x]
  BY DEF IndInv, TypeOK, VHash, VReserve
<1>2. /\ vw[v].pc # "idle"
      /\ UNCHANGED <<task_queue, ring, ring_tail, ring_front, published, delivered,
                     announced>>
  BY DEF VHash, VReserve, results, verdicts
<1>3. /\ vw'[v].chunk = vw[v].chunk
      /\ \/ vw'[v].pc \in {"hash", "reserve"}
         \/ /\ vw'[v].pc = "construct"
            /\ vw'[v].tail = ring_tail
            /\ (ring_tail + 1) % RingSize # ring_front
  <2>0. vw[v] \in VerifyThread
    BY <1>1
  <2>1. CASE VHash(v)
    <3> DEFINE ok == vw[v].ok /\ mem[<<vw[v].chunk, vw[v].pos>>] = "good"
               pos == vw[v].pos + 1
               pc == IF vw[v].pos + 1 = TotalSlots(vw[v].chunk)
                     THEN "reserve" ELSE "hash"
    <3>1. vw'[v] = [vw[v] EXCEPT !.ok = ok, !.pos = pos, !.pc = pc]
      BY <1>1, <2>1 DEF VHash
    <3>2. pc \in {"hash", "reserve"}
      OBVIOUS
    <3> HIDE DEF ok, pos, pc
    <3>3. vw'[v].chunk = vw[v].chunk /\ vw'[v].pc = pc
      BY <2>0, <3>1 DEF VerifyThread
    <3> QED  BY <3>2, <3>3
  <2>2. CASE VReserve(v)
    <3>1. /\ vw'[v] = [vw[v] EXCEPT !.tail = ring_tail, !.pc = "construct"]
          /\ (ring_tail + 1) % RingSize # ring_front
      BY <1>1, <2>2 DEF VReserve
    <3>2. /\ vw'[v].chunk = vw[v].chunk
          /\ vw'[v].pc = "construct"
          /\ vw'[v].tail = ring_tail
      BY <2>0, <3>1 DEF VerifyThread
    <3> QED  BY <3>1, <3>2
  <2> QED  BY <2>1, <2>2
<1>4. OnePlace'
  <2>1. \A x \in VerifyWorkers :
           vw'[x].pc # "idle" => vw[x].pc # "idle" /\ vw'[x].chunk = vw[x].chunk
    BY <1>1, <1>2, <1>3
  <2> QED  BY <1>2, <2>1, OnePlaceKept DEF ResultsInv
<1>5. RingExact'
  BY <1>2 DEF ResultsInv, RingExact, RingSlots
<1>6. SlotReserved'
  BY <1>1, <1>2, <1>3 DEF ResultsInv, SlotReserved
<1> QED  BY <1>4, <1>5, <1>6 DEF ResultsInv

\* inner_enqueue constructs the element in a slot outside the visible ones.
LEMMA ConstructResults ==
    ASSUME IndInv, ResultsInv, NEW v \in VerifyWorkers, VConstruct(v),
           EnqueueAlone
    PROVE  ResultsInv'
<1> DEFINE r == [chunk |-> vw[v].chunk, passed |-> vw[v].ok]
<1>1. /\ vw \in [VerifyWorkers -> VerifyThread]
      /\ ring \in [0 .. RingSize - 1 -> Result]
      /\ ring_front \in 0 .. RingSize - 1
      /\ ring_tail \in 0 .. RingSize - 1
      /\ \A x \in VerifyWorkers :
            x # v => vw'[x] = vw[x] /\ vw[x].pc \notin {"construct", "publish"}
  BY DEF IndInv, TypeOK, VConstruct, EnqueueAlone
<1>2. /\ vw[v].pc = "construct"
      /\ ring' = [ring EXCEPT ![ring_tail] = r]
      /\ UNCHANGED <<task_queue, ring_tail, ring_front, published, delivered,
                     announced>>
      /\ (ring_tail + 1) % RingSize # ring_front
      /\ vw[v].tail = ring_tail
  BY DEF VConstruct, verdicts, ResultsInv, SlotReserved
<1>3. /\ vw'[v].pc = "publish"
      /\ vw'[v].chunk = vw[v].chunk
      /\ vw'[v].tail = ring_tail
  <2>1. vw'[v] = [vw[v] EXCEPT !.pc = "publish"]
    BY <1>1 DEF VConstruct
  <2> QED  BY <1>1, <1>2, <2>1 DEF VerifyThread
<1>4. OnePlace'
  <2>1. \A x \in VerifyWorkers :
           vw'[x].pc # "idle" => vw[x].pc # "idle" /\ vw'[x].chunk = vw[x].chunk
    BY <1>1, <1>2, <1>3
  <2> QED  BY <1>2, <2>1, OnePlaceKept DEF ResultsInv
<1>5. RingExact'
  <2> DEFINE S == RingSlots(ring_front, ring_tail)
  <2>1. S' = S /\ ring_tail \notin S /\ S \subseteq 0 .. RingSize - 1
    <3>1. ring_tail \notin RingSlots(ring_front, ring_tail)
      BY <1>1, <1>2, NextSlot
    <3> QED  BY <1>2, <3>1 DEF RingSlots
  <2>2. \A i \in S : ring'[i] = ring[i]
    BY <1>1, <1>2, <2>1
  <2>3. RingSlots(ring_front, ring_tail)' = S
    BY <2>1
  <2> QED  BY <1>2, <2>2, <2>3, RingKept DEF ResultsInv
<1>6. SlotReserved'
  <2>1. ring'[ring_tail].chunk = vw[v].chunk
    BY <1>1, <1>2
  <2> QED  BY <1>1, <1>2, <1>3, <2>1 DEF SlotReserved
<1> QED  BY <1>4, <1>5, <1>6 DEF ResultsInv

\* inner_enqueue stores the next tail index: the result becomes visible.
LEMMA PublishResults ==
    ASSUME IndInv, ResultsInv, NEW v \in VerifyWorkers, VPublish(v),
           EnqueueAlone
    PROVE  ResultsInv'
<1> DEFINE c == vw[v].chunk
           S == RingSlots(ring_front, ring_tail)
<1>1. /\ vw \in [VerifyWorkers -> VerifyThread]
      /\ published \subseteq Chunks
      /\ c \in Chunks
      /\ ring_front \in 0 .. RingSize - 1
      /\ ring_tail \in 0 .. RingSize - 1
      /\ \A x \in VerifyWorkers :
            x # v => vw'[x] = vw[x] /\ vw[x].pc \notin {"construct", "publish"}
  BY DEF IndInv, TypeOK, VerifyThread, VPublish, EnqueueAlone
<1>2. /\ vw[v].pc = "publish"
      /\ published' = published \union {c}
      /\ UNCHANGED <<task_queue, ring, ring_front, delivered, announced>>
      /\ ring_tail' = (ring_tail + 1) % RingSize
      /\ (ring_tail + 1) % RingSize # ring_front
      /\ ring[ring_tail].chunk = c
  BY DEF VPublish, verdicts, ResultsInv, SlotReserved
<1>3. vw'[v].pc = "idle"
  BY <1>1 DEF VPublish, IdleVW
<1>4. announced[c] = 1 /\ c \notin published
  BY <1>2 DEF ResultsInv, OnePlace
<1>5. S' = S \union {ring_tail} /\ ring_tail \notin S
  BY <1>1, <1>2, NextSlot
<1>6. delivered[c] = 0
  BY <1>1, <1>4 DEF ResultsInv, RingExact
<1>7. OnePlace'
  <2>1. WaitsOnce'
    BY <1>2, WaitsKept DEF ResultsInv, OnePlace
  <2>2. ASSUME NEW x \in VerifyWorkers, vw'[x].pc # "idle"
        PROVE  /\ vw'[x] = vw[x] /\ vw[x].pc # "idle" /\ vw[x].chunk # c
               /\ announced[vw[x].chunk] = 1 /\ vw[x].chunk \notin published
    <3>1. x # v /\ vw'[x] = vw[x]
      BY <1>1, <1>3, <2>2
    <3>2. vw[x].pc # "idle"
      BY <2>2, <3>1
    <3>3. HashedOnce
      BY DEF ResultsInv, OnePlace
    <3>4. vw[x].chunk # c
      BY <1>2, <3>1, <3>2, <3>3 DEF HashedOnce
    <3> QED  BY <3>1, <3>2, <3>4 DEF ResultsInv, OnePlace
  <2>5. HashedOnce'
    <3> SUFFICES ASSUME NEW v1 \in VerifyWorkers, NEW v2 \in VerifyWorkers,
                        vw'[v1].pc # "idle", vw'[v2].pc # "idle",
                        vw'[v1].chunk = vw'[v2].chunk
                 PROVE  v1 = v2
      BY Zenon DEF HashedOnce
    <3>1. HashedOnce
      BY DEF ResultsInv, OnePlace
    <3> QED  BY <2>2, <3>1 DEF HashedOnce
  <2>6. \A x \in VerifyWorkers : vw'[x].pc # "idle" =>
           announced[vw'[x].chunk] = 1 /\ vw'[x].chunk \notin published'
    BY <1>2, <2>2
  <2>3. ASSUME NEW w \in IOWorkers, NEW k \in 1 .. Len(task_queue[w])
        PROVE  /\ announced[task_queue[w][k]] = 1 /\ task_queue[w][k] \notin published'
               /\ \A x \in VerifyWorkers :
                     vw'[x].pc # "idle" => vw'[x].chunk # task_queue[w][k]
    <3>1. /\ announced[task_queue[w][k]] = 1 /\ task_queue[w][k] \notin published
          /\ \A x \in VerifyWorkers : vw[x].pc # "idle" => vw[x].chunk # task_queue[w][k]
      BY PlaceAt DEF ResultsInv
    <3>2. task_queue[w][k] # c
      BY <1>2, <3>1
    <3> QED  BY <1>2, <2>2, <3>1, <3>2
  <2>4. \A d \in published' : announced[d] = 1
    BY <1>2, <1>4 DEF ResultsInv, OnePlace
  <2> QED  BY <1>2, <2>1, <2>3, <2>4, <2>5, <2>6 DEF OnePlace
<1>8. RingExact'
  <2>1. /\ \A i, j \in S : ring[i].chunk = ring[j].chunk => i = j
        /\ \A i \in S : /\ ring[i].chunk \in published
                        /\ delivered[ring[i].chunk] = 0
        /\ \A d \in published :
              \/ delivered[d] = 1
              \/ delivered[d] = 0 /\ \E i \in S : ring[i].chunk = d
        /\ \A d \in Chunks : d \notin published => delivered[d] = 0
    BY DEF ResultsInv, RingExact
  <2>2. RingSlots(ring_front, ring_tail)' = S \union {ring_tail}
    BY <1>5
  <2> HIDE DEF S, c
  <2>3. \A i, j \in S \union {ring_tail} : ring[i].chunk = ring[j].chunk => i = j
    BY <1>2, <1>4, <2>1
  <2>4. \A i \in S \union {ring_tail} : /\ ring[i].chunk \in published'
                                        /\ delivered[ring[i].chunk] = 0
    BY <1>2, <1>6, <2>1
  <2>5. \A d \in published' :
           \/ delivered[d] = 1
           \/ delivered[d] = 0 /\ \E i \in S \union {ring_tail} : ring[i].chunk = d
    BY <1>2, <1>6, <2>1
  <2>6. \A d \in Chunks : d \notin published' => delivered[d] = 0
    BY <1>2, <2>1
  <2> QED  BY <1>2, <2>2, <2>3, <2>4, <2>5, <2>6 DEF RingExact
<1>9. SlotReserved'
  BY <1>1, <1>3 DEF SlotReserved
<1> QED  BY <1>7, <1>8, <1>9 DEF ResultsInv

\* A chunk has one visible result if it is published and not drained yet, and
\* none otherwise.
LEMMA ResultCount ==
    ASSUME IndInv, ResultsInv, NEW c \in Chunks
    PROVE  Cardinality({i \in RingIndices : ring[i].chunk = c})
               = IF c \in published /\ delivered[c] = 0 THEN 1 ELSE 0
<1> DEFINE S == RingSlots(ring_front, ring_tail)
           C == {i \in S : ring[i].chunk = c}
<1>1. RingIndices = S
  BY RingIndicesAre DEF IndInv
<1>2. /\ \A i, j \in S : ring[i].chunk = ring[j].chunk => i = j
      /\ \A i \in S : /\ ring[i].chunk \in published
                      /\ delivered[ring[i].chunk] = 0
      /\ \A d \in published :
            \/ delivered[d] = 1
            \/ delivered[d] = 0 /\ \E i \in S : ring[i].chunk = d
  BY DEF ResultsInv, RingExact
<1> HIDE DEF S
<1>3. CASE c \in published /\ delivered[c] = 0
  <2>1. PICK i \in S : ring[i].chunk = c
    BY <1>2, <1>3
  <2>2. C = {i}
    BY <1>2, <2>1
  <2>3. Cardinality(C) = 1
    BY <2>2, FS_Singleton, Zenon
  <2> QED  BY <1>1, <1>3, <2>3
<1>4. CASE ~(c \in published /\ delivered[c] = 0)
  <2>1. C = {}
    BY <1>2, <1>4
  <2>2. Cardinality(C) = 0
    BY <2>1, FS_EmptySet, Zenon
  <2> QED  BY <1>1, <1>4, <2>2
<1> QED  BY <1>3, <1>4

\* tick drains every visible result, each once.
LEMMA DrainResults ==
    ASSUME IndInv, ResultsInv, Drain
    PROVE  ResultsInv'
<1>1. /\ published \subseteq Chunks
      /\ delivered \in [Chunks -> Nat]
      /\ vw \in [VerifyWorkers -> VerifyThread]
      /\ ring_tail \in 0 .. RingSize - 1
  BY DEF IndInv, TypeOK
<1>2. /\ ring_front' = ring_tail
      /\ UNCHANGED <<task_queue, vw, ring, ring_tail, published, announced>>
      /\ delivered' = [c \in Chunks |-> delivered[c]
                          + Cardinality({i \in RingIndices : ring[i].chunk = c})]
  BY DEF Drain
<1>3. ASSUME NEW c \in Chunks
      PROVE  delivered'[c] = IF c \in published THEN 1 ELSE 0
  <2>1. delivered'[c] = delivered[c]
                           + Cardinality({i \in RingIndices : ring[i].chunk = c})
    BY <1>2
  <2>2. Cardinality({i \in RingIndices : ring[i].chunk = c})
               = IF c \in published /\ delivered[c] = 0 THEN 1 ELSE 0
    BY ResultCount
  <2>3. c \in published => delivered[c] \in {0, 1}
    BY DEF ResultsInv, RingExact
  <2>4. c \notin published => delivered[c] = 0
    BY DEF ResultsInv, RingExact
  <2>5. CASE c \in published
    BY <2>1, <2>2, <2>3, <2>5
  <2>6. CASE c \notin published
    BY <2>1, <2>2, <2>4, <2>6
  <2> QED  BY <2>5, <2>6
<1>4. RingSlots(ring_front, ring_tail)' = {}
  BY <1>1, <1>2, WorkersAssumption DEF RingSlots
<1>5. RingExact'
  BY <1>1, <1>2, <1>3, <1>4 DEF RingExact
<1>6. OnePlace'
  BY <1>2, OnePlaceKept DEF ResultsInv
<1>7. SlotReserved'
  <2>1. (ring_tail + 1) % RingSize # ring_tail
        \/ ~ \E v \in VerifyWorkers : vw[v].pc \in {"construct", "publish"}
    <3> SUFFICES ASSUME NEW v \in VerifyWorkers, vw[v].pc \in {"construct", "publish"}
                 PROVE  (ring_tail + 1) % RingSize # ring_tail
      OBVIOUS
    <3>1. (ring_tail + 1) % RingSize # ring_front
      BY DEF ResultsInv, SlotReserved
    <3>2. RingSize # 1
      <4> SUFFICES ASSUME RingSize = 1 PROVE FALSE
        OBVIOUS
      <4>1. ring_tail = 0 /\ ring_front = 0
        BY DEF IndInv, TypeOK
      <4> QED  BY <3>1, <4>1
    <3>3. CASE ring_tail + 1 < RingSize
      <4>1. ring_tail + 1 \in 0 .. RingSize - 1
        BY <1>1, <3>3, WorkersAssumption
      <4>2. (ring_tail + 1) % RingSize = ring_tail + 1
        BY <4>1, Wrap, WorkersAssumption
      <4> QED  BY <1>1, <4>2
    <3>4. CASE ~(ring_tail + 1 < RingSize)
      <4>1. ring_tail + 1 = RingSize /\ RingSize \in RingSize .. 2 * RingSize - 1
        BY <1>1, <3>4, WorkersAssumption
      <4>2. (ring_tail + 1) % RingSize = 0
        BY <4>1, Wrap, WorkersAssumption
      <4> QED  BY <1>1, <3>2, <4>1, <4>2, WorkersAssumption
    <3> QED  BY <3>3, <3>4
  <2> QED  BY <1>2, <2>1 DEF ResultsInv, SlotReserved
<1> QED  BY <1>5, <1>6, <1>7 DEF ResultsInv

\* While no two SHA-256 threads enqueue at once, every step of the download
\* keeps each chunk in one place of the result path.
LEMMA NextResults ==
    ASSUME IndInv, ResultsInv, [Next]_vars, EnqueueAlone
    PROVE  ResultsInv'
<1> DEFINE Same == UNCHANGED <<task_queue, vw, ring, ring_tail, ring_front, published,
                               delivered, announced>>
<1>1. ASSUME NEW sub \in Subs, NEW d \in {"good", "bad"}, Dispatch(sub, d)
      PROVE  Same
  BY <1>1 DEF Dispatch, results, verdicts
<1>2. ASSUME NEW w \in IOWorkers,
             IODequeue(w) \/ IOReject(w) \/ IOCopy(w) \/ IOMark(w) \/ IOCount(w)
      PROVE  Same
  BY <1>2 DEF IODequeue, IOReject, IOCopy, IOMark, IOCount, results, verdicts
<1>3. UNCHANGED vars => Same
  BY DEF vars, results, verdicts
<1>4. Same => ResultsInv'
  BY ResultsKept
<1>5. ASSUME NEW w \in IOWorkers, IONotify(w)
      PROVE  ResultsInv'
  BY <1>5, NotifyResults
<1>6. ASSUME NEW v \in VerifyWorkers, VStep(v)
      PROVE  ResultsInv'
  BY <1>6, DequeueResults, HashResults, ConstructResults, PublishResults DEF VStep
<1>7. Drain => ResultsInv'
  BY DrainResults
<1> HIDE DEF Same
<1> QED  BY <1>1, <1>2, <1>3, <1>4, <1>5, <1>6, <1>7 DEF Next, IOStep

\* For any number of SHA-256 threads, any ring and any seed: unless two of the
\* threads of verify_worker.cpp are inside inner_enqueue at once, every result
\* is drained exactly once.  The hypothesis is needed and is all that is: with
\* two threads that do overlap TLC finds a lost result.
THEOREM SerialEnqueue == Spec => SerialEnqueueDelivers
<1>1. Init => ResultsInv
  <2> SUFFICES ASSUME Init PROVE ResultsInv
    OBVIOUS
  <2>1. RingSlots(ring_front, ring_tail) = {}
    <3>1. ring_front = ring_tail /\ ring_front \in Int
      BY WorkersAssumption DEF Init
    <3> QED  BY <3>1 DEF RingSlots
  <2>2. OnePlace
    <3>1. /\ \A w \in IOWorkers : task_queue[w] = <<>>
          /\ \A v \in VerifyWorkers : vw[v].pc = "idle"
          /\ published = {}
      BY DEF Init, IdleVW
    <3>2. 1 .. Len(<<>>) = {}
      OBVIOUS
    <3> QED  BY <3>1, <3>2 DEF OnePlace, WaitsOnce, HashedOnce
  <2>3. RingExact
    BY <2>1 DEF Init, RingExact
  <2>4. SlotReserved
    BY DEF Init, IdleVW, SlotReserved
  <2> QED  BY <2>2, <2>3, <2>4 DEF ResultsInv
<1>2. EnqueueAlone /\ IndInv /\ ResultsInv /\ [Next]_vars => ResultsInv'
  BY NextResults
<1>3. IndInv /\ ResultsInv => ResultsExactlyOnce
  <2> SUFFICES ASSUME IndInv, ResultsInv, NEW c \in Chunks
               PROVE  Cardinality({i \in RingIndices : ring[i].chunk = c}) + delivered[c]
                          = IF c \in published THEN 1 ELSE 0
    BY DEF ResultsExactlyOnce
  <2>1. Cardinality({i \in RingIndices : ring[i].chunk = c})
               = IF c \in published /\ delivered[c] = 0 THEN 1 ELSE 0
    BY ResultCount
  <2>2. c \in published => delivered[c] \in {0, 1}
    BY DEF ResultsInv, RingExact
  <2>3. c \notin published => delivered[c] = 0
    BY DEF ResultsInv, RingExact
  <2> QED  BY <2>1, <2>2, <2>3
<1> QED  BY <1>1, <1>2, <1>3, Invariance, PTL DEF Spec, SerialEnqueueDelivers
=============================================================================
