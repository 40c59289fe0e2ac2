-------------------------- MODULE TaskTrackerProofs --------------------------
(* Proofs about TaskTracker for any number of chunks, retries and chains,   *)
(* and for any periods in which an entry outlives the announces lost.       *)
EXTENDS TaskTracker, TLAPS

\* The entry of a running daemon is as old as the announces since the last
\* one that arrived make it.
AgeExact ==
    other.up => age = other.since + other.lost * AnnounceEvery

\* The bytes that are counted and the ones still to be counted fit in the file.
Counted == task.bytes_done + verified <= Chunks

\* The inductive invariant.
TrackInv == TypeOK /\ ChainCount <= MaxChains /\ Counted /\ AgeExact /\ DeadMeansExhausted

-----------------------------------------------------------------------------
\* An entry that any of the lost announces would have renewed is not stale.
LEMMA NotYetStale ==
    ASSUME NEW lost \in 0 .. MaxLost, NEW since \in 0 .. AnnounceEvery
    PROVE  since + lost * AnnounceEvery \in 0 .. StaleAfter
<1>1. lost * AnnounceEvery \in Nat /\ MaxLost * AnnounceEvery \in Nat
  BY TrackerAssumption
<1>2. lost * AnnounceEvery <= MaxLost * AnnounceEvery
  <2> SUFFICES ASSUME NEW a \in Nat, NEW b \in Nat, NEW k \in Nat, a <= b
               PROVE  a * k <= b * k
    BY TrackerAssumption
  <2>1. b - a \in Nat /\ (b - a) * k \in Nat
    OBVIOUS
  <2>2. (b - a) * k = b * k - a * k
    OBVIOUS
  <2> QED  BY <2>1, <2>2
<1>3. (MaxLost + 1) * AnnounceEvery = MaxLost * AnnounceEvery + AnnounceEvery
  BY TrackerAssumption
<1> QED  BY <1>1, <1>2, <1>3, TrackerAssumption, PeriodsAssumption

\* The records of the model, and the ranges of their fields.
LEMMA Fields ==
    ASSUME TypeOK
    PROVE  /\ task = [state |-> task.state, bytes_done |-> task.bytes_done,
                      tracker_dead |-> task.tracker_dead, startup |-> task.startup]
           /\ task.state \in {"seeding", "downloading", "waiting", "complete"}
           /\ task.bytes_done \in 0 .. Chunks
           /\ task.tracker_dead \in BOOLEAN /\ task.startup \in BOOLEAN
           /\ client.retry_count \in 0 .. MaxRetries /\ client.dead_signalled \in BOOLEAN
           /\ chains.asking \in 0 .. MaxChains /\ chains.retrying \in 0 .. MaxChains
           /\ chains.polling \in 0 .. MaxChains
           /\ verified \in 0 .. Chunks
           /\ other.up \in BOOLEAN /\ other.since \in 0 .. AnnounceEvery
           /\ other.lost \in 0 .. MaxLost
           /\ age \in 0 .. NoEntry
BY DEF TypeOK

TaskType == [state : {"seeding", "downloading", "waiting", "complete"},
             bytes_done : 0 .. Chunks, tracker_dead : BOOLEAN, startup : BOOLEAN]
ClientType == [retry_count : 0 .. MaxRetries, dead_signalled : BOOLEAN]
ChainsType == [asking : 0 .. MaxChains, retrying : 0 .. MaxChains, polling : 0 .. MaxChains]
OtherType == [up : BOOLEAN, since : 0 .. AnnounceEvery, lost : 0 .. MaxLost]

\* The initial states satisfy the invariant.
LEMMA InitTrack == Init => TrackInv
<1> SUFFICES ASSUME Init PROVE TrackInv
  OBVIOUS
<1>1. task \in TaskType /\ ~task.tracker_dead
  <2>1. 0 \in 0 .. Chunks
    BY TrackerAssumption
  <2>2. CASE task \in [state : {"downloading"}, bytes_done : 0 .. Chunks,
                       tracker_dead : {FALSE}, startup : {TRUE}]
    BY <2>2 DEF TaskType
  <2>3. CASE task \in [state : {"seeding"}, bytes_done : {0},
                       tracker_dead : {FALSE}, startup : {FALSE}]
    BY <2>1, <2>3 DEF TaskType
  <2> QED  BY <2>2, <2>3 DEF Init
<1>2. client \in ClientType /\ chains \in ChainsType
  BY TrackerAssumption DEF Init, ClientType, ChainsType
<1>3. other \in OtherType /\ ~other.up /\ age \in 0 .. NoEntry
  BY TrackerAssumption DEF Init, OtherType, NoEntry
<1>4. verified \in 0 .. Chunks /\ connected \in BOOLEAN
  <2>1. verified \in 0 .. Chunks
    BY TrackerAssumption DEF Init
  <2>2. connected \in BOOLEAN
    BY Zenon DEF Init
  <2> QED  BY <2>1, <2>2
<1>5. TypeOK
  BY <1>1, <1>2, <1>3, <1>4 DEF TypeOK, TaskType, ClientType, ChainsType, OtherType
<1>6. ChainCount <= MaxChains
  BY TrackerAssumption DEF Init, ChainCount
<1>7. Counted
  <2>1. verified = 0 /\ task.bytes_done \in 0 .. Chunks
    BY <1>1 DEF Init, TaskType
  <2> QED  BY <2>1, TrackerAssumption DEF Counted
<1> QED  BY <1>1, <1>3, <1>5, <1>6, <1>7 DEF TrackInv, AgeExact, DeadMeansExhausted

\* The tracker's entry, the announces it is renewed by, and its age.
LEMMA EntryStep ==
    ASSUME TrackInv, OtherStarts \/ OtherStops \/ OtherAnnounces \/ CleanupStale
    PROVE  other' \in OtherType /\ age' \in 0 .. NoEntry /\ AgeExact'
<1>0. /\ other \in OtherType /\ age \in 0 .. NoEntry
      /\ other.up => age = other.since + other.lost * AnnounceEvery
  BY DEF TrackInv, TypeOK, OtherType, AgeExact
<1>1. NoEntry = StaleAfter + 1 /\ NoEntry \in Nat /\ StaleAfter \in Nat
      /\ AnnounceEvery \in Nat /\ MaxLost \in Nat
  BY TrackerAssumption DEF NoEntry
<1>2. CASE OtherStarts
  <2>1. other' = [up |-> TRUE, since |-> 0, lost |-> 0] /\ age' = 0
    BY <1>2 DEF OtherStarts
  <2> QED  BY <1>1, <2>1 DEF OtherType, AgeExact
<1>3. CASE OtherStops
  <2>1. other' = [up |-> FALSE, since |-> 0, lost |-> 0] /\ age' = age
    BY <1>3 DEF OtherStops
  <2> QED  BY <1>0, <1>1, <2>1 DEF OtherType, AgeExact
<1>4. CASE OtherAnnounces
  <2>1. CASE other' = [other EXCEPT !.since = 0, !.lost = 0] /\ age' = 0
    <3>1. 0 \in 0 .. AnnounceEvery /\ 0 \in 0 .. MaxLost /\ 0 * AnnounceEvery = 0
      BY <1>1
    <3>2. other' \in OtherType /\ other'.since = 0 /\ other'.lost = 0
      BY <1>0, <2>1, <3>1, Zenon DEF OtherType
    <3> QED  BY <1>1, <2>1, <3>1, <3>2 DEF AgeExact
  <2>2. CASE /\ other.lost < MaxLost /\ age' = age
             /\ other' = [other EXCEPT !.since = 0, !.lost = other.lost + 1]
    <3>1. other.up /\ other.since = AnnounceEvery /\ other.lost \in 0 .. MaxLost
      BY <1>0, <1>4 DEF OtherAnnounces, OtherType
    <3>2. other.lost + 1 \in 0 .. MaxLost
      BY <1>1, <2>2, <3>1
    <3>3. age = AnnounceEvery + other.lost * AnnounceEvery
      BY <1>0, <3>1
    <3>4. (other.lost + 1) * AnnounceEvery = AnnounceEvery + other.lost * AnnounceEvery
      <4> SUFFICES ASSUME NEW k \in Nat, NEW a \in Nat PROVE (k + 1) * a = a + k * a
        BY <1>1, <3>1
      <4> QED  OBVIOUS
    <3>5. other' \in OtherType /\ other'.since = 0 /\ other'.lost = other.lost + 1
      <4>1. 0 \in 0 .. AnnounceEvery
        BY <1>1
      <4> QED  BY <1>0, <2>2, <3>2, <4>1, Zenon DEF OtherType
    <3>6. age' = other'.since + other'.lost * AnnounceEvery
      BY <1>1, <2>2, <3>1, <3>3, <3>4, <3>5
    <3> QED  BY <1>0, <2>2, <3>5, <3>6 DEF AgeExact
  <2> QED  BY <1>4, <2>1, <2>2 DEF OtherAnnounces
<1>5. CASE CleanupStale
  <2>1. CASE ~other.up
    <3>1. other' = other
      BY <1>5, <2>1 DEF CleanupStale
    <3>2. age' \in 0 .. NoEntry
      BY <1>0, <1>1, <1>5 DEF CleanupStale, Fresh
    <3> QED  BY <1>0, <2>1, <3>1, <3>2 DEF AgeExact
  <2>2. CASE other.up
    <3>1. other.since \in 0 .. AnnounceEvery /\ other.since < AnnounceEvery
          /\ other.lost \in 0 .. MaxLost
      BY <1>0, <1>5 DEF CleanupStale, OtherType
    <3>2. other' = [other EXCEPT !.since = other.since + 1]
      BY <1>5, <2>2 DEF CleanupStale
    <3>3. other.since + 1 \in 0 .. AnnounceEvery
      BY <1>1, <3>1
    <3>4. other' \in OtherType /\ other'.since = other.since + 1 /\ other'.lost = other.lost
      BY <1>0, <3>2, <3>3 DEF OtherType
    <3>5. other.since + 1 + other.lost * AnnounceEvery \in 0 .. StaleAfter
      BY <3>1, <3>3, NotYetStale
    <3>6. age + 1 = other.since + 1 + other.lost * AnnounceEvery
      <4>1. other.lost * AnnounceEvery \in Nat
        BY <1>1, <3>1
      <4> QED  BY <1>0, <2>2, <3>1, <4>1
    <3>7. age + 1 \in 0 .. StaleAfter
      BY <3>5, <3>6
    <3>8. age' = age + 1
      BY <1>0, <1>1, <1>5, <3>7 DEF CleanupStale, Fresh
    <3> QED  BY <1>1, <3>4, <3>6, <3>7, <3>8 DEF AgeExact
  <2> QED  BY <1>0, <2>1, <2>2 DEF OtherType
<1> QED  BY <1>2, <1>3, <1>4, <1>5

\* announce_task_now: a new chain, and no retry used.
LEMMA AnnounceStep ==
    ASSUME TrackInv, NEW t \in TaskType, AnnounceNow(t)
    PROVE  /\ task' \in TaskType /\ task'.tracker_dead = FALSE
           /\ task'.state = t.state /\ task'.bytes_done = t.bytes_done
           /\ client' \in ClientType
           /\ chains' \in ChainsType /\ ChainCount' <= MaxChains
<1>1. task' \in TaskType /\ task'.tracker_dead = FALSE
      /\ task'.state = t.state /\ task'.bytes_done = t.bytes_done
  <2>1. task' = [t EXCEPT !.tracker_dead = FALSE]
    BY DEF AnnounceNow
  <2> QED  BY <2>1, Zenon DEF TaskType
<1>2. client' \in ClientType
  BY TrackerAssumption DEF AnnounceNow, ClientType
<1>3. chains \in ChainsType /\ ChainCount < MaxChains
      /\ chains' = [chains EXCEPT !.asking = chains.asking + 1]
  BY DEF TrackInv, TypeOK, ChainsType, AnnounceNow
<1>4. chains.asking + 1 \in 0 .. MaxChains
  BY <1>3, TrackerAssumption DEF ChainsType, ChainCount
<1>5. chains' \in ChainsType
  BY <1>3, <1>4, Zenon DEF ChainsType
<1>6. chains'.asking = chains.asking + 1 /\ chains'.retrying = chains.retrying
      /\ chains'.polling = chains.polling
  BY <1>3, Zenon DEF ChainsType
<1>7. ChainCount' <= MaxChains
  BY <1>3, <1>6, TrackerAssumption DEF ChainCount, ChainsType
<1> QED  BY <1>1, <1>2, <1>5, <1>7

\* The state at the end of tick, and what it says of the bytes.
LEMMA StateAfterFacts ==
    ASSUME TrackInv, NEW bytes \in 0 .. Chunks
    PROVE  /\ StateAfter(bytes) \in {"seeding", "downloading", "waiting", "complete"}
           /\ StateAfter(bytes) # task.state =>
                 /\ task.state = "downloading"
                 /\ \/ StateAfter(bytes) = "complete" /\ bytes = Chunks
                    \/ /\ StateAfter(bytes) = "waiting" /\ bytes < Chunks
                       /\ task.tracker_dead
<1>1. task.state \in {"seeding", "downloading", "waiting", "complete"}
  BY Fields DEF TrackInv
<1>2. CASE bytes >= Chunks /\ task.state = "downloading"
  <2>1. bytes = Chunks /\ StateAfter(bytes) = "complete"
    BY <1>2, TrackerAssumption DEF StateAfter
  <2> QED  BY <1>2, <2>1
<1>3. CASE ~(bytes >= Chunks /\ task.state = "downloading")
  <2>1. CASE task.tracker_dead /\ task.state = "downloading"
    <3>1. StateAfter(bytes) = "waiting" /\ bytes < Chunks
      BY <1>3, <2>1, TrackerAssumption DEF StateAfter
    <3> QED  BY <2>1, <3>1
  <2>2. CASE ~(task.tracker_dead /\ task.state = "downloading")
    <3>1. StateAfter(bytes) = task.state
      BY <1>3, <2>2 DEF StateAfter
    <3> QED  BY <1>1, <3>1
  <2> QED  BY <2>1, <2>2
<1> QED  BY <1>2, <1>3

\* A step of the state string that a reader of list may see.
Moves ==
    task'.state # task.state =>
        /\ task.state = "downloading"
        /\ \/ task'.state = "complete" /\ task'.bytes_done = Chunks
           \/ /\ task'.state = "waiting" /\ task'.bytes_done < Chunks
              /\ client.retry_count = MaxRetries

\* tick counts the verified bytes and sets the state.
LEMMA TickStep ==
    ASSUME TrackInv, Tick
    PROVE  TrackInv' /\ Moves
<1> DEFINE bytes == task.bytes_done + verified
           t == [task EXCEPT !.bytes_done = bytes, !.state = StateAfter(bytes)]
<1>1. bytes \in 0 .. Chunks
  BY Fields, TrackerAssumption DEF TrackInv, Counted
<1>2. /\ task \in TaskType
      /\ StateAfter(bytes) \in {"seeding", "downloading", "waiting", "complete"}
  BY <1>1, StateAfterFacts DEF TrackInv, TypeOK, TaskType
<1>3. t \in TaskType /\ t.bytes_done = bytes /\ t.state = StateAfter(bytes)
      /\ t.tracker_dead = task.tracker_dead
  <2> HIDE DEF bytes
  <2> QED  BY <1>1, <1>2, Zenon DEF TaskType
<1>4. \/ task' = t /\ UNCHANGED <<client, chains>>
      \/ AnnounceNow(t)
  BY DEF Tick
<1>5. verified' = 0 /\ UNCHANGED <<connected, other, age, faults>>
  BY DEF Tick
<1> HIDE DEF t
<1>6. /\ task' \in TaskType /\ task'.bytes_done = bytes /\ task'.state = StateAfter(bytes)
      /\ client' \in ClientType /\ chains' \in ChainsType /\ ChainCount' <= MaxChains
      /\ DeadMeansExhausted'
  <2>1. CASE AnnounceNow(t)
    <3>1. /\ task' \in TaskType /\ task'.tracker_dead = FALSE
          /\ task'.state = t.state /\ task'.bytes_done = t.bytes_done
          /\ client' \in ClientType
          /\ chains' \in ChainsType /\ ChainCount' <= MaxChains
      BY <1>3, <2>1, AnnounceStep
    <3> QED  BY <1>3, <3>1 DEF DeadMeansExhausted
  <2>2. CASE task' = t /\ UNCHANGED <<client, chains>>
    <3>1. client' \in ClientType /\ chains' \in ChainsType /\ ChainCount' <= MaxChains
      BY <2>2 DEF TrackInv, TypeOK, ClientType, ChainsType, ChainCount
    <3>2. task'.tracker_dead = task.tracker_dead /\ client' = client
      BY <1>3, <2>2
    <3>3. DeadMeansExhausted'
      BY <3>2 DEF TrackInv, DeadMeansExhausted
    <3> QED  BY <1>3, <2>2, <3>1, <3>3
  <2> QED  BY <1>4, <2>1, <2>2
<1>7. TypeOK'
  <2>1. verified' \in 0 .. Chunks
    BY <1>5, TrackerAssumption
  <2> QED  BY <1>5, <1>6, <2>1 DEF TrackInv, TypeOK, TaskType, ClientType, ChainsType
<1>8. Counted'
  BY <1>1, <1>5, <1>6, TrackerAssumption DEF Counted
<1>9. AgeExact'
  BY <1>5 DEF TrackInv, AgeExact
<1>10. Moves
  BY <1>1, <1>6, StateAfterFacts DEF TrackInv, DeadMeansExhausted, Moves
<1> QED  BY <1>6, <1>7, <1>8, <1>9, <1>10 DEF TrackInv

\* tick_tracker_announce.
LEMMA PeriodicStep ==
    ASSUME TrackInv, TickTrackerAnnounce
    PROVE  TrackInv' /\ Moves
<1>1. AnnounceNow(task) /\ UNCHANGED <<verified, connected, other, age, faults>>
  BY DEF TickTrackerAnnounce
<1>2. task \in TaskType
  BY DEF TrackInv, TypeOK, TaskType
<1>3. /\ task' \in TaskType /\ task'.tracker_dead = FALSE
      /\ task'.state = task.state /\ task'.bytes_done = task.bytes_done
      /\ client' \in ClientType
      /\ chains' \in ChainsType /\ ChainCount' <= MaxChains
  BY <1>1, <1>2, AnnounceStep
<1>4. TypeOK'
  BY <1>1, <1>3 DEF TrackInv, TypeOK, TaskType, ClientType, ChainsType
<1>5. Counted' /\ AgeExact'
  BY <1>1, <1>3 DEF TrackInv, Counted, AgeExact
<1> QED  BY <1>3, <1>4, <1>5 DEF TrackInv, DeadMeansExhausted, Moves

\* startup_announce_deadline passes.
LEMMA StartupStep ==
    ASSUME TrackInv, StartupEnds
    PROVE  TrackInv' /\ Moves
<1>1. /\ task' = [task EXCEPT !.startup = FALSE]
      /\ UNCHANGED <<client, chains, verified, connected, other, age, faults>>
  BY DEF StartupEnds
<1>2. task \in TaskType
  BY DEF TrackInv, TypeOK, TaskType
<1>3. /\ task' \in TaskType /\ task'.tracker_dead = task.tracker_dead
      /\ task'.state = task.state /\ task'.bytes_done = task.bytes_done
  BY <1>1, <1>2, Zenon DEF TaskType
<1>4. TypeOK'
  BY <1>1, <1>3 DEF TrackInv, TypeOK, TaskType
<1>5. Counted' /\ AgeExact' /\ DeadMeansExhausted' /\ ChainCount' <= MaxChains
  BY <1>1, <1>3 DEF TrackInv, Counted, AgeExact, DeadMeansExhausted, ChainCount
<1> QED  BY <1>3, <1>4, <1>5 DEF TrackInv, Moves

\* A request fails.  Only with all retries used is the tracker given up, and
\* then no later failure counts a retry.
LEMMA FailStep ==
    ASSUME TrackInv, RequestFails
    PROVE  /\ task' \in TaskType /\ client' \in ClientType /\ DeadMeansExhausted'
           /\ task'.state = task.state /\ task'.bytes_done = task.bytes_done
<1>0. /\ task \in TaskType /\ client \in ClientType
      /\ task.tracker_dead => client.retry_count = MaxRetries
  BY DEF TrackInv, TypeOK, TaskType, ClientType, DeadMeansExhausted
<1>1. client.retry_count \in 0 .. MaxRetries /\ MaxRetries \in Nat
  BY <1>0, TrackerAssumption DEF ClientType
<1>2. CASE Exhausted
  <2>1. /\ client' = [client EXCEPT !.dead_signalled = TRUE]
        /\ task' = [task EXCEPT !.tracker_dead = task.tracker_dead \/ ~client.dead_signalled]
    BY <1>2 DEF RequestFails
  <2>2. client.retry_count = MaxRetries
    BY <1>1, <1>2 DEF Exhausted
  <2>3. client' \in ClientType /\ client'.retry_count = client.retry_count
    BY <1>0, <2>1, Zenon DEF ClientType
  <2>4. /\ task' \in TaskType
        /\ task'.state = task.state /\ task'.bytes_done = task.bytes_done
    BY <1>0, <2>1, Zenon DEF TaskType
  <2> QED  BY <2>2, <2>3, <2>4 DEF DeadMeansExhausted
<1>3. CASE ~Exhausted
  <2>1. client' = [client EXCEPT !.retry_count = client.retry_count + 1] /\ task' = task
    BY <1>3 DEF RequestFails
  <2>2. client.retry_count + 1 \in 0 .. MaxRetries /\ client.retry_count # MaxRetries
    BY <1>1, <1>3 DEF Exhausted
  <2>3. client' \in ClientType
    BY <1>0, <2>1, <2>2, Zenon DEF ClientType
  <2> QED  BY <1>0, <2>1, <2>2, <2>3 DEF DeadMeansExhausted
<1> QED  BY <1>2, <1>3

\* A chain that moves on is counted once, whatever it waits for.
LEMMA ChainStep ==
    ASSUME TrackInv,
           RequestFails \/ RequestAnswered \/ RetryTimer \/ PollTimer
    PROVE  chains' \in ChainsType /\ ChainCount' <= MaxChains
<1>0. /\ chains \in ChainsType
      /\ chains.asking \in Nat /\ chains.retrying \in Nat /\ chains.polling \in Nat
      /\ ChainCount <= MaxChains /\ MaxChains \in Nat
  BY TrackerAssumption DEF TrackInv, TypeOK, ChainsType
<1>1. CASE RequestFails /\ Exhausted
  <2>1. chains' = [chains EXCEPT !.asking = chains.asking - 1] /\ chains.asking > 0
    BY <1>1 DEF RequestFails
  <2> QED  BY <1>0, <2>1 DEF ChainsType, ChainCount
<1>2. CASE RequestFails /\ ~Exhausted
  <2>1. /\ chains' = [chains EXCEPT !.asking = chains.asking - 1,
                                    !.retrying = chains.retrying + 1]
        /\ chains.asking > 0
    BY <1>2 DEF RequestFails
  <2>2. /\ chains.asking - 1 \in 0 .. MaxChains
        /\ chains.retrying + 1 \in 0 .. MaxChains
        /\ chains.polling \in 0 .. MaxChains
    BY <1>0, <2>1 DEF ChainCount
  <2>3. /\ chains' \in ChainsType
        /\ chains'.asking = chains.asking - 1
        /\ chains'.retrying = chains.retrying + 1
        /\ chains'.polling = chains.polling
    BY <1>0, <2>1, <2>2, Zenon DEF ChainsType
  <2> QED  BY <1>0, <2>1, <2>3 DEF ChainCount
<1>3. CASE RequestAnswered
  <2> DEFINE p == IF age = NoEntry THEN chains.polling + 1 ELSE chains.polling
  <2>0. p \in Nat /\ p <= chains.polling + 1
    BY <1>0
  <2>1. /\ chains' = [chains EXCEPT !.asking = chains.asking - 1,
                                    !.polling = p]
        /\ chains.asking > 0
    BY <1>3 DEF RequestAnswered
  <2> HIDE DEF p
  <2>2. /\ chains.asking - 1 \in 0 .. MaxChains
        /\ chains.retrying \in 0 .. MaxChains
        /\ p \in 0 .. MaxChains
    BY <1>0, <2>0, <2>1 DEF ChainCount
  <2>3. /\ chains' \in ChainsType
        /\ chains'.asking = chains.asking - 1
        /\ chains'.retrying = chains.retrying
        /\ chains'.polling = p
    BY <1>0, <2>0, <2>1, <2>2, Zenon DEF ChainsType
  <2> QED  BY <1>0, <2>0, <2>1, <2>3 DEF ChainCount
<1>4. CASE RetryTimer
  <2>1. /\ chains' = [chains EXCEPT !.retrying = chains.retrying - 1,
                                    !.asking = chains.asking + 1]
        /\ chains.retrying > 0
    BY <1>4 DEF RetryTimer
  <2>2. /\ chains.asking + 1 \in 0 .. MaxChains
        /\ chains.retrying - 1 \in 0 .. MaxChains
        /\ chains.polling \in 0 .. MaxChains
    BY <1>0, <2>1 DEF ChainCount
  <2>3. /\ chains' \in ChainsType
        /\ chains'.asking = chains.asking + 1
        /\ chains'.retrying = chains.retrying - 1
        /\ chains'.polling = chains.polling
    BY <1>0, <2>1, <2>2, Zenon DEF ChainsType
  <2> QED  BY <1>0, <2>1, <2>3 DEF ChainCount
<1>5. CASE PollTimer
  <2>1. /\ chains' = [chains EXCEPT !.polling = chains.polling - 1,
                                    !.asking = chains.asking + 1]
        /\ chains.polling > 0
    BY <1>5 DEF PollTimer
  <2>2. /\ chains.asking + 1 \in 0 .. MaxChains
        /\ chains.retrying \in 0 .. MaxChains
        /\ chains.polling - 1 \in 0 .. MaxChains
    BY <1>0, <2>1 DEF ChainCount
  <2>3. /\ chains' \in ChainsType
        /\ chains'.asking = chains.asking + 1
        /\ chains'.retrying = chains.retrying
        /\ chains'.polling = chains.polling - 1
    BY <1>0, <2>1, <2>2, Zenon DEF ChainsType
  <2> QED  BY <1>0, <2>1, <2>3 DEF ChainCount
<1> QED  BY <1>1, <1>2, <1>3, <1>4, <1>5

\* The steps of a chain keep the invariant.
LEMMA ClientStep ==
    ASSUME TrackInv, RequestFails \/ RequestAnswered \/ RetryTimer \/ PollTimer
    PROVE  TrackInv' /\ Moves
<1>1. chains' \in ChainsType /\ ChainCount' <= MaxChains
  BY ChainStep
<1>2. /\ task' \in TaskType /\ client' \in ClientType /\ DeadMeansExhausted'
      /\ task'.state = task.state /\ task'.bytes_done = task.bytes_done
  <2>1. CASE RequestFails
    BY <2>1, FailStep
  <2>2. CASE RequestAnswered \/ RetryTimer \/ PollTimer
    <3>1. task' = task /\ client' = client
      BY <2>2 DEF RequestAnswered, RetryTimer, PollTimer
    <3> QED  BY <3>1 DEF TrackInv, TypeOK, TaskType, ClientType, DeadMeansExhausted
  <2> QED  BY <2>1, <2>2
<1>3. verified' = verified /\ other' = other /\ age' = age
  BY DEF RequestFails, RequestAnswered, RetryTimer, PollTimer
<1>4. connected' \in BOOLEAN
  <2>1. connected \in BOOLEAN
    BY DEF TrackInv, TypeOK
  <2>2. CASE RequestAnswered
    BY <2>2, Zenon DEF RequestAnswered
  <2>3. CASE RequestFails \/ RetryTimer \/ PollTimer
    <3>1. connected' = connected
      BY <2>3 DEF RequestFails, RetryTimer, PollTimer
    <3> QED  BY <2>1, <3>1, Zenon
  <2> QED  BY <2>2, <2>3
<1>5. TypeOK'
  BY <1>1, <1>2, <1>3, <1>4 DEF TrackInv, TypeOK, TaskType, ClientType, ChainsType
<1>6. Counted' /\ AgeExact'
  BY <1>2, <1>3 DEF TrackInv, Counted, AgeExact
<1> QED  BY <1>1, <1>2, <1>5, <1>6 DEF TrackInv, Moves

\* The other daemon and the tracker leave the task and its client alone.
LEMMA OtherStep ==
    ASSUME TrackInv, OtherStarts \/ OtherStops \/ OtherAnnounces \/ CleanupStale
    PROVE  TrackInv' /\ Moves
<1>1. other' \in OtherType /\ age' \in 0 .. NoEntry /\ AgeExact'
  BY EntryStep
<1>2. task' = task /\ client' = client /\ chains' = chains /\ verified' = verified
  BY DEF OtherStarts, OtherStops, OtherAnnounces, CleanupStale
<1>3. connected' \in BOOLEAN
  <2>1. connected \in BOOLEAN
    BY DEF TrackInv, TypeOK
  <2>2. connected' = connected \/ connected' = FALSE
    BY DEF OtherStarts, OtherStops, OtherAnnounces, CleanupStale
  <2> QED  BY <2>1, <2>2, Zenon
<1>4. TypeOK'
  BY <1>1, <1>2, <1>3 DEF TrackInv, TypeOK, OtherType
<1>5. Counted' /\ DeadMeansExhausted' /\ ChainCount' <= MaxChains
  BY <1>2 DEF TrackInv, Counted, DeadMeansExhausted, ChainCount
<1> QED  BY <1>1, <1>2, <1>4, <1>5 DEF TrackInv, Moves

\* A chunk is verified, or the session breaks.
LEMMA SessionStep ==
    ASSUME TrackInv, Download \/ PeerLost
    PROVE  TrackInv' /\ Moves
<1>1. task' = task /\ client' = client /\ chains' = chains /\ other' = other /\ age' = age
  BY DEF Download, PeerLost
<1>2. verified' \in 0 .. Chunks /\ Counted'
  <2>1. /\ task.bytes_done \in 0 .. Chunks /\ verified \in 0 .. Chunks
        /\ task.bytes_done + verified <= Chunks /\ Chunks \in Nat
    BY Fields, TrackerAssumption DEF TrackInv, Counted
  <2>2. \/ verified' = verified
        \/ verified' = verified + 1 /\ task.bytes_done + verified < Chunks
    BY DEF Download, PeerLost
  <2> QED  BY <1>1, <2>1, <2>2 DEF Counted
<1>3. connected' \in BOOLEAN
  <2>1. connected \in BOOLEAN
    BY DEF TrackInv, TypeOK
  <2>2. connected' = connected \/ connected' = FALSE
    BY DEF Download, PeerLost
  <2> QED  BY <2>1, <2>2, Zenon
<1>4. TypeOK'
  BY <1>1, <1>2, <1>3 DEF TrackInv, TypeOK
<1>5. AgeExact' /\ DeadMeansExhausted' /\ ChainCount' <= MaxChains
  BY <1>1 DEF TrackInv, AgeExact, DeadMeansExhausted, ChainCount
<1> QED  BY <1>1, <1>2, <1>4, <1>5 DEF TrackInv, Moves

\* Every step keeps the invariant and moves the state as it may.
LEMMA NextTrack ==
    ASSUME TrackInv, [Next]_vars
    PROVE  TrackInv' /\ (Moves \/ UNCHANGED vars)
<1>1. CASE TickTrackerAnnounce
  BY <1>1, PeriodicStep
<1>2. CASE Tick
  BY <1>2, TickStep
<1>3. CASE StartupEnds
  BY <1>3, StartupStep
<1>4. CASE RequestFails \/ RequestAnswered \/ RetryTimer \/ PollTimer
  BY <1>4, ClientStep
<1>5. CASE OtherStarts \/ OtherStops \/ OtherAnnounces \/ CleanupStale
  BY <1>5, OtherStep
<1>6. CASE Download \/ PeerLost
  BY <1>6, SessionStep
<1>7. CASE UNCHANGED vars
  BY <1>7 DEF vars, TrackInv, TypeOK, ChainCount, Counted, AgeExact, DeadMeansExhausted
<1> QED  BY <1>1, <1>2, <1>3, <1>4, <1>5, <1>6, <1>7 DEF Next

-----------------------------------------------------------------------------
\* The inductive invariant holds in every behaviour.
THEOREM TrackInvariant == Spec => []TrackInv
<1>1. TrackInv /\ [Next]_vars => TrackInv'
  BY NextTrack
<1> QED  BY <1>1, InitTrack, PTL DEF Spec

\* Every counter of the task, its client and the tracker stays in its range;
\* bytes_done never passes the size of the file.
THEOREM TypeCorrect == Spec => []TypeOK
<1>1. TrackInv => TypeOK
  BY DEF TrackInv
<1> QED  BY <1>1, TrackInvariant, PTL

\* However many chains share retry_count_, the tracker is given up only when
\* all retries since the last announce are used.
THEOREM NeverDeadEarly == Spec => []DeadMeansExhausted
<1>1. TrackInv => DeadMeansExhausted
  BY DEF TrackInv
<1> QED  BY <1>1, TrackInvariant, PTL

\* A running daemon is listed at every moment, for any announce period and any
\* number of lost announces that fit in the stale time.
THEOREM RunningIsListed == Spec => []RunningPeerListed
<1>1. TrackInv => RunningPeerListed
  <2> SUFFICES ASSUME TrackInv, other.up PROVE age # NoEntry
    BY DEF RunningPeerListed
  <2>1. other.since \in 0 .. AnnounceEvery /\ other.lost \in 0 .. MaxLost
    BY Fields DEF TrackInv
  <2>2. age = other.since + other.lost * AnnounceEvery
    BY DEF TrackInv, AgeExact
  <2>3. age \in 0 .. StaleAfter
    BY <2>1, <2>2, NotYetStale
  <2> QED  BY <2>3, TrackerAssumption DEF NoEntry
<1> QED  BY <1>1, TrackInvariant, PTL

\* A task that is seeding or complete stays so, and complete comes with every
\* byte counted, however many chains give the tracker up and when.
THEOREM WholeStaysWhole == Spec => WholeIsFinal
<1> DEFINE Final ==
      /\ task.state \in {"seeding", "complete"} => task'.state = task.state
      /\ task'.state = "complete" /\ task.state # "complete"
            => task'.bytes_done = Chunks
<1>1. Moves => Final
  BY DEF Moves
<1>2. TrackInv /\ [Next]_vars => [Final]_vars
  BY <1>1, NextTrack
<1> QED  BY <1>2, TrackInvariant, PTL DEF Spec, WholeIsFinal
=============================================================================
