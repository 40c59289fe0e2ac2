---------------------------- MODULE TaskTracker ----------------------------
(***************************************************************************)
(* One task of TaskManager, its TrackerClient, and the TrackerServer that  *)
(* it and one other daemon announce to: how a task finds its peers, and    *)
(* how its state string moves.                                             *)
(*                                                                         *)
(* An announce is a chain of requests: each ends, waits for a retry or an  *)
(* empty-poll timer and asks again, or stops.  announce() starts a new     *)
(* chain and never stops the old ones, which share retry_count_.  The age  *)
(* of the other daemon's entry is counted in runs of cleanup_stale, one    *)
(* every 6 s; timers of the client fire in any order.                      *)
(***************************************************************************)
EXTENDS Integers, FiniteSets

CONSTANTS
    Chunks,         \* number of chunks of the file
    MaxRetries,     \* MAX_RETRIES
    StaleAfter,     \* cleanup_stale(90), in cleanup periods
    AnnounceEvery,  \* the 30 s of tick_tracker_announce, in cleanup periods
    MaxLost,        \* bound: announces of the other daemon lost in a row
    MaxChains,      \* bound: chains of the client at a time
    MaxFaults       \* bound: failed requests, lost connections, crashes

ASSUME TrackerAssumption ==
    /\ Chunks \in Nat \ {0} /\ MaxRetries \in Nat /\ MaxChains \in Nat \ {0}
    /\ AnnounceEvery \in Nat \ {0} /\ StaleAfter \in Nat /\ MaxLost \in Nat

\* An entry outlives the announces that may be lost: 3 * 30 s <= 90 s.
ASSUME PeriodsAssumption == (MaxLost + 1) * AnnounceEvery <= StaleAfter

VARIABLES
    task,           \* ActiveTask
    client,         \* TrackerClient
    chains,         \* how many chains are asking, or wait for a timer
    verified,       \* passed VerifyResults in result_queue_
    connected,      \* the task has a session with the other daemon
    other,          \* the other daemon: down, or its announces
    age,            \* its entry in swarms_, or NoEntry
    faults          \* bound bookkeeping

vars == <<task, client, chains, verified, connected, other, age, faults>>

NoEntry == StaleAfter + 1

Init ==
    \* cmd_add and cmd_update with what the local file already holds; cmd_seed.
    /\ task \in
          [state : {"downloading"}, bytes_done : 0 .. Chunks,
           tracker_dead : {FALSE}, startup : {TRUE}]
          \union [state : {"seeding"}, bytes_done : {0},
                  tracker_dead : {FALSE}, startup : {FALSE}]
    \* ... and their announce_task_now.
    /\ client = [retry_count |-> 0, dead_signalled |-> FALSE]
    /\ chains = [asking |-> 1, retrying |-> 0, polling |-> 0]
    /\ verified = 0
    /\ connected = FALSE
    /\ other = [up |-> FALSE, since |-> 0, lost |-> 0]
    /\ age = NoEntry
    /\ faults = 0

-----------------------------------------------------------------------------
(* TaskManager.                                                             *)

ChainCount == chains.asking + chains.retrying + chains.polling

\* announce_task_now, given the task record t it works on: the dead flag and
\* the retries start over, and one more chain asks.
AnnounceNow(t) ==
    /\ ChainCount < MaxChains
    /\ task' = [t EXCEPT !.tracker_dead = FALSE]
    /\ client' = [retry_count |-> 0, dead_signalled |-> FALSE]
    /\ chains' = [chains EXCEPT !.asking = @ + 1]

\* Slip: a task that has a client does not announce again.
MutantTickTrackerAnnounce == FALSE /\ UNCHANGED vars

\* tick_tracker_announce, every 30 s, whatever the state of the task.
TickTrackerAnnounce ==
    /\ AnnounceNow(task)
    /\ UNCHANGED <<verified, connected, other, age, faults>>

\* Slip: the dead flag is not compared with the state.
MutantStateAfter(bytes) ==
    LET whole == IF bytes >= Chunks /\ task.state = "downloading"
                 THEN "complete" ELSE task.state
    IN IF task.tracker_dead THEN "waiting" ELSE whole

\* The state string at the end of tick.
StateAfter(bytes) ==
    LET whole == IF bytes >= Chunks /\ task.state = "downloading"
                 THEN "complete" ELSE task.state
    IN IF task.tracker_dead /\ whole = "downloading" THEN "waiting" ELSE whole

\* Slip: the results drained are found again by the next tick.
MutantTick ==
    LET bytes == task.bytes_done + verified
    IN  /\ task' = [task EXCEPT !.bytes_done = bytes, !.state = StateAfter(bytes)]
        /\ UNCHANGED <<client, chains, verified, connected, other, age, faults>>

\* TaskManager::tick: count what was verified, set the state, and announce
\* every 2 s in the first minute of a download.
Tick ==
    LET bytes == task.bytes_done + verified
        t == [task EXCEPT !.bytes_done = bytes, !.state = StateAfter(bytes)]
    IN  /\ \/ task' = t /\ UNCHANGED <<client, chains>>
           \/ t.startup /\ t.state = "downloading" /\ AnnounceNow(t)
        /\ verified' = 0
        /\ UNCHANGED <<connected, other, age, faults>>

\* startup_announce_deadline passes.
StartupEnds ==
    /\ task.startup
    /\ task' = [task EXCEPT !.startup = FALSE]
    /\ UNCHANGED <<client, chains, verified, connected, other, age, faults>>

-----------------------------------------------------------------------------
(* TrackerClient.                                                           *)

\* Slip: off by one.
MutantExhausted == client.retry_count + 1 >= MaxRetries

Exhausted == client.retry_count >= MaxRetries

\* do_announce fails -> schedule_retry: the chain waits 30 s or, with all
\* retries used, stops and signals on_dead_ once.  A name that cannot be
\* resolved is not one of these failures: the exception leaves do_announce,
\* and TaskLife has what it does to the daemon.
RequestFails ==
    /\ chains.asking > 0
    /\ faults < MaxFaults
    /\ faults' = faults + 1
    /\ IF Exhausted
       THEN /\ chains' = [chains EXCEPT !.asking = @ - 1]
            /\ client' = [client EXCEPT !.dead_signalled = TRUE]
            /\ task' = [task EXCEPT !.tracker_dead = @ \/ ~client.dead_signalled]
       ELSE /\ chains' = [chains EXCEPT !.asking = @ - 1, !.retrying = @ + 1]
            /\ client' = [client EXCEPT !.retry_count = @ + 1]
            /\ UNCHANGED task
    /\ UNCHANGED <<verified, connected, other, age>>

\* The request is answered: on_peers_ connects to the peer listed, if it is
\* still there; with none listed, schedule_empty_poll.
RequestAnswered ==
    /\ chains.asking > 0
    /\ connected' = (connected \/ (age # NoEntry /\ other.up))
    /\ chains' = [chains EXCEPT !.asking = @ - 1,
                                !.polling = IF age = NoEntry THEN @ + 1 ELSE @]
    /\ UNCHANGED <<task, client, verified, other, age, faults>>

RetryTimer ==
    /\ chains.retrying > 0
    /\ chains' = [chains EXCEPT !.retrying = @ - 1, !.asking = @ + 1]
    /\ UNCHANGED <<task, client, verified, connected, other, age, faults>>

PollTimer ==
    /\ chains.polling > 0
    /\ chains' = [chains EXCEPT !.polling = @ - 1, !.asking = @ + 1]
    /\ UNCHANGED <<task, client, verified, connected, other, age, faults>>

-----------------------------------------------------------------------------
(* The other daemon and the TrackerServer.                                  *)

OtherStarts ==
    /\ ~other.up
    /\ other' = [up |-> TRUE, since |-> 0, lost |-> 0]
    /\ age' = 0
    /\ UNCHANGED <<task, client, chains, verified, connected, faults>>

\* It is killed; its entry stays until cleanup_stale finds it.
OtherStops ==
    /\ other.up
    /\ faults < MaxFaults
    /\ faults' = faults + 1
    /\ other' = [up |-> FALSE, since |-> 0, lost |-> 0]
    /\ connected' = FALSE
    /\ UNCHANGED <<task, client, chains, verified, age>>

\* Its tick_tracker_announce reaches TrackerServer::announce, or is lost.
OtherAnnounces ==
    /\ other.up /\ other.since = AnnounceEvery
    /\ \/ /\ other' = [other EXCEPT !.since = 0, !.lost = 0]
          /\ age' = 0
       \/ /\ other.lost < MaxLost
          /\ other' = [other EXCEPT !.since = 0, !.lost = @ + 1]
          /\ UNCHANGED age
    /\ UNCHANGED <<task, client, chains, verified, connected, faults>>

\* Slip: an entry exactly 90 s old goes.
MutantFresh(n) == n < StaleAfter

Fresh(n) == n <= StaleAfter

\* 6 s pass and cleanup_stale(90) runs; no announce of the other daemon is due.
\* An announce that is due is never late here.  The heartbeat of main is armed
\* again after each handler, so 30 s is the least an announce takes; that the
\* ages are cut to whole seconds allows three of them to be a second late.
CleanupStale ==
    /\ other.since < AnnounceEvery
    /\ other' = IF other.up THEN [other EXCEPT !.since = @ + 1] ELSE other
    /\ age' = IF age = NoEntry \/ ~Fresh(age + 1) THEN NoEntry ELSE age + 1
    /\ UNCHANGED <<task, client, chains, verified, connected, faults>>

\* A chunk arrives from the other daemon and is verified.
Download ==
    /\ connected
    /\ task.state # "seeding"
    /\ task.bytes_done + verified < Chunks
    /\ verified' = verified + 1
    /\ UNCHANGED <<task, client, chains, connected, other, age, faults>>

\* The session with the other daemon breaks.
PeerLost ==
    /\ connected
    /\ faults < MaxFaults
    /\ faults' = faults + 1
    /\ connected' = FALSE
    /\ UNCHANGED <<task, client, chains, verified, other, age>>

Next ==
    \/ TickTrackerAnnounce \/ Tick \/ StartupEnds
    \/ RequestFails \/ RequestAnswered \/ RetryTimer \/ PollTimer
    \/ OtherStarts \/ OtherStops \/ OtherAnnounces \/ CleanupStale
    \/ Download \/ PeerLost

Spec == Init /\ [][Next]_vars

\* Timers fire, requests end and the other daemon is started, again if it was
\* killed.  How often requests fail is bounded by MaxFaults.
Fairness ==
    /\ WF_vars(TickTrackerAnnounce) /\ WF_vars(Tick) /\ WF_vars(Download)
    /\ WF_vars(RequestAnswered) /\ WF_vars(RetryTimer) /\ WF_vars(PollTimer)
    /\ WF_vars(OtherStarts)

FairSpec == Spec /\ Fairness

-----------------------------------------------------------------------------
(* Properties.                                                              *)

\* The counters stay in their ranges; in particular bytes_done never passes
\* the size of the file.
TypeOK ==
    /\ task \in [state : {"seeding", "downloading", "waiting", "complete"},
                 bytes_done : 0 .. Chunks, tracker_dead : BOOLEAN, startup : BOOLEAN]
    /\ client \in [retry_count : 0 .. MaxRetries, dead_signalled : BOOLEAN]
    /\ chains \in [asking : 0 .. MaxChains, retrying : 0 .. MaxChains,
                   polling : 0 .. MaxChains]
    /\ verified \in 0 .. Chunks
    /\ connected \in BOOLEAN
    /\ other \in [up : BOOLEAN, since : 0 .. AnnounceEvery, lost : 0 .. MaxLost]
    /\ age \in 0 .. NoEntry

\* The tracker is given up only when the retries since the last announce are
\* used up, though several chains count them together and an announce in
\* between starts them over.
DeadMeansExhausted == task.tracker_dead => client.retry_count = MaxRetries

\* A daemon that announces every 30 s is listed at every moment, even when
\* two announces in a row are lost: the entry is then exactly 90 s old.
RunningPeerListed == other.up => age # NoEntry

\* What a client of list is told of a task that is whole is never taken back:
\* seeding and complete are final, and complete comes with every byte counted.
\* A tracker that is given up after the last byte, by whichever chain, changes
\* nothing.
WholeIsFinal ==
    [][/\ task.state \in {"seeding", "complete"} => task'.state = task.state
       /\ task'.state = "complete" /\ task.state # "complete"
             => task'.bytes_done = Chunks]_vars

\* A download is finished however late the other daemon starts, however the
\* retries, polls and periodic announces interleave, and also when the task
\* has become waiting in between.
DownloadFinishes == <>(task.state = "seeding" \/ task.bytes_done = Chunks)

-----------------------------------------------------------------------------
(* What design.md says of the state strings, and the code does not keep.    *)

\* A download that has every byte becomes complete.  In the code a task that
\* became waiting while the tracker did not answer goes on downloading and
\* stays waiting when the file is whole.
FinishedIsComplete ==
    (task.state # "seeding" /\ task.bytes_done = Chunks) ~> (task.state = "complete")
=============================================================================
