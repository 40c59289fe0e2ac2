---------------------------- MODULE PeerSession ----------------------------
(***************************************************************************)
(* One TCP connection between a downloader D and a seed U: the PeerSession *)
(* at each end, with its handshake, write queue, choke and interest flags, *)
(* and the life of a request: REQUEST, read by FileReadPool, PIECE, or     *)
(* timeout, CANCEL and another try, or a new connection after too many.    *)
(*                                                                         *)
(* Every action is one callback of an event loop, except ReadDone, which   *)
(* is a thread of U's FileReadPool.  The scheduler of D is reduced to one  *)
(* chunk: Ask is try_schedule_chunk_on_peer, in any order of sub-blocks.   *)
(* A payload is the sub-block it is about; sendfile uploads, which the     *)
(* code leaves off by default, are not in the model.                       *)
(***************************************************************************)
EXTENDS Integers, Sequences, FiniteSets, Functions

CONSTANTS
    SubCount,       \* the number of sub-blocks of the chunk
    PipelineCap,    \* pipeline_cap of the session
    TimeoutLimit,   \* REQUEST_TIMEOUT_LIMIT
    MaxBacklog,     \* bound: messages on their way when tick_choke runs
    MaxFaults       \* bound: see the actions that say Fault

ASSUME SessionAssumption ==
    /\ SubCount \in Nat \ {0}
    /\ PipelineCap \in Nat \ {0}
    /\ TimeoutLimit \in Nat \ {0}

Subs == 0 .. SubCount - 1
D == "downloader"
U == "seed"
Ends == {D, U}
Other(e) == IF e = D THEN U ELSE D

VARIABLES
    end,        \* the PeerSession at each end
    wire,       \* end -> messages it has written and the other has not read
    reads,      \* sub-block -> its jobs in U's FileReadPool
    posted,     \* sub-block -> its pieces posted back to U's event loop
    slot,       \* D's PeerSlot for this connection
    sub_req,    \* chunk_sub_req_
    received,   \* sub-blocks handed to D's I/O threads
    done,       \* D's scheduler is in phase DONE
    faults      \* bound bookkeeping

vars == <<end, wire, reads, posted, slot, sub_req, received, done, faults>>
upload == <<reads, posted>>
download == <<slot, sub_req, received, done>>

Plain(t) == [type |-> t, sub |-> 0]
About(t, s) == [type |-> t, sub |-> s]
MsgTypes == {"HANDSHAKE", "BITFIELD", "HAVE", "CHOKE", "UNCHOKE", "INTERESTED",
             "NOT_INTERESTED", "REQUEST", "CANCEL", "PIECE"}
Msg == [type : MsgTypes, sub : Subs]

NewSession ==
    [state |-> "HANDSHAKE", connected |-> FALSE, handshake_sent |-> FALSE,
     choking_peer |-> TRUE, peer_choking_me |-> TRUE,
     peer_interested |-> FALSE, am_interested |-> FALSE,
     write_queue |-> <<>>, is_writing |-> FALSE,
     writing |-> <<>>,              \* the buffer of the async_write under way
     cancelled_set |-> {},
     pending_times |-> {}, consecutive_timeouts |-> 0]
NoSession == [NewSession EXCEPT !.state = "DISCONNECTED"]
NoSlot == [has |-> FALSE, pending_requests |-> 0, consecutive_timeouts |-> 0]

Init ==
    /\ end = [e \in Ends |-> NoSession]
    /\ wire = [e \in Ends |-> <<>>]
    /\ reads = [s \in Subs |-> 0]
    /\ posted = [s \in Subs |-> 0]
    /\ slot = NoSlot
    /\ sub_req = {}
    /\ received = {}
    /\ done = FALSE
    /\ faults = 0

\* A step that the network or the timing may force, MaxFaults times in all.
Fault(n) == faults + n <= MaxFaults /\ faults' = faults + n

-----------------------------------------------------------------------------
(* The write queue.                                                         *)

\* do_write: hand the first message to async_write.
do_write(E, e) ==
    IF E[e].write_queue = <<>> THEN [E EXCEPT ![e].is_writing = FALSE]
    ELSE [E EXCEPT ![e].writing = Append(@, Head(E[e].write_queue)),
                   ![e].write_queue = Tail(@)]

\* Slip: do_write is called without looking at is_writing_.
Mutant_send_message(E, e, m) ==
    do_write([E EXCEPT ![e].write_queue = Append(@, m), ![e].is_writing = TRUE], e)

send_message(E, e, m) ==
    LET queued == [E EXCEPT ![e].write_queue = Append(@, m)]
    IN IF E[e].is_writing THEN queued
       ELSE do_write([queued EXCEPT ![e].is_writing = TRUE], e)

\* Several calls in a row: the first may start a write, the others find
\* is_writing_ set and only queue.
send_all(E, e, msgs) ==
    IF msgs = <<>> THEN E
    ELSE LET first == send_message(E, e, Head(msgs))
         IN  [first EXCEPT ![e].write_queue = @ \o Tail(msgs)]

\* Slip: the completion handler does not look for more.
MutantWriteDone(e) ==
    /\ end[e].writing # <<>>
    /\ end[e].connected
    /\ wire' = [wire EXCEPT ![e] = Append(@, Head(end[e].writing))]
    /\ end' = [end EXCEPT ![e].writing = Tail(@), ![e].is_writing = FALSE]
    /\ UNCHANGED <<upload, download, faults>>

\* The completion handler of async_write.
WriteDone(e) ==
    LET idle == [end EXCEPT ![e].writing = Tail(@)]
    IN  /\ end[e].writing # <<>>
        /\ end[e].connected
        /\ wire' = [wire EXCEPT ![e] = Append(@, Head(end[e].writing))]
        /\ end' = do_write(idle, e)
        /\ UNCHANGED <<upload, download, faults>>

-----------------------------------------------------------------------------
(* Connecting, the handshake and disconnecting.                             *)

Slot == [NoSlot EXCEPT !.has = TRUE]

\* connect_to: the session and its slot are there before the connection is.
Dial(e) ==
    /\ \A x \in Ends : end[x].state = "DISCONNECTED"
    /\ end' = [end EXCEPT ![e] = NewSession]
    /\ wire' = [x \in Ends |-> <<>>]
    /\ slot' = IF e = D THEN Slot ELSE slot
    /\ UNCHANGED <<upload, sub_req, received, done, faults>>

\* do_accept at the other end, the async_connect handler at this one.
Establish(e) ==
    LET both == [end EXCEPT ![e].connected = TRUE,
                            ![Other(e)] = [NewSession EXCEPT !.connected = TRUE]]
        sent == send_message(both, e, Plain("HANDSHAKE"))
    IN  /\ end[e].state = "HANDSHAKE"
        /\ ~end[e].connected
        /\ end[Other(e)].state = "DISCONNECTED"
        /\ end' = [sent EXCEPT ![e].handshake_sent = TRUE]
        /\ slot' = IF e = U THEN Slot ELSE slot
        /\ UNCHANGED <<wire, upload, sub_req, received, done, faults>>

\* disconnect: at D, on_peer_removed forgets the requests of this peer; at U,
\* closed_ keeps the pool threads and the posted pieces from being sent.
Drop(e) ==
    /\ end' = [end EXCEPT ![e] = NoSession]
    /\ IF e = D
       THEN /\ slot' = NoSlot
            /\ sub_req' = IF done THEN sub_req ELSE sub_req \ end[D].pending_times
            /\ UNCHANGED upload
       ELSE /\ reads' = [s \in Subs |-> 0]
            /\ posted' = [s \in Subs |-> 0]
            /\ UNCHANGED <<slot, sub_req>>
    /\ UNCHANGED <<received, done>>

\* The connection breaks: Fault.
Break(e) ==
    /\ end[e].state # "DISCONNECTED"
    /\ Fault(1)
    /\ Drop(e)
    /\ UNCHANGED wire

\* A read or a write fails: the other end is gone, or this end wrote to a
\* socket that is not connected yet.
Error(e) ==
    /\ end[e].state # "DISCONNECTED"
    /\ \/ end[e].connected /\ end[Other(e)].state = "DISCONNECTED"
       \/ ~end[e].connected /\ end[e].writing # <<>>
    /\ Drop(e)
    /\ UNCHANGED <<wire, faults>>

\* handle_handshake: anything but a handshake is a broken one.
HandshakeMsg(e) ==
    LET shaken == [end EXCEPT ![e].state = "CONNECTED", ![e].handshake_sent = TRUE]
        answer == IF end[e].handshake_sent THEN <<>> ELSE <<Plain("HANDSHAKE")>>
        bitfield == <<Plain("BITFIELD")>>
    IN  /\ end[e].state = "HANDSHAKE"
        /\ wire[Other(e)] # <<>>
        /\ IF Head(wire[Other(e)]).type = "HANDSHAKE"
           THEN /\ end' = send_all(shaken, e, answer \o bitfield)
                /\ UNCHANGED <<upload, download>>
           ELSE Drop(e)
        /\ wire' = [wire EXCEPT ![Other(e)] = Tail(@)]
        /\ UNCHANGED faults

-----------------------------------------------------------------------------
(* Choke and interest.                                                      *)

\* Slip: the flag that keeps INTERESTED from being sent twice is not set.
Mutant_send_interested(E, e) ==
    IF E[e].am_interested THEN E ELSE send_message(E, e, Plain("INTERESTED"))

send_interested(E, e) ==
    IF E[e].am_interested THEN E
    ELSE send_message([E EXCEPT ![e].am_interested = TRUE], e, Plain("INTERESTED"))

send_not_interested(E, e) ==
    IF ~E[e].am_interested THEN E
    ELSE send_message([E EXCEPT ![e].am_interested = FALSE], e, Plain("NOT_INTERESTED"))

\* PeerManager::tick_choke, every 10 s, on every session whatever its state.
\* Whether the other end gets a slot depends on the other peers of this one:
\* not getting one, or the tick falling in the middle of the handshake, is a
\* Fault.
TickChoke(e, choked) ==
    /\ end[e].state # "DISCONNECTED"
    /\ Len(end[e].write_queue) + Len(wire[e]) < MaxBacklog
    /\ Fault(IF choked \/ end[e].state = "HANDSHAKE" THEN 1 ELSE 0)
    /\ end' = send_message([end EXCEPT ![e].choking_peer = choked], e,
                           Plain(IF choked THEN "CHOKE" ELSE "UNCHOKE"))
    /\ UNCHANGED <<wire, upload, download>>

\* Slip: the peer is unchoked and not told.
Mutant_on_interested(E) ==
    [E EXCEPT ![U].peer_interested = TRUE, ![U].choking_peer = FALSE]

on_interested(E) ==
    LET noted == [E EXCEPT ![U].peer_interested = TRUE]
    IN IF ~E[U].choking_peer THEN noted
       ELSE send_message([noted EXCEPT ![U].choking_peer = FALSE], U, Plain("UNCHOKE"))

-----------------------------------------------------------------------------
(* Requests.                                                                *)

\* The scheduler of D asks for a sub-block.
Ask(s) ==
    /\ end[D].state = "CONNECTED"
    /\ slot.has
    /\ ~end[D].peer_choking_me
    /\ slot.consecutive_timeouts < 3
    /\ slot.pending_requests < PipelineCap
    /\ ~done
    /\ s \notin sub_req
    /\ sub_req' = sub_req \union {s}
    /\ slot' = [slot EXCEPT !.pending_requests = @ + 1]
    /\ end' = send_message([end EXCEPT ![D].pending_times = @ \union {s}], D,
                           About("REQUEST", s))
    /\ UNCHANGED <<wire, upload, received, done, faults>>

\* A thread of FileReadPool has read the sub-block.
ReadDone(s) ==
    /\ reads[s] > 0
    /\ reads' = [reads EXCEPT ![s] = @ - 1]
    /\ posted' = [posted EXCEPT ![s] = @ + 1]
    /\ UNCHANGED <<end, wire, download, faults>>

\* pread has returned nothing: the callback has no piece to send.  Fault.
ReadFails(s) ==
    /\ reads[s] > 0
    /\ Fault(1)
    /\ reads' = [reads EXCEPT ![s] = @ - 1]
    /\ UNCHANGED <<end, wire, posted, download>>

SendPiece(s) ==
    /\ posted[s] > 0
    /\ posted' = [posted EXCEPT ![s] = @ - 1]
    /\ end' = send_message(end, U, About("PIECE", s))
    /\ UNCHANGED <<wire, reads, download, faults>>

\* REQUESTs for s, or what became of them, that are still on their way.
Path == end[D].write_queue \o end[D].writing \o wire[D]
            \o end[U].write_queue \o end[U].writing \o wire[U]
UnderWay(s) ==
    \/ reads[s] + posted[s] > 0
    \/ About("REQUEST", s) \in Range(Path)
    \/ About("PIECE", s) \in Range(Path)

\* Some of the requests that wait, in the order of pending_times_, a std::map.
Late == {late \in UNION {[1 .. n -> end[D].pending_times] : n \in 1 .. SubCount} :
            \A i, j \in DOMAIN late : i < j => late[i] < late[j]}

\* Slip: the sub-blocks stay marked as requested.
MutantEvalTick(late) ==
    LET cancels == send_all([end EXCEPT ![D].pending_times = @ \ Range(late)], D,
                            [k \in DOMAIN late |-> About("CANCEL", late[k])])
    IN  /\ end[D].state = "CONNECTED"
        /\ Fault(Cardinality({s \in Range(late) : UnderWay(s)}))
        /\ end' = cancels
        /\ UNCHANGED <<wire, upload, download>>

\* do_eval_tick at D: the requests in late are older than REQUEST_TIMEOUT_MS.
\* That of a request still on its way is a Fault.
EvalTick(late) ==
    LET timeouts == end[D].consecutive_timeouts + Len(late)
        cancels == send_all([end EXCEPT ![D].pending_times = @ \ Range(late)], D,
                            [k \in DOMAIN late |-> About("CANCEL", late[k])])
    IN  /\ end[D].state = "CONNECTED"
        /\ Fault(Cardinality({s \in Range(late) : UnderWay(s)}))
        /\ IF timeouts >= TimeoutLimit THEN Drop(D)
           ELSE /\ end' = [cancels EXCEPT ![D].consecutive_timeouts = timeouts]
                /\ slot' = [slot EXCEPT !.consecutive_timeouts = timeouts]
                /\ sub_req' = IF done THEN sub_req ELSE sub_req \ Range(late)
                /\ UNCHANGED <<upload, received, done>>
        /\ UNCHANGED wire

\* TaskManager::tick finds the chunk verified: process_completions.  The
\* NOT_INTERESTED goes out by send_message, am_interested_ stays as it is.
Complete ==
    /\ received = Subs
    /\ ~done
    /\ done' = TRUE
    /\ end' = IF end[D].state = "DISCONNECTED" THEN end
              ELSE send_all(end, D, <<Plain("HAVE"), Plain("NOT_INTERESTED")>>)
    /\ UNCHANGED <<wire, upload, slot, sub_req, received, faults>>

-----------------------------------------------------------------------------
(* dispatch_message.                                                        *)

DownloaderMsg ==
    LET m == Head(wire[U])
        pieced == [end EXCEPT ![D].pending_times = @ \ {m.sub},
                              ![D].consecutive_timeouts = 0]
        wants(E) == IF done THEN send_not_interested(E, D) ELSE send_interested(E, D)
        unchoked == [end EXCEPT ![D].peer_choking_me = FALSE]
    IN  /\ end[D].state = "CONNECTED"
        /\ wire[U] # <<>>
        /\ wire' = [wire EXCEPT ![U] = Tail(@)]
        /\ end' = CASE m.type = "CHOKE" -> [end EXCEPT ![D].peer_choking_me = TRUE]
                    [] m.type = "UNCHOKE" -> IF done THEN unchoked
                                              ELSE send_interested(unchoked, D)
                    [] m.type = "BITFIELD" -> wants(end)
                    [] m.type = "PIECE" -> pieced
        /\ IF m.type = "PIECE"
           THEN /\ received' = received \union {m.sub}
                /\ slot' = [slot EXCEPT !.pending_requests = IF @ = 0 THEN 0 ELSE @ - 1]
           ELSE UNCHANGED <<received, slot>>
        /\ UNCHANGED <<upload, sub_req, done, faults>>

\* The early returns of handle_request_msg.
Ignored(s) == end[U].choking_peer \/ s \in end[U].cancelled_set

\* U has every chunk, so that no UNCHOKE, BITFIELD or HAVE makes it interested.
SeedMsg ==
    LET m == Head(wire[D])
    IN  /\ end[U].state = "CONNECTED"
        /\ wire[D] # <<>>
        /\ wire' = [wire EXCEPT ![D] = Tail(@)]
        /\ end' = CASE m.type = "INTERESTED" -> on_interested(end)
                    [] m.type = "NOT_INTERESTED" -> [end EXCEPT ![U].peer_interested = FALSE]
                    [] m.type = "CANCEL" -> [end EXCEPT ![U].cancelled_set = @ \union {m.sub}]
                    [] m.type \in {"CHOKE", "UNCHOKE"} ->
                           [end EXCEPT ![U].peer_choking_me = (m.type = "CHOKE")]
                    [] m.type \in {"BITFIELD", "HAVE", "REQUEST"} -> end
        /\ reads' = IF m.type = "REQUEST" /\ ~Ignored(m.sub)
                    THEN [reads EXCEPT ![m.sub] = @ + 1] ELSE reads
        /\ UNCHANGED <<posted, download, faults>>

-----------------------------------------------------------------------------
Next ==
    \/ \E e \in Ends : Dial(e) \/ Establish(e) \/ Break(e) \/ Error(e)
    \/ \E e \in Ends : WriteDone(e) \/ HandshakeMsg(e)
    \/ \E e \in Ends, choked \in BOOLEAN : TickChoke(e, choked)
    \/ \E s \in Subs : Ask(s) \/ ReadDone(s) \/ ReadFails(s) \/ SendPiece(s)
    \/ \E late \in Late : EvalTick(late)
    \/ Complete
    \/ DownloaderMsg
    \/ SeedMsg

Spec == Init /\ [][Next]_vars

\* Both event loops and the pool threads keep running; the tracker or a PEX
\* message makes one of the ends dial again; tick_choke comes back.
Fairness ==
    /\ WF_vars(\E e \in Ends : Dial(e))
    /\ \A e \in Ends : /\ WF_vars(Establish(e)) /\ WF_vars(Error(e))
                       /\ WF_vars(WriteDone(e)) /\ WF_vars(HandshakeMsg(e))
    /\ \A e \in Ends : WF_vars(TickChoke(e, FALSE))
    /\ \A s \in Subs : WF_vars(Ask(s)) /\ WF_vars(ReadDone(s)) /\ WF_vars(SendPiece(s))
    /\ WF_vars(\E late \in Late : EvalTick(late))
    /\ WF_vars(Complete) /\ WF_vars(DownloaderMsg) /\ WF_vars(SeedMsg)

FairSpec == Spec /\ Fairness

-----------------------------------------------------------------------------
(* Properties.                                                              *)

\* Besides the types: at most one async_write is under way on a socket.
TypeOK ==
    /\ \A e \in Ends :
          /\ end[e].state \in {"HANDSHAKE", "CONNECTED", "DISCONNECTED"}
          /\ end[e].write_queue \in Seq(Msg)
          /\ end[e].writing \in Seq(Msg) /\ Len(end[e].writing) <= 1
          /\ end[e].cancelled_set \union end[e].pending_times \subseteq Subs
    /\ wire \in [Ends -> Seq(Msg)]
    /\ reads \in [Subs -> Nat] /\ posted \in [Subs -> Nat]
    /\ slot.pending_requests \in 0 .. PipelineCap
    /\ sub_req \subseteq Subs /\ received \subseteq Subs

\* A message in the write queue has a write before it that will take it
\* along: do_write, send_message and the completion handler never leave the
\* queue behind with is_writing_ cleared, or the flag set and no write.
NoStrandedWrite ==
    \A e \in Ends :
        /\ end[e].write_queue # <<>> => end[e].is_writing
        /\ end[e].is_writing <=> end[e].writing # <<>>

\* What has been written and not yet handled, oldest first.
InFlight(e) == wire[e] \o end[e].writing \o end[e].write_queue
\* The messages of a sequence that set or clear a flag, by position.
Deciding(msgs, on, off) == {k \in 1 .. Len(msgs) : msgs[k].type \in {on, off}}
\* When all messages are handled the flag has the given value: the last one
\* that sets or clears it decides, or it stays as it is.
Settles(flag, msgs, on, off, value) ==
    \/ Deciding(msgs, on, off) = {} /\ flag = value
    \/ \E k \in Deciding(msgs, on, off) :
          /\ \A j \in Deciding(msgs, on, off) : j <= k
          /\ value = (msgs[k].type = on)
BothConnected == \A e \in Ends : end[e].state = "CONNECTED"

\* Once the messages in flight are handled, each end knows whether the other
\* chokes it.  Two writers of choking_peer_, tick_choke and INTERESTED, keep to
\* this.
ChokeAgreement ==
    BothConnected => \A e \in Ends :
        Settles(end[Other(e)].peer_choking_me, InFlight(e), "CHOKE", "UNCHOKE",
                end[e].choking_peer)

\* Once the messages in flight are handled, U takes D as interested exactly
\* when D has said so and is not done: am_interested_ decides alone what is
\* sent, and the NOT_INTERESTED of the end of the download has the last word.
InterestAgreement ==
    BothConnected => Settles(end[U].peer_interested, InFlight(D),
                             "INTERESTED", "NOT_INTERESTED",
                             end[D].am_interested /\ ~done)

\* Every request the slot counts has been given up: do_eval_tick timed it out,
\* on_subblock_timeout left pending_requests alone, and with the pipeline full
\* nothing is asked for, so that nothing can time out and drop the connection.
Starved ==
    /\ slot.has
    /\ slot.pending_requests = PipelineCap
    /\ end[D].pending_times = {}
    /\ end[D].state = "CONNECTED"

\* The download ends, whatever finite number of chokes, failed reads, broken
\* connections and timeouts hits it, unless the requests that were given up
\* fill the pipeline: a request that the seed ignores because it chokes D, or
\* because the sub-block was cancelled once on this connection, is timed out
\* and asked again, on a new connection if need be.
CompletesOrStarves == <>done \/ <>[]Starved
=============================================================================
