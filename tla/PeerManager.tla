---------------------------- MODULE PeerManager ----------------------------
(***************************************************************************)
(* The PeerManagers of a few daemons in one swarm and the tracker that     *)
(* introduces them: connect_to, do_accept, the handshake as PeerManager    *)
(* sees it, PEX, and TrackerServer::announce.                              *)
(*                                                                         *)
(* A link <<n, p, k>> is a connection that n dialled to p, with the state  *)
(* of the PeerSession at either end.  A node stands for its ip and its     *)
(* listen port.  Only the messages that make or break connections are      *)
(* kept: the handshake and PEX.                                            *)
(***************************************************************************)
EXTENDS Integers, Sequences, FiniteSets

CONSTANTS
    Nodes,
    Announcing,     \* the nodes that reach the tracker
    MaxPeers,       \* MAX_PEERS
    Links,          \* bound: the connections there can be at a time
    MaxBreaks,      \* bound: failed dials, breaks, broadcasts into a handshake
    MaxUnread       \* bound: messages a connection holds in one direction

ASSUME ManagerAssumption ==
    /\ IsFiniteSet(Nodes) /\ MaxPeers \in Nat \ {0}
    /\ Links \subseteq Nodes \X Nodes \X Nat
    /\ \A l \in Links : l[1] # l[2]

VARIABLES
    dialer,         \* link -> the session at the end that dialled
    acceptor,       \* link -> the session at the other end
    to_acceptor,    \* link -> what the dialer wrote and the acceptor has not read
    to_dialer,      \* link -> the other direction
    wrong_port,     \* links dialled to a port that nobody listens on
    recent,         \* node -> recent_connects_
    swarm,          \* TrackerServer::swarms_, for the one info_hash
    tracker_up,     \* the tracker answers
    breaks          \* bound bookkeeping

vars == <<dialer, acceptor, to_acceptor, to_dialer, wrong_port, recent, swarm, tracker_up, breaks>>

HS == [type |-> "HANDSHAKE", peers |-> {}]
Entry == [node : Nodes, good_port : BOOLEAN]
PEX(peers) == [type |-> "PEX", peers |-> peers]
Msg == [type : {"HANDSHAKE", "PEX"}, peers : SUBSET Entry]

Init ==
    /\ dialer = [l \in Links |-> "DISCONNECTED"]
    /\ acceptor = [l \in Links |-> "DISCONNECTED"]
    /\ to_acceptor = [l \in Links |-> <<>>]
    /\ to_dialer = [l \in Links |-> <<>>]
    /\ wrong_port = {}
    /\ recent = [n \in Nodes |-> {}]
    /\ swarm = {}
    /\ tracker_up = TRUE
    /\ breaks = 0

-----------------------------------------------------------------------------
(* sessions_ of a node, as the functions of PeerManager look at it.         *)

\* The links on which n has a session, as dialer and as acceptor.
Dialled(n) == {l \in Links : l[1] = n /\ dialer[l] # "DISCONNECTED"}
Accepted(n) == {l \in Links : l[2] = n /\ acceptor[l] # "DISCONNECTED"}
SessionCount(n) == Cardinality(Dialled(n)) + Cardinality(Accepted(n))

\* remote_ip() of a session whose socket is not connected is "unknown".
RemoteIps(n) == {l[2] : l \in {k \in Dialled(n) : dialer[k] # "CONNECTING"}}
                    \union {l[1] : l \in Accepted(n)}

\* Slip: sessions whose ip is not known yet are listed too.
Mutant_make_full_pex_list(n, except) ==
    {[node |-> IF dialer[l] = "CONNECTING" THEN "unknown" ELSE l[2], good_port |-> TRUE] :
        l \in Dialled(n) \ {except}}
    \union {[node |-> l[1], good_port |-> acceptor[l] = "CONNECTED"] :
        l \in Accepted(n) \ {except}}

\* make_full_pex_list: every session with an ip but the one on link except.
\* The port of a peer that connected to us and has not told its listen port
\* is the one it happens to call from.
make_full_pex_list(n, except) ==
    {[node |-> l[2], good_port |-> TRUE] :
        l \in {k \in Dialled(n) \ {except} : dialer[k] # "CONNECTING"}}
    \union {[node |-> l[1], good_port |-> acceptor[l] = "CONNECTED"] :
        l \in Accepted(n) \ {except}}

\* The links from n to p that are not in use.
Spare(n, p) ==
    {l \in Links : /\ l[1] = n /\ l[2] = p
                   /\ dialer[l] = "DISCONNECTED" /\ acceptor[l] = "DISCONNECTED"}

\* connect_to goes through for these entries: not n itself, nor one it has a
\* connected session with.  A dial under way has no ip yet and stops nobody.
Connectable(n, entries) ==
    {x \in entries : x.node \notin RemoteIps(n) \union {n} /\ Spare(n, x.node) # {}}

\* The new session.  A peer that is listed with two ports is dialled twice.
NewLink(n, x) ==
    LET spare == Spare(n, x.node)
        first == CHOOSE l \in spare : TRUE
        other == CHOOSE l \in spare : spare # {first} => l # first
    IN  IF x.good_port THEN first ELSE other

\* connect_to for each of the entries, in some order, as long as there is room.
ConnectTo(n, entries) ==
    LET free == MaxPeers - SessionCount(n)
        wanted == Connectable(n, entries)
    IN \E calls \in SUBSET wanted :
          LET to(good) == {NewLink(n, x) : x \in {y \in calls : y.good_port = good}}
          IN  /\ Cardinality(calls) <= free
              /\ calls = wanted \/ Cardinality(calls) = free
              /\ dialer' = [l \in Links |-> IF l \in to(TRUE) \union to(FALSE)
                                            THEN "CONNECTING" ELSE dialer[l]]
              /\ wrong_port' = (wrong_port \union to(FALSE)) \ to(TRUE)

-----------------------------------------------------------------------------
(* Writing to a session.                                                    *)

\* send_message(m) to every session of n.  What is written before the
\* connection is up, or before the handshake, goes out ahead of the handshake.
Broadcast(n, m) ==
    /\ to_acceptor' = [l \in Links |-> IF l \in Dialled(n)
                                       THEN Append(to_acceptor[l], m) ELSE to_acceptor[l]]
    /\ to_dialer' = [l \in Links |-> IF l \in Accepted(n)
                                     THEN Append(to_dialer[l], m) ELSE to_dialer[l]]

\* disconnect(): the socket is closed before on_peer_disconnected asks for
\* its ip, so note_recent_disconnect always finds "unknown" and notes nothing.
CloseDialer(l) ==
    /\ dialer' = [dialer EXCEPT ![l] = "DISCONNECTED"]
    /\ to_dialer' = [to_dialer EXCEPT ![l] = <<>>]
    /\ to_acceptor' = IF acceptor[l] = "DISCONNECTED"
                      THEN [to_acceptor EXCEPT ![l] = <<>>] ELSE to_acceptor
CloseAcceptor(l) ==
    /\ acceptor' = [acceptor EXCEPT ![l] = "DISCONNECTED"]
    /\ to_acceptor' = [to_acceptor EXCEPT ![l] = <<>>]
    /\ to_dialer' = IF dialer[l] = "DISCONNECTED"
                    THEN [to_dialer EXCEPT ![l] = <<>>] ELSE to_dialer

-----------------------------------------------------------------------------
(* Actions.                                                                 *)

\* Slip: only the first announce connects.
MutantAnnounce(n) ==
    /\ tracker_up /\ n \in Announcing \ swarm
    /\ swarm' = swarm \union {n}
    /\ ConnectTo(n, {[node |-> p, good_port |-> TRUE] : p \in swarm \ {n}})
    /\ UNCHANGED <<acceptor, to_acceptor, to_dialer, recent, tracker_up, breaks>>

\* announce_task_now and TrackerServer::announce: n is in the swarm, and
\* connects to the others in it.
Announce(n) ==
    /\ tracker_up /\ n \in Announcing
    /\ swarm' = swarm \union {n}
    /\ ConnectTo(n, {[node |-> p, good_port |-> TRUE] : p \in swarm \ {n}})
    /\ UNCHANGED <<acceptor, to_acceptor, to_dialer, recent, tracker_up, breaks>>

\* The async_connect handler sends the handshake; do_accept takes the socket
\* or, with MAX_PEERS sessions, lets it go.
Establish(l) ==
    /\ dialer[l] = "CONNECTING"
    /\ l \notin wrong_port
    /\ dialer' = [dialer EXCEPT ![l] = "HANDSHAKE"]
    /\ acceptor' = [acceptor EXCEPT ![l] = IF SessionCount(l[2]) < MaxPeers
                                           THEN "HANDSHAKE" ELSE @]
    /\ to_acceptor' = [to_acceptor EXCEPT ![l] =
                          IF SessionCount(l[2]) < MaxPeers THEN Append(@, HS) ELSE <<>>]
    /\ UNCHANGED <<to_dialer, wrong_port, recent, swarm, tracker_up, breaks>>

\* The dial fails.
ConnectFails(l) ==
    /\ dialer[l] = "CONNECTING"
    /\ l \in wrong_port \/ breaks < MaxBreaks
    /\ breaks' = breaks + (IF l \in wrong_port THEN 0 ELSE 1)
    /\ wrong_port' = wrong_port \ {l}
    /\ CloseDialer(l)
    /\ UNCHANGED <<acceptor, recent, swarm, tracker_up>>

\* handle_handshake and on_handshake_done_ at the acceptor: it answers, and
\* tells the peers it knows.
AcceptorHandshake(l) ==
    LET known == make_full_pex_list(l[2], l) IN
    /\ acceptor[l] = "HANDSHAKE"
    /\ to_acceptor[l] # <<>>
    /\ IF Head(to_acceptor[l]) # HS
       THEN CloseAcceptor(l) /\ UNCHANGED recent
       ELSE /\ acceptor' = [acceptor EXCEPT ![l] = "CONNECTED"]
            /\ recent' = [recent EXCEPT ![l[2]] = @ \union {l[1]}]
            /\ to_acceptor' = [to_acceptor EXCEPT ![l] = Tail(@)]
            /\ to_dialer' = [to_dialer EXCEPT ![l] = @ \o <<HS>>
                                 \o (IF known = {} THEN <<>> ELSE <<PEX(known)>>)]
    /\ UNCHANGED <<dialer, wrong_port, swarm, tracker_up, breaks>>

\* Slip: whatever comes first is taken for the handshake.
MutantDialerHandshake(l) ==
    /\ dialer[l] = "HANDSHAKE"
    /\ to_dialer[l] # <<>>
    /\ dialer' = [dialer EXCEPT ![l] = "CONNECTED"]
    /\ recent' = [recent EXCEPT ![l[1]] = @ \union {l[2]}]
    /\ to_dialer' = [to_dialer EXCEPT ![l] = Tail(@)]
    /\ UNCHANGED <<to_acceptor, acceptor, wrong_port, swarm, tracker_up, breaks>>

\* The same at the dialer.  A PEX broadcast that the acceptor made before it
\* answered comes first on the wire and is not a handshake.
DialerHandshake(l) ==
    LET known == make_full_pex_list(l[1], l) IN
    /\ dialer[l] = "HANDSHAKE"
    /\ to_dialer[l] # <<>>
    /\ IF Head(to_dialer[l]) # HS
       THEN CloseDialer(l) /\ UNCHANGED recent
       ELSE /\ dialer' = [dialer EXCEPT ![l] = "CONNECTED"]
            /\ recent' = [recent EXCEPT ![l[1]] = @ \union {l[2]}]
            /\ to_dialer' = [to_dialer EXCEPT ![l] = Tail(@)]
            /\ to_acceptor' = [to_acceptor EXCEPT ![l] =
                   IF known = {} THEN @ ELSE Append(@, PEX(known))]
    /\ UNCHANGED <<acceptor, wrong_port, swarm, tracker_up, breaks>>

\* handle_pex_msg at either end: on_pex_peer_ for every entry.
DialerPex(l) ==
    /\ dialer[l] = "CONNECTED"
    /\ to_dialer[l] # <<>>
    /\ ConnectTo(l[1], Head(to_dialer[l]).peers)
    /\ to_dialer' = [to_dialer EXCEPT ![l] = Tail(@)]
    /\ UNCHANGED <<acceptor, to_acceptor, recent, swarm, tracker_up, breaks>>

AcceptorPex(l) ==
    /\ acceptor[l] = "CONNECTED"
    /\ to_acceptor[l] # <<>>
    /\ ConnectTo(l[2], Head(to_acceptor[l]).peers)
    /\ to_acceptor' = [to_acceptor EXCEPT ![l] = Tail(@)]
    /\ UNCHANGED <<acceptor, to_dialer, recent, swarm, tracker_up, breaks>>

\* The sessions of n that would send ahead of their handshake.
Early(n) == {l \in Dialled(n) : dialer[l] = "CONNECTING"}
                \union {l \in Accepted(n) : acceptor[l] = "HANDSHAKE"}

\* tick_pex: the connections of the last minute go to every session, the ones
\* that have no connection or no handshake yet included.
TickPex(n) ==
    /\ recent[n] # {}
    /\ \A l \in Dialled(n) : Len(to_acceptor[l]) < MaxUnread
    /\ \A l \in Accepted(n) : Len(to_dialer[l]) < MaxUnread
    /\ Broadcast(n, PEX({[node |-> p, good_port |-> TRUE] : p \in recent[n]}))
    /\ recent' = [recent EXCEPT ![n] = {}]
    /\ Early(n) # {} => breaks < MaxBreaks
    /\ breaks' = breaks + (IF Early(n) = {} THEN 0 ELSE 1)
    /\ UNCHANGED <<dialer, acceptor, wrong_port, swarm, tracker_up>>

\* A connection breaks, at one end first.
Break(l) ==
    /\ breaks < MaxBreaks
    /\ breaks' = breaks + 1
    /\ \/ dialer[l] \in {"HANDSHAKE", "CONNECTED"} /\ CloseDialer(l) /\ UNCHANGED acceptor
       \/ acceptor[l] # "DISCONNECTED" /\ CloseAcceptor(l) /\ UNCHANGED dialer
    /\ UNCHANGED <<wrong_port, recent, swarm, tracker_up>>

\* An end finds that the other is gone.
Error(l) ==
    /\ \/ /\ dialer[l] \in {"HANDSHAKE", "CONNECTED"}
          /\ acceptor[l] = "DISCONNECTED"
          /\ CloseDialer(l) /\ UNCHANGED acceptor
       \/ /\ acceptor[l] # "DISCONNECTED"
          /\ dialer[l] = "DISCONNECTED"
          /\ CloseAcceptor(l) /\ UNCHANGED dialer
    /\ UNCHANGED <<wrong_port, recent, swarm, tracker_up, breaks>>

Next ==
    \/ \E n \in Nodes : Announce(n) \/ TickPex(n)
    \/ \E l \in Links :
          \/ Establish(l) \/ ConnectFails(l) \/ Break(l) \/ Error(l)
          \/ AcceptorHandshake(l) \/ DialerHandshake(l)
          \/ DialerPex(l) \/ AcceptorPex(l)

Spec == Init /\ [][Next]_vars

\* Announces repeat every 30 s; every dial is decided, and the read loop of
\* either end goes on.
Fairness ==
    /\ \A n \in Nodes : WF_vars(Announce(n))
    /\ \A l \in Links :
          /\ WF_vars(Establish(l) \/ (l \in wrong_port /\ ConnectFails(l)))
          /\ WF_vars(AcceptorHandshake(l) \/ AcceptorPex(l))
          /\ WF_vars(DialerHandshake(l) \/ DialerPex(l))
          /\ WF_vars(Error(l))

FairSpec == Spec /\ Fairness

-----------------------------------------------------------------------------
(* Properties.                                                              *)

\* Sessions, queues and PEX lists are well formed: no list names a session
\* whose address is unknown (is_connectable_peer_ip).
TypeOK ==
    /\ dialer \in [Links -> {"DISCONNECTED", "CONNECTING", "HANDSHAKE", "CONNECTED"}]
    /\ acceptor \in [Links -> {"DISCONNECTED", "HANDSHAKE", "CONNECTED"}]
    /\ to_acceptor \in [Links -> Seq(Msg)]
    /\ to_dialer \in [Links -> Seq(Msg)]
    /\ wrong_port \subseteq Links
    /\ recent \in [Nodes -> SUBSET Nodes]
    /\ swarm \subseteq Nodes
    /\ tracker_up \in BOOLEAN

\* A dialer that believes the handshake done has been answered: the acceptor
\* is past its own handshake, or gone.  A PEX broadcast that overtakes the
\* answer is never taken for it.
HandshakeAgreed ==
    \A l \in Links : dialer[l] = "CONNECTED" => acceptor[l] # "HANDSHAKE"

Joined(n, p) ==
    \E l \in Links : /\ {l[1], l[2]} = {n, p}
                     /\ dialer[l] = "CONNECTED" /\ acceptor[l] = "CONNECTED"
Mesh == \A n, p \in swarm : n # p => Joined(n, p)

\* Every two daemons of the swarm end up connected for good.  While the tracker
\* answers, broken connections, failed dials, two daemons dialling each other or
\* one of them twice, wrong ports from PEX and PEX broadcasts into a handshake
\* only delay it.  Without the tracker the PEX lists that go with the handshakes
\* are enough, but only as long as no connection is lost: nobody dials again.
Meshed == [](tracker_up \/ breaks = MaxBreaks) => <>[]Mesh
=============================================================================
