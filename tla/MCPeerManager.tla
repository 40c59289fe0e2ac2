--------------------------- MODULE MCPeerManager ---------------------------
(***************************************************************************)
(* Two starts in one instance.  Fresh: a and b know nobody, the tracker    *)
(* answers and connections break.  Gossip: b and c are dialling a, c's     *)
(* dial of b has failed and the tracker is gone: PEX has to introduce b    *)
(* and c to each other.  No more than that one connection is lost.         *)
(***************************************************************************)
EXTENDS PeerManager

CONSTANTS a, b, c

\* a can dial b twice at a time; a never hears of c but from c.
MCLinks == {<<a, b, 1>>, <<a, b, 2>>, <<b, a, 1>>, <<c, a, 1>>, <<b, c, 1>>, <<c, b, 1>>}

GossipInit ==
    /\ dialer = [l \in Links |-> IF l \in {<<b, a, 1>>, <<c, a, 1>>}
                                 THEN "CONNECTING" ELSE "DISCONNECTED"]
    /\ acceptor = [l \in Links |-> "DISCONNECTED"]
    /\ to_acceptor = [l \in Links |-> <<>>]
    /\ to_dialer = [l \in Links |-> <<>>]
    /\ wrong_port = {}
    /\ recent = [n \in Nodes |-> {}]
    /\ swarm = Nodes
    /\ tracker_up = FALSE
    /\ breaks = MaxBreaks

MCSpec == (Init \/ GossipInit) /\ [][Next]_vars /\ Fairness
=============================================================================
