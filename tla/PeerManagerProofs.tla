------------------------- MODULE PeerManagerProofs -------------------------
(* Proofs about PeerManager for any finite set of daemons, any limit on     *)
(* sessions, any number of dials at a time and any bounds.                  *)
EXTENDS PeerManager, TLAPS

DStates == {"DISCONNECTED", "CONNECTING", "HANDSHAKE", "CONNECTED"}
AStates == {"DISCONNECTED", "HANDSHAKE", "CONNECTED"}

\* No handshake is among the messages q.
NoAnswer(q) == \A k \in 1 .. Len(q) : q[k] # HS

\* What holds on a link: nobody has accepted a dial that is under way; an
\* acceptor that has not shaken hands has not answered, so that the dialer
\* cannot have; and a new dial finds nothing left to read.
LinkInv(d, a, q) ==
    /\ d = "CONNECTED" => a # "HANDSHAKE"
    /\ d = "CONNECTING" => a = "DISCONNECTED"
    /\ a = "HANDSHAKE" => NoAnswer(q)
    /\ d \in {"DISCONNECTED", "CONNECTING"} /\ a = "DISCONNECTED" => q = <<>>

\* The inductive invariant.
ManagerInv ==
    /\ TypeOK
    /\ \A l \in Links : LinkInv(dialer[l], acceptor[l], to_dialer[l])

-----------------------------------------------------------------------------
(* Links, messages and lists.                                               *)

\* A link has two ends, which are different nodes.
LEMMA LinkEnds ==
    ASSUME NEW l \in Links
    PROVE  l[1] \in Nodes /\ l[2] \in Nodes /\ l[1] # l[2]
BY ManagerAssumption

\* Handshakes and PEX messages are messages, and differ.
LEMMA Messages ==
    ASSUME NEW peers \in SUBSET Entry
    PROVE  HS \in Msg /\ PEX(peers) \in Msg /\ PEX(peers) # HS
BY DEF HS, PEX, Msg

\* A PEX list names nodes only.
LEMMA FullListType ==
    ASSUME TypeOK, NEW n \in Nodes, NEW except
    PROVE  make_full_pex_list(n, except) \in SUBSET Entry
<1> SUFFICES ASSUME NEW x \in make_full_pex_list(n, except) PROVE x \in Entry
  BY Zenon
<1>1. CASE x \in {[node |-> l[2], good_port |-> TRUE] :
                    l \in {k \in Dialled(n) \ {except} : dialer[k] # "CONNECTING"}}
  <2>1. PICK l \in Links : x = [node |-> l[2], good_port |-> TRUE]
    BY <1>1, Zenon DEF Dialled
  <2>2. l[2] \in Nodes
    BY LinkEnds
  <2> QED  BY <2>1, <2>2, Zenon DEF Entry
<1>2. CASE x \in {[node |-> l[1], good_port |-> acceptor[l] = "CONNECTED"] :
                    l \in Accepted(n) \ {except}}
  <2>1. PICK l \in Links : x = [node |-> l[1], good_port |-> acceptor[l] = "CONNECTED"]
    BY <1>2, Zenon DEF Accepted
  <2>2. l[1] \in Nodes
    BY LinkEnds
  <2>3. (acceptor[l] = "CONNECTED") \in BOOLEAN
    BY Zenon
  <2> QED  BY <2>1, <2>2, <2>3, Zenon DEF Entry
<1> QED  BY <1>1, <1>2, Zenon DEF make_full_pex_list

\* A new session takes a link that is not in use.
LEMMA NewLinkIsSpare ==
    ASSUME NEW n, NEW x, Spare(n, x.node) # {}
    PROVE  NewLink(n, x) \in Spare(n, x.node)
<1> DEFINE spare == Spare(n, x.node)
           first == CHOOSE l \in spare : TRUE
           other == CHOOSE l \in spare : spare # {first} => l # first
<1>1. first \in spare
  OBVIOUS
<1>2. \E l \in spare : spare # {first} => l # first
  BY <1>1
<1>3. other \in spare
  BY <1>2
<1> HIDE DEF first, other
<1>4. NewLink(n, x) = IF x.good_port THEN first ELSE other
  BY Zenon DEF NewLink, first, other
<1>5. CASE x.good_port
  BY <1>1, <1>4, <1>5
<1>6. CASE ~x.good_port
  BY <1>3, <1>4, <1>6
<1> QED  BY <1>5, <1>6

\* connect_to starts dials only on links where both ends have no session.
LEMMA ConnectToFacts ==
    ASSUME TypeOK, NEW n \in Nodes, NEW entries, ConnectTo(n, entries)
    PROVE  /\ dialer' \in [Links -> DStates]
           /\ wrong_port' \subseteq Links
           /\ \A l \in Links :
                 \/ dialer'[l] = dialer[l]
                 \/ /\ dialer[l] = "DISCONNECTED" /\ acceptor[l] = "DISCONNECTED"
                    /\ dialer'[l] = "CONNECTING"
<1>1. PICK good, bad :
          /\ \A l \in good \union bad : \E x \in Connectable(n, entries) : l = NewLink(n, x)
          /\ dialer' = [l \in Links |-> IF l \in good \union bad
                                        THEN "CONNECTING" ELSE dialer[l]]
          /\ wrong_port' = (wrong_port \union bad) \ good
  <2> DEFINE to(calls, good) == {NewLink(n, x) : x \in {y \in calls : y.good_port = good}}
  <2>1. PICK calls \in SUBSET Connectable(n, entries) :
            /\ dialer' = [l \in Links |-> IF l \in to(calls, TRUE) \union to(calls, FALSE)
                                          THEN "CONNECTING" ELSE dialer[l]]
            /\ wrong_port' = (wrong_port \union to(calls, FALSE)) \ to(calls, TRUE)
    BY Zenon DEF ConnectTo
  <2>2. \A l \in to(calls, TRUE) \union to(calls, FALSE) :
            \E x \in Connectable(n, entries) : l = NewLink(n, x)
    BY <2>1, Zenon
  <2> HIDE DEF to
  <2> QED  BY <2>1, <2>2, Zenon
<1>2. ASSUME NEW l \in good \union bad
      PROVE  l \in Links /\ dialer[l] = "DISCONNECTED" /\ acceptor[l] = "DISCONNECTED"
  <2>1. PICK x \in Connectable(n, entries) : l = NewLink(n, x)
    BY <1>1, <1>2, Zenon
  <2>2. Spare(n, x.node) # {}
    BY <2>1, Zenon DEF Connectable
  <2>3. l \in Spare(n, x.node)
    BY <2>1, <2>2, NewLinkIsSpare, Zenon
  <2> QED  BY <2>3, Zenon DEF Spare
<1>3. dialer \in [Links -> DStates] /\ wrong_port \subseteq Links
  BY DEF TypeOK, DStates
<1>4. dialer' \in [Links -> DStates]
  BY <1>1, <1>3 DEF DStates
<1>5. wrong_port' \subseteq Links
  BY <1>1, <1>2, <1>3, Zenon
<1>6. ASSUME NEW l \in Links
      PROVE  \/ dialer'[l] = dialer[l]
             \/ /\ dialer[l] = "DISCONNECTED" /\ acceptor[l] = "DISCONNECTED"
                /\ dialer'[l] = "CONNECTING"
  <2>1. CASE l \in good \union bad
    BY <1>1, <1>2, <2>1
  <2>2. CASE l \notin good \union bad
    BY <1>1, <2>2
  <2> QED  BY <2>1, <2>2
<1> QED  BY <1>4, <1>5, <1>6

\* The initial state satisfies the invariant.
LEMMA InitManager == Init => ManagerInv
<1> SUFFICES ASSUME Init PROVE ManagerInv
  OBVIOUS
<1>1. TypeOK
  BY DEF Init, TypeOK
<1>2. \A l \in Links : LinkInv(dialer[l], acceptor[l], to_dialer[l])
  BY DEF Init, LinkInv
<1> QED  BY <1>1, <1>2 DEF ManagerInv

-----------------------------------------------------------------------------
(* Steps that close a session.                                              *)

\* The dialer's end closes.
LEMMA CloseDialerKeeps ==
    ASSUME ManagerInv, NEW l \in Links, CloseDialer(l), wrong_port' \subseteq wrong_port,
           UNCHANGED <<acceptor, recent, swarm, tracker_up>>
    PROVE  ManagerInv'
<1>1. TypeOK'
  <2>1. /\ dialer \in [Links -> {"DISCONNECTED", "CONNECTING", "HANDSHAKE", "CONNECTED"}]
        /\ to_acceptor \in [Links -> Seq(Msg)]
        /\ to_dialer \in [Links -> Seq(Msg)]
    BY DEF ManagerInv, TypeOK
  <2>2. <<>> \in Seq(Msg)
    OBVIOUS
  <2>3. dialer' \in [Links -> {"DISCONNECTED", "CONNECTING", "HANDSHAKE", "CONNECTED"}]
    BY <2>1 DEF CloseDialer
  <2>4. to_acceptor' \in [Links -> Seq(Msg)]
    BY <2>1, <2>2, Zenon DEF CloseDialer
  <2>5. to_dialer' \in [Links -> Seq(Msg)]
    BY <2>1, <2>2, Zenon DEF CloseDialer
  <2> QED  BY <2>3, <2>4, <2>5 DEF ManagerInv, TypeOK
<1>2. ASSUME NEW k \in Links
      PROVE  LinkInv(dialer[k], acceptor[k], to_dialer[k])'
  <2>1. LinkInv(dialer[k], acceptor[k], to_dialer[k])
    BY DEF ManagerInv
  <2>2. /\ dialer'[k] = IF k = l THEN "DISCONNECTED" ELSE dialer[k]
        /\ to_dialer'[k] = IF k = l THEN <<>> ELSE to_dialer[k]
        /\ acceptor'[k] = acceptor[k]
    BY Zenon DEF CloseDialer, ManagerInv, TypeOK
  <2>3. NoAnswer(<<>>)
    BY DEF NoAnswer
  <2> QED  BY <2>1, <2>2, <2>3 DEF LinkInv
<1> QED  BY <1>1, <1>2 DEF ManagerInv

\* The acceptor's end closes.
LEMMA CloseAcceptorKeeps ==
    ASSUME ManagerInv, NEW l \in Links, CloseAcceptor(l), acceptor[l] # "DISCONNECTED",
           UNCHANGED <<dialer, wrong_port, recent, swarm, tracker_up>>
    PROVE  ManagerInv'
<1>1. TypeOK'
  <2>1. /\ acceptor \in [Links -> {"DISCONNECTED", "HANDSHAKE", "CONNECTED"}]
        /\ to_acceptor \in [Links -> Seq(Msg)]
        /\ to_dialer \in [Links -> Seq(Msg)]
    BY DEF ManagerInv, TypeOK
  <2>2. <<>> \in Seq(Msg)
    OBVIOUS
  <2>3. acceptor' \in [Links -> {"DISCONNECTED", "HANDSHAKE", "CONNECTED"}]
    BY <2>1 DEF CloseAcceptor
  <2>4. to_acceptor' \in [Links -> Seq(Msg)]
    BY <2>1, <2>2, Zenon DEF CloseAcceptor
  <2>5. to_dialer' \in [Links -> Seq(Msg)]
    BY <2>1, <2>2, Zenon DEF CloseAcceptor
  <2> QED  BY <2>3, <2>4, <2>5 DEF ManagerInv, TypeOK
<1>2. ASSUME NEW k \in Links
      PROVE  LinkInv(dialer[k], acceptor[k], to_dialer[k])'
  <2>1. LinkInv(dialer[k], acceptor[k], to_dialer[k])
    BY DEF ManagerInv
  <2>2. /\ acceptor'[k] = IF k = l THEN "DISCONNECTED" ELSE acceptor[k]
        /\ dialer'[k] = dialer[k]
    BY Zenon DEF CloseAcceptor, ManagerInv, TypeOK
  <2>3. to_dialer'[k] = IF k = l /\ dialer[l] = "DISCONNECTED" THEN <<>> ELSE to_dialer[k]
    BY DEF CloseAcceptor, ManagerInv, TypeOK
  <2> QED  BY <2>1, <2>2, <2>3 DEF LinkInv
<1> QED  BY <1>1, <1>2 DEF ManagerInv

-----------------------------------------------------------------------------
(* One lemma per action that does more.                                     *)

\* Dials that start, while no session changes otherwise and a message may be
\* read from a session that is up.
LEMMA ConnectToKeeps ==
    ASSUME ManagerInv, NEW n \in Nodes, NEW entries, ConnectTo(n, entries),
           acceptor' = acceptor,
           \A l \in Links : to_dialer'[l] = to_dialer[l] \/ dialer[l] = "CONNECTED"
    PROVE  \A l \in Links : LinkInv(dialer[l], acceptor[l], to_dialer[l])'
<1> SUFFICES ASSUME NEW l \in Links
             PROVE  LinkInv(dialer[l], acceptor[l], to_dialer[l])'
  BY Zenon
<1>1. LinkInv(dialer[l], acceptor[l], to_dialer[l])
  BY DEF ManagerInv
<1>2. \/ dialer'[l] = dialer[l]
      \/ /\ dialer[l] = "DISCONNECTED" /\ acceptor[l] = "DISCONNECTED"
         /\ dialer'[l] = "CONNECTING"
  BY ConnectToFacts DEF ManagerInv
<1>3. to_dialer'[l] = to_dialer[l] \/ dialer[l] = "CONNECTED"
  OBVIOUS
<1> QED  BY <1>1, <1>2, <1>3 DEF LinkInv

\* Reading the first message of a link leaves messages.
LEMMA ReadKeeps ==
    ASSUME NEW f \in [Links -> Seq(Msg)], NEW l \in Links, f[l] # <<>>
    PROVE  [f EXCEPT ![l] = Tail(@)] \in [Links -> Seq(Msg)]
<1>1. Tail(f[l]) \in Seq(Msg)
  <2>1. f[l] \in Seq(Msg)
    OBVIOUS
  <2> QED  BY <2>1
<1> QED  BY <1>1, Zenon

\* announce_task_now.
LEMMA AnnounceKeeps ==
    ASSUME ManagerInv, NEW n \in Nodes, Announce(n)
    PROVE  ManagerInv'
<1>1. TypeOK'
  <2>1. dialer' \in [Links -> DStates] /\ wrong_port' \subseteq Links
    BY ConnectToFacts, Zenon DEF Announce, ManagerInv
  <2>2. swarm' \subseteq Nodes
    BY Zenon DEF Announce, ManagerInv, TypeOK
  <2> QED  BY <2>1, <2>2 DEF Announce, ManagerInv, TypeOK, DStates
<1>2. \A l \in Links : LinkInv(dialer[l], acceptor[l], to_dialer[l])'
  BY ConnectToKeeps, Zenon DEF Announce
<1> QED  BY <1>1, <1>2, Zenon DEF ManagerInv

\* handle_pex_msg at the dialer.
LEMMA DialerPexKeeps ==
    ASSUME ManagerInv, NEW l \in Links, DialerPex(l)
    PROVE  ManagerInv'
<1>1. l[1] \in Nodes
  BY LinkEnds
<1>2. to_dialer \in [Links -> Seq(Msg)]
  BY DEF ManagerInv, TypeOK
<1>3. TypeOK'
  <2>1. dialer' \in [Links -> DStates] /\ wrong_port' \subseteq Links
    BY <1>1, ConnectToFacts, Zenon DEF DialerPex, ManagerInv
  <2>2. to_dialer' \in [Links -> Seq(Msg)]
    BY <1>2, ReadKeeps, Zenon DEF DialerPex
  <2> QED  BY <2>1, <2>2 DEF DialerPex, ManagerInv, TypeOK, DStates
<1>4. \A k \in Links : to_dialer'[k] = to_dialer[k] \/ dialer[k] = "CONNECTED"
  BY <1>2, Zenon DEF DialerPex
<1>5. \A k \in Links : LinkInv(dialer[k], acceptor[k], to_dialer[k])'
  BY <1>1, <1>4, ConnectToKeeps, Zenon DEF DialerPex
<1> QED  BY <1>3, <1>5, Zenon DEF ManagerInv

\* handle_pex_msg at the acceptor.
LEMMA AcceptorPexKeeps ==
    ASSUME ManagerInv, NEW l \in Links, AcceptorPex(l)
    PROVE  ManagerInv'
<1>1. l[2] \in Nodes
  BY LinkEnds
<1>2. to_acceptor \in [Links -> Seq(Msg)]
  BY DEF ManagerInv, TypeOK
<1>3. TypeOK'
  <2>1. dialer' \in [Links -> DStates] /\ wrong_port' \subseteq Links
    BY <1>1, ConnectToFacts, Zenon DEF AcceptorPex, ManagerInv
  <2>2. to_acceptor' \in [Links -> Seq(Msg)]
    BY <1>2, ReadKeeps, Zenon DEF AcceptorPex
  <2> QED  BY <2>1, <2>2 DEF AcceptorPex, ManagerInv, TypeOK, DStates
<1>5. \A k \in Links : LinkInv(dialer[k], acceptor[k], to_dialer[k])'
  BY <1>1, ConnectToKeeps, Zenon DEF AcceptorPex
<1> QED  BY <1>3, <1>5, Zenon DEF ManagerInv

\* The connection comes up.
LEMMA EstablishKeeps ==
    ASSUME ManagerInv, NEW l \in Links, Establish(l)
    PROVE  ManagerInv'
<1>1. /\ dialer \in [Links -> {"DISCONNECTED", "CONNECTING", "HANDSHAKE", "CONNECTED"}]
      /\ acceptor \in [Links -> {"DISCONNECTED", "HANDSHAKE", "CONNECTED"}]
      /\ to_acceptor \in [Links -> Seq(Msg)]
  BY DEF ManagerInv, TypeOK
<1>2. PICK room \in BOOLEAN :
          /\ acceptor' = [acceptor EXCEPT ![l] = IF room THEN "HANDSHAKE" ELSE @]
          /\ to_acceptor' = [to_acceptor EXCEPT ![l] = IF room THEN Append(@, HS) ELSE <<>>]
  <2>1. CASE SessionCount(l[2]) < MaxPeers
    <3> WITNESS TRUE \in BOOLEAN
    <3> QED  BY <2>1, Zenon DEF Establish
  <2>2. CASE ~(SessionCount(l[2]) < MaxPeers)
    <3> WITNESS FALSE \in BOOLEAN
    <3> QED  BY <2>2, Zenon DEF Establish
  <2> QED  BY <2>1, <2>2
<1>3. dialer' = [dialer EXCEPT ![l] = "HANDSHAKE"]
  BY DEF Establish
<1>4. TypeOK'
  <2>1. HS \in Msg
    BY Messages
  <2>2. Append(to_acceptor[l], HS) \in Seq(Msg) /\ <<>> \in Seq(Msg)
    <3>1. to_acceptor[l] \in Seq(Msg)
      BY <1>1
    <3> QED  BY <2>1, <3>1
  <2>3. to_acceptor' \in [Links -> Seq(Msg)]
    BY <1>1, <1>2, <2>2, Zenon
  <2>4. dialer' \in [Links -> {"DISCONNECTED", "CONNECTING", "HANDSHAKE", "CONNECTED"}]
    BY <1>1, <1>3
  <2>5. acceptor' \in [Links -> {"DISCONNECTED", "HANDSHAKE", "CONNECTED"}]
    BY <1>1, <1>2
  <2> QED  BY <2>3, <2>4, <2>5 DEF Establish, ManagerInv, TypeOK
<1>5. ASSUME NEW k \in Links
      PROVE  LinkInv(dialer[k], acceptor[k], to_dialer[k])'
  <2>1. LinkInv(dialer[k], acceptor[k], to_dialer[k]) /\ to_dialer' = to_dialer
    BY DEF ManagerInv, Establish
  <2>2. CASE k = l
    <3>1. dialer[k] = "CONNECTING" /\ acceptor[k] = "DISCONNECTED" /\ to_dialer[k] = <<>>
      BY <2>1, <2>2 DEF LinkInv, Establish
    <3>2. dialer'[k] = "HANDSHAKE"
      BY <1>1, <1>3, <2>2
    <3>3. NoAnswer(<<>>)
      BY DEF NoAnswer
    <3> QED  BY <2>1, <3>1, <3>2, <3>3 DEF LinkInv
  <2>3. CASE k # l
    <3>1. dialer'[k] = dialer[k] /\ acceptor'[k] = acceptor[k]
      BY <1>1, <1>2, <1>3, <2>3, Zenon
    <3> QED  BY <2>1, <3>1, Zenon DEF LinkInv
  <2> QED  BY <2>2, <2>3
<1> QED  BY <1>4, <1>5, Zenon DEF ManagerInv

\* handle_handshake at the acceptor.
LEMMA AcceptorHandshakeKeeps ==
    ASSUME ManagerInv, NEW l \in Links, AcceptorHandshake(l)
    PROVE  ManagerInv'
<1>1. /\ acceptor \in [Links -> {"DISCONNECTED", "HANDSHAKE", "CONNECTED"}]
      /\ to_acceptor \in [Links -> Seq(Msg)]
      /\ to_dialer \in [Links -> Seq(Msg)]
      /\ recent \in [Nodes -> SUBSET Nodes]
      /\ l[1] \in Nodes /\ l[2] \in Nodes
  BY LinkEnds DEF ManagerInv, TypeOK
<1>2. UNCHANGED <<dialer, wrong_port, swarm, tracker_up>>
  BY DEF AcceptorHandshake
<1>3. CASE CloseAcceptor(l) /\ UNCHANGED recent
  <2>1. acceptor[l] # "DISCONNECTED"
    BY DEF AcceptorHandshake
  <2> QED  BY <1>2, <1>3, <2>1, CloseAcceptorKeeps, Zenon
<1>4. CASE ~(CloseAcceptor(l) /\ UNCHANGED recent)
  <2>1. PICK known : /\ known = make_full_pex_list(l[2], l)
                     /\ acceptor' = [acceptor EXCEPT ![l] = "CONNECTED"]
                     /\ recent' = [recent EXCEPT ![l[2]] = @ \union {l[1]}]
                     /\ to_acceptor' = [to_acceptor EXCEPT ![l] = Tail(@)]
                     /\ to_dialer' = [to_dialer EXCEPT ![l] = @ \o <<HS>>
                                 \o (IF known = {} THEN <<>> ELSE <<PEX(known)>>)]
    BY <1>4, Zenon DEF AcceptorHandshake
  <2>2. HS \in Msg /\ PEX(known) \in Msg
    BY <1>1, <2>1, FullListType, Messages, Zenon DEF ManagerInv
  <2>3. TypeOK'
    <3>1. PICK answer \in Seq(Msg) : to_dialer' = [to_dialer EXCEPT ![l] = answer]
      <4>1. to_dialer[l] \in Seq(Msg)
        BY <1>1
      <4>2. (to_dialer[l] \o <<HS>> \o (IF known = {} THEN <<>> ELSE <<PEX(known)>>)) \in Seq(Msg)
        BY <2>2, <4>1
      <4> QED  BY <2>1, <4>2, Zenon
    <3>2. to_dialer' \in [Links -> Seq(Msg)]
      BY <1>1, <3>1, Zenon
    <3>3. to_acceptor' \in [Links -> Seq(Msg)]
      BY <1>1, <2>1, ReadKeeps, Zenon DEF AcceptorHandshake
    <3>4. acceptor' \in [Links -> {"DISCONNECTED", "HANDSHAKE", "CONNECTED"}]
      BY <1>1, <2>1
    <3>5. recent' \in [Nodes -> SUBSET Nodes]
      <4>1. recent[l[2]] \union {l[1]} \in SUBSET Nodes
        BY <1>1, Zenon
      <4> QED  BY <1>1, <2>1, <4>1, Zenon
    <3> QED  BY <1>2, <3>2, <3>3, <3>4, <3>5 DEF ManagerInv, TypeOK
  <2>4. ASSUME NEW k \in Links
        PROVE  LinkInv(dialer[k], acceptor[k], to_dialer[k])'
    <3>1. LinkInv(dialer[k], acceptor[k], to_dialer[k]) /\ dialer'[k] = dialer[k]
      BY <1>2 DEF ManagerInv
    <3>2. CASE k = l
      <4>1. acceptor'[k] = "CONNECTED" /\ acceptor[k] = "HANDSHAKE"
        BY <1>1, <2>1, <3>2, Zenon DEF AcceptorHandshake
      <4> QED  BY <3>1, <4>1 DEF LinkInv
    <3>3. CASE k # l
      <4>1. acceptor'[k] = acceptor[k] /\ to_dialer'[k] = to_dialer[k]
        BY <1>1, <2>1, <3>3, Zenon
      <4> QED  BY <3>1, <4>1, Zenon DEF LinkInv
    <3> QED  BY <3>2, <3>3
  <2> QED  BY <2>3, <2>4, Zenon DEF ManagerInv
<1> QED  BY <1>3, <1>4, Zenon

\* handle_handshake at the dialer: what it takes for the answer is a
\* handshake, so the acceptor is no longer waiting for one.
LEMMA DialerHandshakeKeeps ==
    ASSUME ManagerInv, NEW l \in Links, DialerHandshake(l)
    PROVE  ManagerInv'
<1>1. /\ dialer \in [Links -> {"DISCONNECTED", "CONNECTING", "HANDSHAKE", "CONNECTED"}]
      /\ to_acceptor \in [Links -> Seq(Msg)]
      /\ to_dialer \in [Links -> Seq(Msg)]
      /\ recent \in [Nodes -> SUBSET Nodes]
      /\ l[1] \in Nodes /\ l[2] \in Nodes
  BY LinkEnds DEF ManagerInv, TypeOK
<1>2. UNCHANGED <<acceptor, wrong_port, swarm, tracker_up>>
  BY DEF DialerHandshake
<1>3. CASE CloseDialer(l) /\ UNCHANGED recent
  BY <1>2, <1>3, CloseDialerKeeps, Zenon
<1>4. CASE ~(CloseDialer(l) /\ UNCHANGED recent)
  <2>1. PICK known : /\ known = make_full_pex_list(l[1], l)
                     /\ dialer' = [dialer EXCEPT ![l] = "CONNECTED"]
                     /\ recent' = [recent EXCEPT ![l[1]] = @ \union {l[2]}]
                     /\ to_dialer' = [to_dialer EXCEPT ![l] = Tail(@)]
                     /\ to_acceptor' = [to_acceptor EXCEPT ![l] =
                            IF known = {} THEN @ ELSE Append(@, PEX(known))]
                     /\ Head(to_dialer[l]) = HS
                     /\ to_dialer[l] # <<>>
    BY <1>4, Zenon DEF DialerHandshake
  <2>2. PEX(known) \in Msg
    BY <1>1, <2>1, FullListType, Messages, Zenon DEF ManagerInv
  <2>3. TypeOK'
    <3>1. PICK sent \in Seq(Msg) : to_acceptor' = [to_acceptor EXCEPT ![l] = sent]
      <4>1. to_acceptor[l] \in Seq(Msg)
        BY <1>1
      <4>2. Append(to_acceptor[l], PEX(known)) \in Seq(Msg)
        BY <2>2, <4>1
      <4> QED  BY <2>1, <4>1, <4>2, Zenon
    <3>2. to_acceptor' \in [Links -> Seq(Msg)]
      BY <1>1, <3>1, Zenon
    <3>3. to_dialer' \in [Links -> Seq(Msg)]
      BY <1>1, <2>1, ReadKeeps, Zenon
    <3>4. dialer' \in [Links -> {"DISCONNECTED", "CONNECTING", "HANDSHAKE", "CONNECTED"}]
      BY <1>1, <2>1
    <3>5. recent' \in [Nodes -> SUBSET Nodes]
      <4>1. recent[l[1]] \union {l[2]} \in SUBSET Nodes
        BY <1>1, Zenon
      <4> QED  BY <1>1, <2>1, <4>1, Zenon
    <3> QED  BY <1>2, <3>2, <3>3, <3>4, <3>5 DEF ManagerInv, TypeOK
  <2>4. ASSUME NEW k \in Links
        PROVE  LinkInv(dialer[k], acceptor[k], to_dialer[k])'
    <3>1. LinkInv(dialer[k], acceptor[k], to_dialer[k]) /\ acceptor'[k] = acceptor[k]
      BY <1>2 DEF ManagerInv
    <3>2. CASE k = l
      <4>1. dialer'[k] = "CONNECTED"
        BY <1>1, <2>1, <3>2, Zenon
      <4>2. ~NoAnswer(to_dialer[k])
        <5>1. to_dialer[k] \in Seq(Msg) /\ to_dialer[k] # <<>> /\ Head(to_dialer[k]) = HS
          BY <1>1, <2>1, <3>2
        <5>2. 1 \in 1 .. Len(to_dialer[k]) /\ to_dialer[k][1] = HS
          BY <5>1
        <5> QED  BY <5>2, Zenon DEF NoAnswer
      <4>3. acceptor[k] # "HANDSHAKE"
        BY <3>1, <4>2, Zenon DEF LinkInv
      <4> QED  BY <3>1, <4>1, <4>3 DEF LinkInv
    <3>3. CASE k # l
      <4>1. dialer'[k] = dialer[k] /\ to_dialer'[k] = to_dialer[k]
        BY <1>1, <2>1, <3>3, Zenon
      <4> QED  BY <3>1, <4>1, Zenon DEF LinkInv
    <3> QED  BY <3>2, <3>3
  <2> QED  BY <2>3, <2>4, Zenon DEF ManagerInv
<1> QED  BY <1>3, <1>4, Zenon

\* tick_pex: what it adds to a queue is no handshake.
LEMMA TickPexKeeps ==
    ASSUME ManagerInv, NEW n \in Nodes, TickPex(n)
    PROVE  ManagerInv'
<1>1. /\ to_acceptor \in [Links -> Seq(Msg)]
      /\ to_dialer \in [Links -> Seq(Msg)]
      /\ recent \in [Nodes -> SUBSET Nodes]
  BY DEF ManagerInv, TypeOK
<1>2. UNCHANGED <<dialer, acceptor, wrong_port, swarm, tracker_up>>
  BY DEF TickPex
<1>3. PICK m : /\ m \in Msg /\ m # HS
               /\ Broadcast(n, m)
  <2>1. ASSUME NEW p \in recent[n]
        PROVE  [node |-> p, good_port |-> TRUE] \in Entry
    <3>1. p \in Nodes
      BY <1>1
    <3> QED  BY <3>1 DEF Entry
  <2>2. {[node |-> p, good_port |-> TRUE] : p \in recent[n]} \in SUBSET Entry
    BY <2>1, Zenon
  <2> QED  BY <2>2, Messages, Zenon DEF TickPex
<1>4. TypeOK'
  <2>1. \A l \in Links : /\ Append(to_acceptor[l], m) \in Seq(Msg)
                         /\ Append(to_dialer[l], m) \in Seq(Msg)
    <3> SUFFICES ASSUME NEW l \in Links
                 PROVE  /\ Append(to_acceptor[l], m) \in Seq(Msg)
                        /\ Append(to_dialer[l], m) \in Seq(Msg)
      BY Zenon
    <3>1. to_acceptor[l] \in Seq(Msg) /\ to_dialer[l] \in Seq(Msg)
      BY <1>1
    <3> QED  BY <1>3, <3>1
  <2>2. to_acceptor' \in [Links -> Seq(Msg)]
    BY <1>1, <1>3, <2>1, Zenon DEF Broadcast
  <2>3. to_dialer' \in [Links -> Seq(Msg)]
    BY <1>1, <1>3, <2>1, Zenon DEF Broadcast
  <2>4. recent' \in [Nodes -> SUBSET Nodes]
    BY <1>1 DEF TickPex
  <2> QED  BY <1>2, <2>2, <2>3, <2>4 DEF ManagerInv, TypeOK
<1>5. ASSUME NEW k \in Links
      PROVE  LinkInv(dialer[k], acceptor[k], to_dialer[k])'
  <2>1. /\ LinkInv(dialer[k], acceptor[k], to_dialer[k])
        /\ dialer'[k] = dialer[k] /\ acceptor'[k] = acceptor[k]
    BY <1>2 DEF ManagerInv
  <2>2. \/ to_dialer'[k] = to_dialer[k]
        \/ to_dialer'[k] = Append(to_dialer[k], m) /\ acceptor[k] # "DISCONNECTED"
    BY <1>3, Zenon DEF Broadcast, Accepted
  <2>3. NoAnswer(to_dialer[k]) => NoAnswer(Append(to_dialer[k], m))
    <3>1. to_dialer[k] \in Seq(Msg)
      BY <1>1
    <3> QED  BY <1>3, <3>1 DEF NoAnswer
  <2> QED  BY <2>1, <2>2, <2>3, Zenon DEF LinkInv
<1> QED  BY <1>4, <1>5, Zenon DEF ManagerInv

-----------------------------------------------------------------------------
(* The theorems.                                                            *)

\* Every step of a PeerManager keeps the invariant.
LEMMA StepKeeps == ManagerInv /\ [Next]_vars => ManagerInv'
<1> SUFFICES ASSUME ManagerInv, [Next]_vars PROVE ManagerInv'
  BY Zenon
<1>1. CASE \E n \in Nodes : Announce(n) \/ TickPex(n)
  BY <1>1, AnnounceKeeps, TickPexKeeps, Zenon
<1>2. ASSUME NEW l \in Links, Establish(l) \/ AcceptorHandshake(l) \/ DialerHandshake(l)
      PROVE  ManagerInv'
  BY <1>2, EstablishKeeps, AcceptorHandshakeKeeps, DialerHandshakeKeeps, Zenon
<1>3. ASSUME NEW l \in Links, DialerPex(l) \/ AcceptorPex(l)
      PROVE  ManagerInv'
  BY <1>3, DialerPexKeeps, AcceptorPexKeeps, Zenon
<1>4. ASSUME NEW l \in Links, ConnectFails(l)
      PROVE  ManagerInv'
  BY <1>4, CloseDialerKeeps, Zenon DEF ConnectFails
<1>5. ASSUME NEW l \in Links, Break(l)
      PROVE  ManagerInv'
  BY <1>5, CloseDialerKeeps, CloseAcceptorKeeps, Zenon DEF Break
<1>6. ASSUME NEW l \in Links, Error(l)
      PROVE  ManagerInv'
  BY <1>6, CloseDialerKeeps, CloseAcceptorKeeps, Zenon DEF Error
<1>7. CASE UNCHANGED vars
  <2>1. TypeOK'
    BY <1>7 DEF vars, ManagerInv, TypeOK
  <2>2. \A l \in Links : LinkInv(dialer[l], acceptor[l], to_dialer[l])'
    BY <1>7, Zenon DEF vars, ManagerInv, LinkInv
  <2> QED  BY <2>1, <2>2, Zenon DEF ManagerInv
<1> QED  BY <1>1, <1>2, <1>3, <1>4, <1>5, <1>6, <1>7, Zenon DEF Next

\* The invariant holds always, for any set of daemons.
THEOREM ManagerInvariant == Spec => []ManagerInv
<1>1. Init => ManagerInv
  BY InitManager
<1>2. ManagerInv /\ [Next]_vars => ManagerInv'
  BY StepKeeps
<1> QED  BY <1>1, <1>2, PTL DEF Spec

\* Sessions and queues are well formed, and no PEX list names a session whose
\* address make_full_pex_list does not know.
THEOREM TypeCorrect == Spec => []TypeOK
<1>1. ManagerInv => TypeOK
  BY DEF ManagerInv
<1> QED  BY <1>1, ManagerInvariant, PTL

\* A dialer that handle_handshake has taken to CONNECTED was answered by the
\* acceptor: a broadcast of tick_pex that overtakes the answer, or anything
\* left over from an earlier connection, is never taken for it.
THEOREM DialerWasAnswered == Spec => []HandshakeAgreed
<1>1. ManagerInv => HandshakeAgreed
  BY Zenon DEF ManagerInv, LinkInv, HandshakeAgreed
<1> QED  BY <1>1, ManagerInvariant, PTL
=============================================================================
