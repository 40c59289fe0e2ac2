------------------------- MODULE PeerSessionProofs -------------------------
(* Proofs about PeerSession for any number of sub-blocks, any pipeline cap  *)
(* and timeout limit, and any bound on faults and backlog.                  *)
EXTENDS PeerSession, TLAPS

Session ==
    [state : {"HANDSHAKE", "CONNECTED", "DISCONNECTED"},
     connected : BOOLEAN, handshake_sent : BOOLEAN,
     choking_peer : BOOLEAN, peer_choking_me : BOOLEAN,
     peer_interested : BOOLEAN, am_interested : BOOLEAN,
     write_queue : Seq(Msg), is_writing : BOOLEAN, writing : Seq(Msg),
     cancelled_set : SUBSET Subs,
     pending_times : SUBSET Subs, consecutive_timeouts : Nat]

\* The write side of a session: a write is under way exactly when the flag is
\* set, it is one write, and without one nothing waits.
Clean(s) ==
    /\ s.is_writing => Len(s.writing) = 1
    /\ ~s.is_writing => s.writing = <<>> /\ s.write_queue = <<>>

\* The full types, and the write side of both ends.
Types ==
    /\ end \in [Ends -> Session]
    /\ \A e \in Ends : Clean(end[e])
    /\ wire \in [Ends -> Seq(Msg)]
    /\ reads \in [Subs -> Nat]
    /\ posted \in [Subs -> Nat]
    /\ slot \in [has : BOOLEAN, pending_requests : 0 .. PipelineCap,
                 consecutive_timeouts : Nat]
    /\ sub_req \subseteq Subs
    /\ received \subseteq Subs
    /\ done \in BOOLEAN

Live(e) == end[e].state # "DISCONNECTED"

\* The life of a connection: a dead session keeps nothing, U's pool works for
\* a live one, a dialing end is alone and has sent and received nothing.
Lives ==
    /\ \A e \in Ends : ~Live(e) => end[e] = NoSession
    /\ ~Live(U) => \A s \in Subs : reads[s] = 0 /\ posted[s] = 0
    /\ \A e \in Ends : Live(e) /\ ~end[e].connected =>
          /\ end[e].state = "HANDSHAKE"
          /\ ~end[e].handshake_sent
          /\ ~Live(Other(e))
          /\ end[e].peer_choking_me /\ ~end[e].peer_interested
          /\ wire[D] = <<>> /\ wire[U] = <<>>

Speaks(e) == IF e = D
             THEN {"HANDSHAKE", "BITFIELD", "HAVE", "INTERESTED", "NOT_INTERESTED",
                   "CHOKE", "UNCHOKE", "REQUEST", "CANCEL"}
             ELSE {"HANDSHAKE", "BITFIELD", "CHOKE", "UNCHOKE", "PIECE"}

HandshakesIn(msgs) == {k \in 1 .. Len(msgs) : msgs[k].type = "HANDSHAKE"}

\* Each end speaks its part of the protocol and sends one handshake; a
\* CONNECTED end has read that of the other.
Handshakes ==
    \A e \in Ends :
        /\ \A k \in 1 .. Len(InFlight(e)) : InFlight(e)[k].type \in Speaks(e)
        /\ \A j, k \in HandshakesIn(InFlight(e)) : j = k
        /\ Live(e) /\ ~end[e].handshake_sent => HandshakesIn(InFlight(e)) = {}
        /\ end[Other(e)].state = "CONNECTED" =>
              /\ HandshakesIn(InFlight(e)) = {}
              /\ Live(e) => end[e].handshake_sent

\* The choke agreement from the first message of a connection on, for the
\* choking of one end and for both.
ChokeTold(e) ==
    Live(e) /\ (Live(Other(e)) \/ ~end[e].connected) =>
        Settles(end[Other(e)].peer_choking_me, InFlight(e), "CHOKE", "UNCHOKE",
                end[e].choking_peer)
ChokeAgrees == \A e \in Ends : ChokeTold(e)

\* The interest agreement from the first message of a connection on.
InterestAgrees ==
    Live(D) /\ (Live(U) \/ ~end[D].connected) =>
        Settles(end[U].peer_interested, InFlight(D), "INTERESTED", "NOT_INTERESTED",
                end[D].am_interested /\ ~done)

\* The inductive invariant.
SessionInv == Types /\ Lives /\ Handshakes /\ ChokeAgrees /\ InterestAgrees

-----------------------------------------------------------------------------
(* Messages, and sequences of them.                                         *)

\* The two ends of the connection.
LEMMA EndsFacts ==
    /\ D \in Ends /\ U \in Ends /\ D # U
    /\ Other(D) = U /\ Other(U) = D
    /\ \A e \in Ends : e = D \/ e = U
    /\ \A e \in Ends : Other(e) \in Ends /\ Other(e) # e /\ Other(Other(e)) = e
  BY DEF D, U, Ends, Other

\* The builders make messages of the protocol.
LEMMA MsgFacts ==
    /\ \A t \in MsgTypes : Plain(t) \in Msg /\ Plain(t).type = t
    /\ \A t \in MsgTypes, s \in Subs :
          About(t, s) \in Msg /\ About(t, s).type = t /\ About(t, s).sub = s
    /\ \A m \in Msg : m.type \in MsgTypes /\ m.sub \in Subs
<1>1. 0 \in Subs
  BY SessionAssumption DEF Subs
<1> QED  BY <1>1 DEF Plain, About, Msg

\* Sequences of messages with the same elements are the same.
LEMMA SeqEqual ==
    ASSUME NEW s \in Seq(Msg), NEW t \in Seq(Msg), Len(s) = Len(t),
           \A k \in 1 .. Len(s) : s[k] = t[k]
    PROVE  s = t
  OBVIOUS

\* The elements of a concatenation.
LEMMA ConcatAt ==
    ASSUME NEW s \in Seq(Msg), NEW t \in Seq(Msg)
    PROVE  /\ s \o t \in Seq(Msg)
           /\ Len(s \o t) = Len(s) + Len(t)
           /\ \A k \in 1 .. Len(s) : k \in 1 .. Len(s \o t) /\ (s \o t)[k] = s[k]
           /\ \A k \in 1 .. Len(t) : /\ Len(s) + k \in 1 .. Len(s \o t)
                                     /\ (s \o t)[Len(s) + k] = t[k]
           /\ \A k \in 1 .. Len(s \o t) : \/ k \in 1 .. Len(s)
                                          \/ k - Len(s) \in 1 .. Len(t) /\ k > Len(s)
  OBVIOUS

\* Concatenation by a name of its own, for steps that only regroup.
Cat(s, t) == s \o t

\* Concatenation of messages is associative, and <<>> is its unit.
LEMMA CatFacts ==
    /\ \A s, t \in Seq(Msg) : Cat(s, t) \in Seq(Msg)
    /\ \A s, t, u \in Seq(Msg) : Cat(Cat(s, t), u) = Cat(s, Cat(t, u))
    /\ \A s \in Seq(Msg) : Cat(s, <<>>) = s
<1>1. ASSUME NEW s \in Seq(Msg), NEW t \in Seq(Msg), NEW u \in Seq(Msg)
      PROVE  (s \o t) \o u = s \o (t \o u)
  OBVIOUS
<1>2. ASSUME NEW s \in Seq(Msg), NEW t \in Seq(Msg)
      PROVE  s \o t \in Seq(Msg)
  OBVIOUS
<1>3. ASSUME NEW s \in Seq(Msg)
      PROVE  s \o <<>> = s
  OBVIOUS
<1> QED  BY <1>1, <1>2, <1>3, Zenon DEF Cat

\* Appending to the second part is appending to the whole.
LEMMA ConcatAppend ==
    ASSUME NEW s \in Seq(Msg), NEW t \in Seq(Msg), NEW m \in Msg
    PROVE  s \o Append(t, m) = (s \o t) \o <<m>>
<1>1. Append(t, m) = Cat(t, <<m>>)
  BY DEF Cat
<1>2. <<m>> \in Seq(Msg)
  OBVIOUS
<1>3. Cat(Cat(s, t), <<m>>) = Cat(s, Cat(t, <<m>>))
  <2> DEFINE u == <<m>>
  <2>1. u \in Seq(Msg)
    BY <1>2
  <2> HIDE DEF u
  <2>2. Cat(Cat(s, t), u) = Cat(s, Cat(t, u))
    BY <2>1, CatFacts
  <2> QED  BY <2>2 DEF u
<1> QED  BY <1>1, <1>3, Zenon DEF Cat

\* Messages that do not touch a flag change nothing about where it settles.
LEMMA SettlesQuiet ==
    ASSUME NEW s \in Seq(Msg), NEW t \in Seq(Msg), NEW on, NEW off, NEW flag, NEW v,
           Settles(flag, s, on, off, v),
           Deciding(t, on, off) = {}
    PROVE  Settles(flag, s \o t, on, off, v)
<1>1. Deciding(s \o t, on, off) = Deciding(s, on, off)
  <2>1. ASSUME NEW k \in 1 .. Len(s)
        PROVE  k \in Deciding(s \o t, on, off) <=> k \in Deciding(s, on, off)
    BY ConcatAt DEF Deciding
  <2>2. ASSUME NEW k \in 1 .. Len(s \o t), k - Len(s) \in 1 .. Len(t)
        PROVE  (s \o t)[k].type \notin {on, off}
    <3>1. Len(s) + (k - Len(s)) = k
      OBVIOUS
    <3>2. (s \o t)[k] = t[k - Len(s)]
      BY <2>2, <3>1, ConcatAt
    <3> QED  BY <2>2, <3>2 DEF Deciding
  <2> QED  BY <2>1, <2>2, ConcatAt DEF Deciding
<1>2. \A k \in Deciding(s, on, off) : (s \o t)[k] = s[k]
  BY ConcatAt DEF Deciding
<1> QED  BY <1>1, <1>2, Zenon DEF Settles

\* The last message decides if it touches the flag.
LEMMA SettlesLast ==
    ASSUME NEW s \in Seq(Msg), NEW t \in Seq(Msg), NEW on, NEW off, NEW flag,
           t # <<>>, t[Len(t)].type \in {on, off}
    PROVE  Settles(flag, s \o t, on, off, t[Len(t)].type = on)
<1> DEFINE k == Len(s) + Len(t)
<1>1. k \in 1 .. Len(s \o t) /\ Len(s \o t) = k /\ (s \o t)[k] = t[Len(t)]
  <2>1. Len(t) \in 1 .. Len(t)
    OBVIOUS
  <2> QED  BY <2>1, ConcatAt
<1> HIDE DEF k
<1>2. k \in Deciding(s \o t, on, off)
  BY <1>1 DEF Deciding
<1>3. \A j \in Deciding(s \o t, on, off) : j <= k
  BY <1>1 DEF Deciding
<1> QED  BY Zenon, <1>1, <1>2, <1>3 DEF Settles

\* Handling the oldest message moves its effect from the queue to the flag.
LEMMA SettlesRead ==
    ASSUME NEW s \in Seq(Msg), s # <<>>, NEW on, NEW off, on # off,
           NEW flag, NEW v, NEW new,
           Settles(flag, s, on, off, v),
           new = IF Head(s).type = on THEN TRUE
                 ELSE IF Head(s).type = off THEN FALSE ELSE flag
    PROVE  Settles(new, Tail(s), on, off, v)
<1> DEFINE t == Tail(s)
<1>1. /\ t \in Seq(Msg) /\ Len(s) = Len(t) + 1 /\ Head(s) = s[1]
      /\ \A k \in 1 .. Len(t) : t[k] = s[k + 1]
  OBVIOUS
<1> HIDE DEF t
<1>2. \A k \in Int : k \in Deciding(t, on, off) <=> k # 0 /\ k + 1 \in Deciding(s, on, off)
  BY <1>1 DEF Deciding
<1>3. 1 \in Deciding(s, on, off) <=> Head(s).type \in {on, off}
  BY <1>1 DEF Deciding
<1>4. Deciding(s, on, off) \subseteq Nat \ {0} /\ Deciding(t, on, off) \subseteq Nat \ {0}
  BY DEF Deciding
<1>5. CASE Deciding(s, on, off) = {} /\ flag = v
  <2>1. Deciding(t, on, off) = {} /\ Head(s).type \notin {on, off}
    BY <1>2, <1>3, <1>4, <1>5
  <2> QED  BY Zenon, <1>5, <2>1 DEF Settles, t
<1>6. ASSUME NEW k \in Deciding(s, on, off),
             \A j \in Deciding(s, on, off) : j <= k,
             v = (s[k].type = on)
      PROVE  Settles(new, t, on, off, v)
  <2>1. CASE k = 1
    <3>1. Deciding(t, on, off) = {}
      <4> SUFFICES ASSUME NEW j \in Deciding(t, on, off) PROVE FALSE
        OBVIOUS
      <4>1. j \in Nat \ {0} /\ j + 1 \in Deciding(s, on, off)
        BY <1>2, <1>4
      <4>2. j + 1 <= k
        BY <1>6, <4>1
      <4> QED  BY <2>1, <4>1, <4>2
    <3>2. Head(s).type \in {on, off} /\ v = (Head(s).type = on)
      BY <1>1, <1>3, <1>6, <2>1
    <3>3. new = v
      BY Zenon, <3>2
    <3> QED  BY Zenon, <3>1, <3>3 DEF Settles
  <2>2. CASE k # 1
    <3>1. k \in Nat /\ k - 1 \in Nat \ {0} /\ (k - 1) + 1 = k
      BY <1>4, <2>2
    <3>2. k - 1 \in Deciding(t, on, off)
      BY <1>2, <3>1
    <3>3. \A j \in Deciding(t, on, off) : j <= k - 1
      <4> SUFFICES ASSUME NEW j \in Deciding(t, on, off) PROVE j <= k - 1
        OBVIOUS
      <4>1. j \in Nat /\ j + 1 \in Deciding(s, on, off)
        BY <1>2, <1>4
      <4>2. j + 1 <= k
        BY <1>6, <4>1
      <4> QED  BY <3>1, <4>1, <4>2
    <3>4. t[k - 1] = s[k]
      <4>1. k - 1 \in 1 .. Len(t)
        BY <3>2 DEF Deciding
      <4> QED  BY <1>1, <3>1, <4>1
    <3>5. v = (t[k - 1].type = on)
      BY <1>6, <3>4
    <3> QED  BY Zenon, <3>2, <3>3, <3>5 DEF Settles
  <2> QED  BY Zenon, <2>1, <2>2
<1> QED  BY Zenon, <1>5, <1>6 DEF Settles, t

\* Handshakes of a concatenation are those of its parts.
LEMMA HandshakesConcat ==
    ASSUME NEW s \in Seq(Msg), NEW t \in Seq(Msg)
    PROVE  /\ HandshakesIn(t) = {} => HandshakesIn(s \o t) = HandshakesIn(s)
           /\ /\ HandshakesIn(s) = {}
              /\ \A j, k \in HandshakesIn(t) : j = k
              => \A j, k \in HandshakesIn(s \o t) : j = k
<1>1. ASSUME NEW k \in 1 .. Len(s)
      PROVE  k \in HandshakesIn(s \o t) <=> k \in HandshakesIn(s)
  BY ConcatAt DEF HandshakesIn
<1>2. ASSUME NEW k \in HandshakesIn(s \o t), k \notin 1 .. Len(s)
      PROVE  k - Len(s) \in HandshakesIn(t)
  <2>1. k \in 1 .. Len(s \o t) /\ k - Len(s) \in 1 .. Len(t)
    BY <1>2, ConcatAt DEF HandshakesIn
  <2>2. Len(s) + (k - Len(s)) = k
    BY <2>1
  <2>3. (s \o t)[k] = t[k - Len(s)]
    BY <2>1, <2>2, ConcatAt
  <2> QED  BY <2>1, <2>3 DEF HandshakesIn
<1>3. HandshakesIn(s \o t) \subseteq Int
  BY ConcatAt DEF HandshakesIn
<1>4. HandshakesIn(t) = {} => HandshakesIn(s \o t) = HandshakesIn(s)
  <2>1. HandshakesIn(s) \subseteq 1 .. Len(s)
    BY DEF HandshakesIn
  <2> QED  BY Zenon, <1>1, <1>2, <2>1
<1>5. ASSUME HandshakesIn(s) = {}, \A j, k \in HandshakesIn(t) : j = k,
             NEW j \in HandshakesIn(s \o t), NEW k \in HandshakesIn(s \o t)
      PROVE  j = k
  <2>1. j - Len(s) \in HandshakesIn(t) /\ k - Len(s) \in HandshakesIn(t)
    BY <1>1, <1>2, <1>5
  <2>2. j - Len(s) = k - Len(s)
    BY <1>5, <2>1
  <2> QED  BY <1>3, <2>2
<1> QED  BY <1>4, <1>5

\* Taking the oldest message leaves at most the handshakes that were there; if
\* it was the only one, none.
LEMMA HandshakesTail ==
    ASSUME NEW s \in Seq(Msg), s # <<>>, \A j, k \in HandshakesIn(s) : j = k
    PROVE  /\ \A j, k \in HandshakesIn(Tail(s)) : j = k
           /\ HandshakesIn(s) = {} => HandshakesIn(Tail(s)) = {}
           /\ Head(s).type = "HANDSHAKE" => HandshakesIn(Tail(s)) = {}
<1> DEFINE t == Tail(s)
<1>1. /\ t \in Seq(Msg) /\ Len(s) = Len(t) + 1 /\ Head(s) = s[1]
      /\ \A k \in 1 .. Len(t) : t[k] = s[k + 1]
  OBVIOUS
<1> HIDE DEF t
<1>2. \A k \in HandshakesIn(t) : k \in Nat /\ k > 0 /\ k + 1 \in HandshakesIn(s)
  BY <1>1 DEF HandshakesIn
<1>3. Head(s).type = "HANDSHAKE" => 1 \in HandshakesIn(s)
  BY <1>1 DEF HandshakesIn
<1>4. ASSUME NEW j \in HandshakesIn(t), NEW k \in HandshakesIn(t)
      PROVE  j = k
  <2>1. j + 1 = k + 1
    BY <1>2
  <2> QED  BY <1>2, <2>1
<1>5. ASSUME NEW k \in HandshakesIn(t)
      PROVE  HandshakesIn(s) # {} /\ 1 \notin HandshakesIn(s)
  <2>1. k + 1 \in HandshakesIn(s) /\ k + 1 # 1
    BY <1>2
  <2> QED  BY <2>1
<1> QED  BY <1>3, <1>4, <1>5 DEF t

\* The first part of a concatenation has no more handshakes than the whole.
LEMMA HandshakesPrefix ==
    ASSUME NEW s \in Seq(Msg), NEW t \in Seq(Msg)
    PROVE  HandshakesIn(s) \subseteq HandshakesIn(s \o t)
  BY ConcatAt DEF HandshakesIn

-----------------------------------------------------------------------------
(* The write queue.                                                         *)

\* Everything about a session but its write side.
SameFlags(s, t) ==
    /\ t.state = s.state
    /\ t.connected = s.connected
    /\ t.handshake_sent = s.handshake_sent
    /\ t.choking_peer = s.choking_peer
    /\ t.peer_choking_me = s.peer_choking_me
    /\ t.peer_interested = s.peer_interested
    /\ t.am_interested = s.am_interested
    /\ t.cancelled_set = s.cancelled_set
    /\ t.pending_times = s.pending_times
    /\ t.consecutive_timeouts = s.consecutive_timeouts

\* F is E after end e has queued msgs.
Sent(E, F, e, msgs) ==
    /\ F \in [Ends -> Session]
    /\ \A x \in Ends : x # e => F[x] = E[x]
    /\ SameFlags(E[e], F[e])
    /\ Clean(F[e])
    /\ F[e].writing \o F[e].write_queue = (E[e].writing \o E[e].write_queue) \o msgs

\* send_message queues its message behind all others, whether or not it
\* starts a write.
LEMMA SendMessage ==
    ASSUME NEW E \in [Ends -> Session], NEW e \in Ends, Clean(E[e]), NEW m \in Msg
    PROVE  /\ Sent(E, send_message(E, e, m), e, <<m>>)
           /\ send_message(E, e, m)[e].is_writing
<1> DEFINE F == send_message(E, e, m)
           a == E[e].writing
           q == E[e].write_queue
<1>1. a \in Seq(Msg) /\ q \in Seq(Msg) /\ Append(q, m) \in Seq(Msg) /\ E[e] \in Session
  BY DEF Session
<1>2. CASE E[e].is_writing
  <2>1. F = [E EXCEPT ![e].write_queue = Append(@, m)]
    BY <1>2 DEF send_message
  <2>2. F[e] = [E[e] EXCEPT !.write_queue = Append(q, m)]
    BY <2>1
  <2>3. F[e] \in Session /\ SameFlags(E[e], F[e])
    BY Zenon, <1>1, <2>2 DEF Session, SameFlags
  <2>4. F[e].is_writing /\ F[e].writing = a /\ F[e].write_queue = Append(q, m)
    BY <1>1, <1>2, <2>2 DEF Session
  <2>5. a \o Append(q, m) = (a \o q) \o <<m>>
    BY <1>1, ConcatAppend, Zenon
  <2>6. Clean(F[e])
    BY <1>2, <2>4 DEF Clean
  <2>7. F \in [Ends -> Session] /\ \A x \in Ends : x # e => F[x] = E[x]
    BY <2>1, <2>2, <2>3
  <2> HIDE DEF F
  <2> QED  BY <2>3, <2>4, <2>5, <2>6, <2>7 DEF Sent, F
<1>3. CASE ~E[e].is_writing
  <2>1. a = <<>> /\ q = <<>>
    BY <1>3 DEF Clean
  <2> DEFINE G == [[E EXCEPT ![e].write_queue = Append(@, m)] EXCEPT ![e].is_writing = TRUE]
  <2>2. F = do_write(G, e)
    BY <1>3 DEF send_message
  <2>3. G[e] = [E[e] EXCEPT !.write_queue = <<m>>, !.is_writing = TRUE]
    BY <1>1, <2>1 DEF Session
  <2>4. G[e] \in Session /\ SameFlags(E[e], G[e])
    BY Zenon, <1>1, <2>1, <2>3 DEF Session, SameFlags
  <2>5. G[e].write_queue = <<m>> /\ G[e].writing = <<>> /\ G[e].is_writing
    BY <1>1, <2>1, <2>3 DEF Session
  <2>6. G \in [Ends -> Session] /\ \A x \in Ends : x # e => G[x] = E[x]
    BY <2>4
  <2> HIDE DEF G
  <2>7. F = [G EXCEPT ![e].writing = Append(@, Head(G[e].write_queue)),
                      ![e].write_queue = Tail(@)]
    BY <2>2, <2>5 DEF do_write
  <2>8. F[e] = [G[e] EXCEPT !.writing = <<m>>, !.write_queue = <<>>]
    BY <2>4, <2>5, <2>6, <2>7 DEF Session
  <2>9. F[e] \in Session /\ SameFlags(G[e], F[e])
    <3>1. <<m>> \in Seq(Msg) /\ <<>> \in Seq(Msg)
      OBVIOUS
    <3>2. F[e] \in Session
      BY <2>4, <2>8, <3>1, Zenon DEF Session
    <3> QED  BY <2>4, <2>8, <3>2 DEF Session, SameFlags
  <2>10. F[e].is_writing /\ F[e].writing = <<m>> /\ F[e].write_queue = <<>>
    BY <2>4, <2>5, <2>8 DEF Session
  <2>11. F \in [Ends -> Session] /\ \A x \in Ends : x # e => F[x] = E[x]
    BY <2>6, <2>7, <2>9
  <2> HIDE DEF F
  <2>12. Clean(F[e])
    BY <2>10 DEF Clean
  <2>13. SameFlags(E[e], F[e])
    BY <2>4, <2>9 DEF SameFlags
  <2>14. <<m>> \o <<>> = (a \o q) \o <<m>>
    BY <2>1
  <2> QED  BY Zenon, <2>10, <2>11, <2>12, <2>13, <2>14 DEF Sent, F
<1> QED  BY <1>2, <1>3

\* A sequence of messages is its head followed by its tail.
LEMMA HeadThenTail ==
    ASSUME NEW s \in Seq(Msg), s # <<>>
    PROVE  /\ Head(s) \in Msg /\ Tail(s) \in Seq(Msg)
           /\ <<Head(s)>> \in Seq(Msg)
           /\ <<Head(s)>> \o Tail(s) = s
<1>1. Head(s) \in Msg /\ Tail(s) \in Seq(Msg) /\ <<Head(s)>> \in Seq(Msg)
  OBVIOUS
<1> DEFINE r == <<Head(s)>> \o Tail(s)
<1>2. r \in Seq(Msg) /\ Len(r) = Len(s)
  BY <1>1
<1>3. \A k \in 1 .. Len(s) : r[k] = s[k]
  BY <1>1
<1> HIDE DEF r
<1>4. r = s
  BY <1>2, <1>3, SeqEqual
<1> QED  BY <1>1, <1>4 DEF r

\* Several calls of send_message queue their messages in order.
LEMMA SendAll ==
    ASSUME NEW E \in [Ends -> Session], NEW e \in Ends, Clean(E[e]),
           NEW msgs \in Seq(Msg)
    PROVE  Sent(E, send_all(E, e, msgs), e, msgs)
<1> DEFINE a == E[e].writing
           q == E[e].write_queue
<1>1. a \in Seq(Msg) /\ q \in Seq(Msg) /\ E[e] \in Session /\ a \o q \in Seq(Msg)
  BY DEF Session
<1>2. CASE msgs = <<>>
  <2>1. send_all(E, e, msgs) = E
    BY <1>2 DEF send_all
  <2>2. (a \o q) \o msgs = a \o q
    <3> HIDE DEF a, q
    <3> QED  BY <1>1, <1>2
  <2> QED  BY <2>1, <2>2 DEF Sent, SameFlags
<1>3. CASE msgs # <<>>
  <2> DEFINE m == Head(msgs)
             t == Tail(msgs)
             F == send_message(E, e, m)
             G == [F EXCEPT ![e].write_queue = @ \o t]
             b == F[e].writing
             r == F[e].write_queue
  <2>1. m \in Msg /\ t \in Seq(Msg) /\ <<m>> \in Seq(Msg) /\ <<m>> \o t = msgs
    BY <1>3, HeadThenTail
  <2>2. send_all(E, e, msgs) = G
    BY <1>3 DEF send_all
  <2>3. Sent(E, F, e, <<m>>) /\ F[e].is_writing
    BY <2>1, SendMessage
  <2> HIDE DEF F, m, t
  <2>4. F[e] \in Session /\ F \in [Ends -> Session] /\ b \in Seq(Msg) /\ r \in Seq(Msg)
    BY <2>3 DEF Sent, Session
  <2>5. G[e] = [F[e] EXCEPT !.write_queue = r \o t]
    BY <2>4
  <2>6. r \o t \in Seq(Msg)
    BY <2>1, <2>4, ConcatAt
  <2>7. G[e] \in Session
    BY <2>4, <2>5, <2>6, Zenon DEF Session
  <2>8. SameFlags(F[e], G[e]) /\ G[e].is_writing = F[e].is_writing
        /\ G[e].writing = b /\ G[e].write_queue = r \o t
    BY <2>4, <2>5 DEF Session, SameFlags
  <2>9. G \in [Ends -> Session] /\ \A x \in Ends : x # e => G[x] = F[x]
    BY <2>4, <2>5, <2>7
  <2> HIDE DEF G
  <2>10. SameFlags(E[e], G[e]) /\ \A x \in Ends : x # e => G[x] = E[x]
    BY <2>3, <2>8, <2>9 DEF Sent, SameFlags
  <2>11. Clean(G[e])
    BY <2>3, <2>8 DEF Sent, Clean
  <2>12. b \o (r \o t) = (a \o q) \o msgs
    <3>1. Cat(b, r) = Cat(Cat(a, q), <<m>>)
      BY <2>3 DEF Sent, Cat
    <3>2. Cat(<<m>>, t) = msgs /\ Cat(a, q) \in Seq(Msg)
      BY <1>1, <2>1 DEF Cat
    <3> HIDE DEF a, q, b, r
    <3>3. Cat(b, Cat(r, t)) = Cat(Cat(b, r), t)
      BY <2>1, <2>4, CatFacts
    <3>4. Cat(Cat(Cat(a, q), <<m>>), t) = Cat(Cat(a, q), Cat(<<m>>, t))
      <4> DEFINE u == <<m>>
                 v == Cat(a, q)
      <4>1. u \in Seq(Msg) /\ v \in Seq(Msg)
        BY <2>1, <3>2
      <4> HIDE DEF u, v
      <4>2. Cat(Cat(v, u), t) = Cat(v, Cat(u, t))
        BY <2>1, <4>1, CatFacts
      <4> QED  BY <4>2 DEF u, v
    <3>5. Cat(b, Cat(r, t)) = Cat(Cat(a, q), msgs)
      BY <3>1, <3>2, <3>3, <3>4, Zenon
    <3> QED  BY <3>5 DEF Cat
  <2> QED  BY <2>2, <2>8, <2>9, <2>10, <2>11, <2>12 DEF Sent
<1> QED  BY <1>2, <1>3

\* Queueing messages puts them behind everything in flight.
LEMMA StreamGrows ==
    ASSUME NEW w \in Seq(Msg), NEW a \in Seq(Msg), NEW q \in Seq(Msg),
           NEW b \in Seq(Msg), NEW r \in Seq(Msg), NEW t \in Seq(Msg),
           Cat(b, r) = Cat(Cat(a, q), t)
    PROVE  Cat(Cat(w, b), r) = Cat(Cat(Cat(w, a), q), t)
<1>2. Cat(Cat(w, b), r) = Cat(w, Cat(b, r))
  BY CatFacts
<1>3. Cat(Cat(w, a), q) = Cat(w, Cat(a, q)) /\ Cat(a, q) \in Seq(Msg)
  BY CatFacts
<1>4. Cat(Cat(w, Cat(a, q)), t) = Cat(w, Cat(Cat(a, q), t))
  BY <1>3, CatFacts
<1> QED  BY <1>2, <1>3, <1>4, Zenon

\* Handling the oldest message on the wire takes it from what is in flight.
LEMMA StreamRead ==
    ASSUME NEW w \in Seq(Msg), NEW a \in Seq(Msg), NEW q \in Seq(Msg), w # <<>>
    PROVE  /\ Cat(Cat(w, a), q) # <<>>
           /\ Head(Cat(Cat(w, a), q)) = Head(w)
           /\ Tail(Cat(Cat(w, a), q)) = Cat(Cat(Tail(w), a), q)
<1>1. ASSUME NEW x \in Seq(Msg), NEW y \in Seq(Msg), x # <<>>
      PROVE  x \o y # <<>> /\ Head(x \o y) = Head(x) /\ Tail(x \o y) = Tail(x) \o y
  <2> DEFINE l == Tail(x \o y)
             r == Tail(x) \o y
  <2>1. x \o y \in Seq(Msg) /\ x \o y # <<>> /\ Head(x \o y) = Head(x)
    BY <1>1
  <2>2. l \in Seq(Msg) /\ r \in Seq(Msg) /\ Len(l) = Len(r)
    BY <1>1, <2>1
  <2>3. \A k \in 1 .. Len(l) : l[k] = r[k]
    BY <1>1, <2>1
  <2> HIDE DEF l, r
  <2>4. l = r
    BY <2>2, <2>3, SeqEqual
  <2> QED  BY <2>1, <2>4 DEF l, r
<1>2. w \o a \in Seq(Msg) /\ w \o a # <<>> /\ Head(w \o a) = Head(w)
      /\ Tail(w \o a) = Tail(w) \o a
  BY <1>1, ConcatAt
<1> QED  BY <1>1, <1>2 DEF Cat

\* The completion of a write moves one message on the wire and the next one
\* into the write; what is in flight stays the same.
LEMMA StreamMoves ==
    ASSUME NEW w \in Seq(Msg), NEW a \in Seq(Msg), NEW q \in Seq(Msg), Len(a) = 1
    PROVE  /\ Tail(a) = <<>> /\ Head(a) \in Msg
           /\ q = <<>> => Cat(Cat(Append(w, Head(a)), <<>>), q) = Cat(Cat(w, a), q)
           /\ q # <<>> => Cat(Cat(Append(w, Head(a)), <<Head(q)>>), Tail(q))
                              = Cat(Cat(w, a), q)
<1>1. a # <<>> /\ Head(a) \in Msg
  <2>1. Len(<<>>) # 1
    OBVIOUS
  <2>2. a # <<>>
    BY <2>1, Zenon
  <2> QED  BY <2>2, HeadThenTail
<1>2. Tail(a) = <<>>
  <2>1. Tail(a) \in Seq(Msg) /\ Len(Tail(a)) = 0
    BY <1>1
  <2>2. <<>> \in Seq(Msg) /\ Len(<<>>) = 0 /\ \A k \in 1 .. 0 : FALSE
    OBVIOUS
  <2> QED  BY Zenon, <2>1, <2>2, SeqEqual
<1>3. Append(w, Head(a)) = Cat(w, a) /\ Cat(w, a) \in Seq(Msg)
  <2>1. Cat(<<Head(a)>>, <<>>) = a /\ <<Head(a)>> \in Seq(Msg)
    BY <1>1, <1>2, HeadThenTail DEF Cat
  <2>2. a = <<Head(a)>>
    BY <2>1, CatFacts, Zenon
  <2>3. Append(w, Head(a)) = Cat(w, <<Head(a)>>)
    BY <1>1 DEF Cat
  <2>4. Cat(w, a) \in Seq(Msg)
    BY CatFacts, Zenon
  <2> QED  BY <2>2, <2>3, <2>4, Zenon
<1>4. Cat(Cat(w, a), <<>>) = Cat(w, a)
  BY <1>3, CatFacts, Zenon
<1>5. ASSUME q # <<>>
      PROVE  Cat(Cat(Cat(w, a), <<Head(q)>>), Tail(q)) = Cat(Cat(w, a), q)
  <2>1. <<Head(q)>> \in Seq(Msg) /\ Tail(q) \in Seq(Msg) /\ Cat(<<Head(q)>>, Tail(q)) = q
    BY <1>5, HeadThenTail DEF Cat
  <2>2. Cat(Cat(Cat(w, a), <<Head(q)>>), Tail(q))
            = Cat(Cat(w, a), Cat(<<Head(q)>>, Tail(q)))
    <3> DEFINE x == Cat(w, a)
               y == <<Head(q)>>
               z == Tail(q)
    <3>1. x \in Seq(Msg) /\ y \in Seq(Msg) /\ z \in Seq(Msg)
      BY <1>3, <2>1, Zenon
    <3> HIDE DEF x, y, z
    <3>2. Cat(Cat(x, y), z) = Cat(x, Cat(y, z))
      BY <3>1, CatFacts
    <3> QED  BY <3>2 DEF x, y, z
  <2> QED  BY <2>1, <2>2, Zenon
<1>6. q = <<>> => Cat(Cat(Append(w, Head(a)), <<>>), q) = Cat(Cat(w, a), q)
  BY <1>3, <1>4, Zenon
<1>7. q # <<>> => Cat(Cat(Append(w, Head(a)), <<Head(q)>>), Tail(q)) = Cat(Cat(w, a), q)
  BY <1>3, <1>5, Zenon
<1> QED  BY <1>1, <1>2, <1>6, <1>7, Zenon

-----------------------------------------------------------------------------
(* Steps that leave the life of the connection as it is.                    *)

\* What is in flight is a sequence of messages.
LEMMA InFlightType ==
    ASSUME Types, NEW e \in Ends
    PROVE  /\ InFlight(e) \in Seq(Msg)
           /\ wire[e] \in Seq(Msg)
           /\ end[e].writing \in Seq(Msg)
           /\ end[e].write_queue \in Seq(Msg)
<1>1. wire[e] \in Seq(Msg) /\ end[e].writing \in Seq(Msg) /\ end[e].write_queue \in Seq(Msg)
  BY DEF Types, Session
<1> QED  BY <1>1 DEF InFlight

\* Messages of e other than a handshake.
Talk(t, e) ==
    /\ HandshakesIn(t) = {}
    /\ \A k \in 1 .. Len(t) : t[k].type \in Speaks(e)

\* A stream of messages stays, loses its oldest message or gets new ones.
StreamStep(s, n, e) ==
    \/ n = s
    \/ s # <<>> /\ n = Tail(s)
    \/ \E t \in Seq(Msg) : n = s \o t /\ Talk(t, e)

\* A stream of messages changes without setting or clearing a flag.
QuietStep(s, n, on, off) ==
    \/ n = s
    \/ s # <<>> /\ n = Tail(s) /\ Head(s).type \notin {on, off}
    \/ \E t \in Seq(Msg) : n = s \o t /\ Deciding(t, on, off) = {}

\* Neither end connects, shakes hands or goes away.
SameLife ==
    \A x \in Ends : /\ end'[x].state = end[x].state
                    /\ end'[x].connected = end[x].connected
                    /\ end'[x].handshake_sent = end[x].handshake_sent

\* Neither end connects or goes away.
SameLink ==
    \A x \in Ends : /\ Live(x)' = Live(x)
                    /\ end'[x].connected = end[x].connected

\* The session has heard nothing new from the other end.
SameHeard(s, t) ==
    t.peer_choking_me = s.peer_choking_me /\ t.peer_interested = s.peer_interested

\* Nobody is dialing.
NoDial == \A x \in Ends : Live(x) => end[x].connected

\* A quiet step keeps the value at which a flag settles.
LEMMA SettlesStep ==
    ASSUME NEW s \in Seq(Msg), NEW n, NEW on, NEW off, on # off, NEW flag, NEW v,
           Settles(flag, s, on, off, v), QuietStep(s, n, on, off)
    PROVE  Settles(flag, n, on, off, v)
<1>1. CASE s # <<>> /\ n = Tail(s) /\ Head(s).type \notin {on, off}
  <2>1. flag = IF Head(s).type = on THEN TRUE
               ELSE IF Head(s).type = off THEN FALSE ELSE flag
    BY Zenon, <1>1
  <2> QED  BY Zenon, <1>1, <2>1, SettlesRead
<1>2. ASSUME NEW t \in Seq(Msg), n = s \o t, Deciding(t, on, off) = {}
      PROVE  Settles(flag, n, on, off, v)
  BY <1>2, SettlesQuiet
<1> QED  BY <1>1, <1>2 DEF QuietStep

\* The life of the connection after a step that does not touch it.
LEMMA LivesKept ==
    ASSUME SessionInv, SameLife,
           \A x \in Ends : ~Live(x) => end'[x] = end[x],
           ~Live(U) => UNCHANGED <<reads, posted>>,
           NoDial \/ (/\ wire' = wire
                      /\ \A x \in Ends : SameHeard(end[x], end'[x]))
    PROVE  Lives'
<1>1. Lives
  BY DEF SessionInv
<1>2. \A x \in Ends : Live(x)' = Live(x) /\ Other(x) \in Ends
  BY EndsFacts DEF SameLife, Live
<1>3. \A x \in Ends : ~Live(x)' => end'[x] = NoSession
  BY <1>1, <1>2 DEF Lives
<1>4. ~Live(U)' => \A s \in Subs : reads'[s] = 0 /\ posted'[s] = 0
  BY <1>1, <1>2, EndsFacts DEF Lives
<1>5. ASSUME NEW x \in Ends, Live(x)', ~end'[x].connected
      PROVE  /\ end'[x].state = "HANDSHAKE"
             /\ ~end'[x].handshake_sent
             /\ ~Live(Other(x))'
             /\ end'[x].peer_choking_me /\ ~end'[x].peer_interested
             /\ wire'[D] = <<>> /\ wire'[U] = <<>>
  <2>1. Live(x) /\ ~end[x].connected
    BY <1>2, <1>5 DEF SameLife
  <2>2. /\ end[x].state = "HANDSHAKE" /\ ~end[x].handshake_sent /\ ~Live(Other(x))
        /\ end[x].peer_choking_me /\ ~end[x].peer_interested
        /\ wire[D] = <<>> /\ wire[U] = <<>>
    BY <1>1, <2>1 DEF Lives
  <2>3. wire' = wire /\ SameHeard(end[x], end'[x])
    BY <2>1 DEF NoDial
  <2> QED  BY <1>2, <2>2, <2>3 DEF SameLife, SameHeard
<1> QED  BY <1>3, <1>4, <1>5 DEF Lives, Live

\* One stream after a step that sends no handshake.
LEMMA StreamKept ==
    ASSUME NEW e \in Ends, NEW s \in Seq(Msg), NEW n, StreamStep(s, n, e),
           \A k \in 1 .. Len(s) : s[k].type \in Speaks(e),
           \A j, k \in HandshakesIn(s) : j = k
    PROVE  /\ \A k \in 1 .. Len(n) : n[k].type \in Speaks(e)
           /\ \A j, k \in HandshakesIn(n) : j = k
           /\ HandshakesIn(s) = {} => HandshakesIn(n) = {}
<1>1. CASE n = s
  BY <1>1
<1>2. CASE s # <<>> /\ n = Tail(s)
  <2>1. \A k \in 1 .. Len(n) : k + 1 \in 1 .. Len(s) /\ n[k] = s[k + 1]
    BY <1>2
  <2>2. \A k \in 1 .. Len(n) : n[k].type \in Speaks(e)
    BY <2>1
  <2> QED  BY <1>2, <2>2, HandshakesTail
<1>3. ASSUME NEW t \in Seq(Msg), n = s \o t, Talk(t, e)
      PROVE  /\ \A k \in 1 .. Len(n) : n[k].type \in Speaks(e)
             /\ HandshakesIn(n) = HandshakesIn(s)
  <2>1. HandshakesIn(n) = HandshakesIn(s)
    BY <1>3, HandshakesConcat DEF Talk
  <2>2. ASSUME NEW k \in 1 .. Len(n)
        PROVE  n[k].type \in Speaks(e)
    <3>1. CASE k \in 1 .. Len(s)
      BY <1>3, <3>1, ConcatAt
    <3>2. CASE k - Len(s) \in 1 .. Len(t)
      <4>1. k = Len(s) + (k - Len(s))
        OBVIOUS
      <4>2. n[k] = t[k - Len(s)]
        BY <1>3, <3>2, <4>1, ConcatAt
      <4> QED  BY <1>3, <3>2, <4>2 DEF Talk
    <3> QED  BY <1>3, <3>1, <3>2, ConcatAt
  <2> QED  BY <2>1, <2>2
<1> QED  BY <1>1, <1>2, <1>3 DEF StreamStep

\* The handshakes after a step that sends none.
LEMMA HandshakesKept ==
    ASSUME SessionInv, SameLife,
           \A x \in Ends : StreamStep(InFlight(x), InFlight(x)', x)
    PROVE  Handshakes'
<1> SUFFICES ASSUME NEW e \in Ends
             PROVE  /\ \A k \in 1 .. Len(InFlight(e)') : InFlight(e)'[k].type \in Speaks(e)
                    /\ \A j, k \in HandshakesIn(InFlight(e)') : j = k
                    /\ Live(e)' /\ ~end'[e].handshake_sent
                          => HandshakesIn(InFlight(e)') = {}
                    /\ end'[Other(e)].state = "CONNECTED" =>
                          /\ HandshakesIn(InFlight(e)') = {}
                          /\ Live(e)' => end'[e].handshake_sent
  BY DEF Handshakes, HandshakesIn, Speaks
<1> DEFINE s == InFlight(e)
           n == InFlight(e)'
<1>1. s \in Seq(Msg)
  BY InFlightType DEF SessionInv
<1>2. /\ \A k \in 1 .. Len(s) : s[k].type \in Speaks(e)
      /\ \A j, k \in HandshakesIn(s) : j = k
      /\ Live(e) /\ ~end[e].handshake_sent => HandshakesIn(s) = {}
      /\ end[Other(e)].state = "CONNECTED" =>
            HandshakesIn(s) = {} /\ (Live(e) => end[e].handshake_sent)
  BY DEF SessionInv, Handshakes
<1>3. StreamStep(s, n, e)
  OBVIOUS
<1> HIDE DEF s, n
<1>4. /\ \A k \in 1 .. Len(n) : n[k].type \in Speaks(e)
      /\ \A j, k \in HandshakesIn(n) : j = k
      /\ HandshakesIn(s) = {} => HandshakesIn(n) = {}
  BY <1>1, <1>2, <1>3, StreamKept
<1>5. /\ Live(e)' = Live(e)
      /\ end'[e].handshake_sent = end[e].handshake_sent
      /\ end'[Other(e)].state = end[Other(e)].state
  BY EndsFacts DEF SameLife, Live
<1> QED  BY <1>2, <1>4, <1>5 DEF n

\* The choke agreement of an end after a step in which it says nothing about
\* choking.
LEMMA ChokeQuiet ==
    ASSUME SessionInv, SameLink, NEW e \in Ends,
           end'[e].choking_peer = end[e].choking_peer,
           end'[Other(e)].peer_choking_me = end[Other(e)].peer_choking_me,
           QuietStep(InFlight(e), InFlight(e)', "CHOKE", "UNCHOKE")
    PROVE  ChokeTold(e)'
<1> DEFINE o == Other(e)
<1>1. InFlight(e) \in Seq(Msg)
  BY InFlightType DEF SessionInv
<1>2. /\ o \in Ends /\ Live(e)' = Live(e) /\ Live(o)' = Live(o)
      /\ end'[e].connected = end[e].connected
  BY EndsFacts DEF SameLink
<1> SUFFICES ASSUME Live(e), Live(o) \/ ~end[e].connected
             PROVE  Settles(end'[o].peer_choking_me, InFlight(e)', "CHOKE", "UNCHOKE",
                            end'[e].choking_peer)
  BY <1>2 DEF ChokeTold, Settles, Deciding
<1>3. Settles(end[o].peer_choking_me, InFlight(e), "CHOKE", "UNCHOKE",
              end[e].choking_peer)
  BY DEF SessionInv, ChokeAgrees, ChokeTold
<1> QED  BY <1>1, <1>3, SettlesStep

\* The same when the handshake has not moved on either.
LEMMA ChokeKept ==
    ASSUME SessionInv, SameLife, NEW e \in Ends,
           end'[e].choking_peer = end[e].choking_peer,
           end'[Other(e)].peer_choking_me = end[Other(e)].peer_choking_me,
           QuietStep(InFlight(e), InFlight(e)', "CHOKE", "UNCHOKE")
    PROVE  ChokeTold(e)'
<1>1. SameLink
  BY DEF SameLife, SameLink, Live
<1> QED  BY <1>1, ChokeQuiet

\* Neither end chokes the other anew, or hears of it.
SameChokes ==
    \A x \in Ends : /\ end'[x].choking_peer = end[x].choking_peer
                    /\ end'[x].peer_choking_me = end[x].peer_choking_me

\* The choke agreement of both ends after a step that says nothing about
\* choking.
LEMMA ChokesKept ==
    ASSUME SessionInv, SameLife, SameChokes,
           \A x \in Ends : QuietStep(InFlight(x), InFlight(x)', "CHOKE", "UNCHOKE")
    PROVE  ChokeAgrees'
<1> SUFFICES ASSUME NEW e \in Ends
             PROVE  ChokeTold(e)'
  BY DEF ChokeAgrees
<1> QED  BY EndsFacts, ChokeKept DEF SameChokes

\* The interest agreement after a step that says nothing about interest.
LEMMA InterestQuiet ==
    ASSUME SessionInv, SameLink,
           end'[D].am_interested = end[D].am_interested,
           end'[U].peer_interested = end[U].peer_interested,
           done' = done,
           QuietStep(InFlight(D), InFlight(D)', "INTERESTED", "NOT_INTERESTED")
    PROVE  InterestAgrees'
<1>1. InFlight(D) \in Seq(Msg)
  BY EndsFacts, InFlightType DEF SessionInv
<1>2. /\ Live(U)' = Live(U) /\ Live(D)' = Live(D)
      /\ end'[D].connected = end[D].connected
  BY EndsFacts DEF SameLink
<1> SUFFICES ASSUME Live(D), Live(U) \/ ~end[D].connected
             PROVE  Settles(end'[U].peer_interested, InFlight(D)',
                            "INTERESTED", "NOT_INTERESTED",
                            end'[D].am_interested /\ ~done')
  BY <1>2 DEF InterestAgrees, Settles, Deciding
<1>3. Settles(end[U].peer_interested, InFlight(D), "INTERESTED", "NOT_INTERESTED",
              end[D].am_interested /\ ~done)
  BY DEF SessionInv, InterestAgrees
<1> QED  BY <1>1, <1>3, SettlesStep

\* The same when the handshake has not moved on either.
LEMMA InterestKept ==
    ASSUME SessionInv, SameLife,
           end'[D].am_interested = end[D].am_interested,
           end'[U].peer_interested = end[U].peer_interested,
           done' = done,
           QuietStep(InFlight(D), InFlight(D)', "INTERESTED", "NOT_INTERESTED")
    PROVE  InterestAgrees'
<1>1. SameLink
  BY DEF SameLife, SameLink, Live
<1> QED  BY <1>1, InterestQuiet

\* What is in flight from e after msgs went behind its other messages.
LEMMA StreamAppended ==
    ASSUME Types, NEW e \in Ends, NEW msgs \in Seq(Msg), end'[e] \in Session,
           end'[e].writing \o end'[e].write_queue
               = (end[e].writing \o end[e].write_queue) \o msgs,
           wire'[e] = wire[e]
    PROVE  InFlight(e)' = InFlight(e) \o msgs
<1>1. end'[e].writing \in Seq(Msg) /\ end'[e].write_queue \in Seq(Msg)
  BY DEF Session
<1>2. Cat(end'[e].writing, end'[e].write_queue)
          = Cat(Cat(end[e].writing, end[e].write_queue), msgs)
  BY Zenon DEF Cat
<1>3. /\ wire[e] \in Seq(Msg) /\ end[e].writing \in Seq(Msg)
      /\ end[e].write_queue \in Seq(Msg)
  BY InFlightType
<1>4. Cat(Cat(wire[e], end'[e].writing), end'[e].write_queue)
          = Cat(Cat(Cat(wire[e], end[e].writing), end[e].write_queue), msgs)
  <2> DEFINE w == wire[e]
             a == end[e].writing
             q == end[e].write_queue
             b == end'[e].writing
             r == end'[e].write_queue
  <2>1. /\ w \in Seq(Msg) /\ a \in Seq(Msg) /\ q \in Seq(Msg)
        /\ b \in Seq(Msg) /\ r \in Seq(Msg)
        /\ Cat(b, r) = Cat(Cat(a, q), msgs)
    BY <1>1, <1>2, <1>3
  <2>2. Cat(Cat(w, b), r) = Cat(Cat(Cat(w, a), q), msgs)
    <3> HIDE DEF w, a, q, b, r
    <3>1. Cat(Cat(w, b), r) = Cat(w, Cat(b, r))
      BY <2>1, CatFacts
    <3>2. /\ Cat(Cat(w, a), q) = Cat(w, Cat(a, q)) /\ Cat(a, q) \in Seq(Msg)
      BY <2>1, CatFacts
    <3> DEFINE v == Cat(a, q)
    <3>3. Cat(Cat(w, v), msgs) = Cat(w, Cat(v, msgs))
      <4>1. v \in Seq(Msg)
        BY <3>2
      <4> HIDE DEF v
      <4> QED  BY <2>1, <4>1, CatFacts
    <3> QED  BY <2>1, <3>1, <3>2, <3>3, Zenon
  <2> QED  BY <2>2
<1> QED  BY <1>4, Zenon DEF InFlight, Cat

\* What is in flight from e after e has queued msgs.
LEMMA StreamSent ==
    ASSUME Types, NEW e \in Ends, NEW E \in [Ends -> Session], NEW msgs \in Seq(Msg),
           Sent(E, end', e, msgs),
           E[e].writing = end[e].writing, E[e].write_queue = end[e].write_queue,
           wire'[e] = wire[e]
    PROVE  InFlight(e)' = InFlight(e) \o msgs
<1>1. /\ end'[e] \in Session
      /\ end'[e].writing \o end'[e].write_queue
            = (end[e].writing \o end[e].write_queue) \o msgs
  BY DEF Sent
<1> QED  BY Zenon, <1>1, StreamAppended

\* What is in flight from an end whose write side and wire stay.
LEMMA StreamSame ==
    ASSUME NEW e \in Ends, wire'[e] = wire[e], end'[e].writing = end[e].writing,
           end'[e].write_queue = end[e].write_queue
    PROVE  InFlight(e)' = InFlight(e)
  BY DEF InFlight

\* The oldest message on the wire is the oldest one in flight.
LEMMA StreamFront ==
    ASSUME Types, NEW e \in Ends, wire[e] # <<>>
    PROVE  /\ InFlight(e) # <<>>
           /\ Head(InFlight(e)) = Head(wire[e])
           /\ Tail(InFlight(e)) = (Tail(wire[e]) \o end[e].writing) \o end[e].write_queue
<1> DEFINE w == wire[e]
           a == end[e].writing
           q == end[e].write_queue
<1>1. w \in Seq(Msg) /\ a \in Seq(Msg) /\ q \in Seq(Msg) /\ w # <<>>
  BY InFlightType
<1>2. /\ Cat(Cat(w, a), q) # <<>>
      /\ Head(Cat(Cat(w, a), q)) = Head(w)
      /\ Tail(Cat(Cat(w, a), q)) = Cat(Cat(Tail(w), a), q)
  <2> HIDE DEF w, a, q
  <2> QED  BY <1>1, StreamRead
<1> QED  BY <1>2, Zenon DEF InFlight, Cat

\* What is in flight from an end whose oldest message is handled.
LEMMA StreamTaken ==
    ASSUME Types, NEW e \in Ends, wire[e] # <<>>, wire'[e] = Tail(wire[e]),
           end'[e].writing = end[e].writing, end'[e].write_queue = end[e].write_queue
    PROVE  /\ InFlight(e) # <<>>
           /\ InFlight(e)' = Tail(InFlight(e))
           /\ Head(InFlight(e)) = Head(wire[e])
<1>1. InFlight(e)' = (Tail(wire[e]) \o end[e].writing) \o end[e].write_queue
  BY Zenon DEF InFlight
<1> QED  BY <1>1, StreamFront, Zenon

-----------------------------------------------------------------------------
(* The steps, one by one.                                                   *)

\* A session without a connection, and one just accepted.
LEMMA SessionTypes ==
    /\ NewSession \in Session /\ Clean(NewSession)
    /\ NoSession \in Session /\ Clean(NoSession)
    /\ [NewSession EXCEPT !.connected = TRUE] \in Session
    /\ Clean([NewSession EXCEPT !.connected = TRUE])
<1>1. <<>> \in Seq(Msg)
  OBVIOUS
<1>2. NewSession \in Session
  BY <1>1 DEF NewSession, Session
<1>3. NoSession \in Session /\ [NewSession EXCEPT !.connected = TRUE] \in Session
  BY Zenon, <1>2 DEF NoSession, Session
<1> QED  BY <1>2, <1>3 DEF Clean, NewSession, NoSession

\* The slot of a peer, and that of none.
LEMMA SlotTypes ==
    /\ NoSlot \in [has : BOOLEAN, pending_requests : 0 .. PipelineCap,
                   consecutive_timeouts : Nat]
    /\ Slot \in [has : BOOLEAN, pending_requests : 0 .. PipelineCap,
                 consecutive_timeouts : Nat]
<1>1. 0 \in 0 .. PipelineCap /\ 0 \in Nat
  BY SessionAssumption
<1>2. NoSlot \in [has : BOOLEAN, pending_requests : 0 .. PipelineCap,
                 consecutive_timeouts : Nat]
  BY <1>1, Zenon DEF NoSlot
<1>3. Slot \in [has : BOOLEAN, pending_requests : 0 .. PipelineCap,
               consecutive_timeouts : Nat]
  BY <1>2, Zenon DEF Slot
<1> QED  BY <1>2, <1>3

\* The completion handler of async_write: the stream stays as it is.
LEMMA WriteDoneEffect ==
    ASSUME SessionInv, NEW e \in Ends, WriteDone(e)
    PROVE  /\ Types'
           /\ \A x \in Ends : SameFlags(end[x], end'[x])
           /\ \A x \in Ends : InFlight(x)' = InFlight(x)
           /\ \A x \in Ends : x # e => end'[x] = end[x]
<1> DEFINE I == [end EXCEPT ![e].writing = Tail(@)]
           w == wire[e]
           a == end[e].writing
           q == end[e].write_queue
<1>0. Types
  BY DEF SessionInv
<1>1. end \in [Ends -> Session] /\ end[e] \in Session /\ wire \in [Ends -> Seq(Msg)]
  BY <1>0 DEF Types
<1>2. w \in Seq(Msg) /\ a \in Seq(Msg) /\ q \in Seq(Msg)
  BY <1>0, InFlightType
<1>3. a # <<>> /\ end' = do_write(I, e) /\ wire' = [wire EXCEPT ![e] = Append(w, Head(a))]
      /\ UNCHANGED <<upload, download, faults>>
  BY DEF WriteDone
<1>4. Len(a) = 1 /\ end[e].is_writing
  BY <1>0, <1>1, <1>3 DEF Types, Clean, Session
<1>5. Tail(a) = <<>> /\ Head(a) \in Msg
  BY <1>2, <1>4, StreamMoves
<1>6. /\ I[e] = [end[e] EXCEPT !.writing = <<>>]
      /\ I \in [Ends -> Session]
      /\ \A x \in Ends : x # e => I[x] = end[x]
  <2>1. I[e] = [end[e] EXCEPT !.writing = <<>>]
    BY Zenon, <1>1, <1>5
  <2>2. <<>> \in Seq(Msg)
    OBVIOUS
  <2>3. I[e] \in Session
    BY <1>1, <2>1, <2>2, Zenon DEF Session
  <2> QED  BY <1>1, <2>1, <2>3
<1>7. /\ I[e] \in Session /\ SameFlags(end[e], I[e]) /\ I[e].writing = <<>>
      /\ I[e].write_queue = q /\ I[e].is_writing
  BY Zenon, <1>1, <1>4, <1>6 DEF Session, SameFlags
<1> HIDE DEF I
<1>8. /\ end' \in [Ends -> Session]
      /\ \A x \in Ends : x # e => end'[x] = end[x]
      /\ SameFlags(end[e], end'[e])
      /\ Clean(end'[e])
      /\ q = <<>> => end'[e].writing = <<>> /\ end'[e].write_queue = q
      /\ q # <<>> => end'[e].writing = <<Head(q)>> /\ end'[e].write_queue = Tail(q)
  <2>1. CASE q = <<>>
    <3>1. end' = [I EXCEPT ![e].is_writing = FALSE]
      BY <1>3, <1>7, <2>1 DEF do_write
    <3>2. end'[e] = [I[e] EXCEPT !.is_writing = FALSE]
      BY <1>6, <3>1
    <3>3. end'[e] \in Session
      BY <1>7, <3>2, Zenon DEF Session
    <3>4. /\ SameFlags(I[e], end'[e]) /\ end'[e].writing = <<>>
          /\ end'[e].write_queue = q /\ ~end'[e].is_writing
      BY <1>7, <3>2 DEF Session, SameFlags
    <3>5. end' \in [Ends -> Session] /\ \A x \in Ends : x # e => end'[x] = end[x]
      BY <1>6, <3>1, <3>3
    <3>6. SameFlags(end[e], end'[e])
      BY <1>7, <3>4 DEF SameFlags
    <3>7. Clean(end'[e])
      BY <2>1, <3>4 DEF Clean
    <3> QED  BY <2>1, <3>4, <3>5, <3>6, <3>7
  <2>2. CASE q # <<>>
    <3>1. end' = [I EXCEPT ![e].writing = Append(@, Head(I[e].write_queue)),
                           ![e].write_queue = Tail(@)]
      BY <1>3, <1>7, <2>2 DEF do_write
    <3>2. Head(q) \in Msg /\ Tail(q) \in Seq(Msg) /\ <<Head(q)>> \in Seq(Msg)
      BY <1>2, <2>2, HeadThenTail
    <3>3. Append(<<>>, Head(q)) = <<Head(q)>>
      OBVIOUS
    <3>4. end'[e] = [I[e] EXCEPT !.writing = <<Head(q)>>, !.write_queue = Tail(q)]
      BY <1>6, <1>7, <3>1, <3>3
    <3>5. end'[e] \in Session
      <4> DEFINE i == [I[e] EXCEPT !.writing = <<Head(q)>>]
      <4>1. i \in Session
        BY <1>7, <3>2, Zenon DEF Session
      <4>2. end'[e] = [i EXCEPT !.write_queue = Tail(q)]
        BY <3>4
      <4> HIDE DEF i
      <4> QED  BY <3>2, <4>1, <4>2, Zenon DEF Session
    <3>6. /\ SameFlags(I[e], end'[e]) /\ end'[e].writing = <<Head(q)>>
          /\ end'[e].write_queue = Tail(q) /\ end'[e].is_writing
      BY <1>7, <3>4 DEF Session, SameFlags
    <3>7. end' \in [Ends -> Session] /\ \A x \in Ends : x # e => end'[x] = end[x]
      BY <1>6, <3>1, <3>5
    <3>8. SameFlags(end[e], end'[e])
      BY <1>7, <3>6 DEF SameFlags
    <3>9. Clean(end'[e])
      <4>1. Len(<<Head(q)>>) = 1
        OBVIOUS
      <4> QED  BY <3>6, <4>1 DEF Clean
    <3> QED  BY <2>2, <3>6, <3>7, <3>8, <3>9
  <2> QED  BY <2>1, <2>2
<1>9. wire' \in [Ends -> Seq(Msg)] /\ wire'[e] = Append(w, Head(a))
      /\ \A x \in Ends : x # e => wire'[x] = wire[x]
  <2>1. Append(w, Head(a)) \in Seq(Msg)
    BY <1>2, <1>5
  <2> QED  BY <1>1, <1>3, <2>1
<1>10. Types'
  BY Zenon, <1>0, <1>3, <1>8, <1>9 DEF Types, upload, download
<1>11. InFlight(e)' = InFlight(e)
  <2>1. Cat(Cat(wire'[e], end'[e].writing), end'[e].write_queue) = Cat(Cat(w, a), q)
    <3>1. /\ q = <<>> => Cat(Cat(Append(w, Head(a)), <<>>), q) = Cat(Cat(w, a), q)
          /\ q # <<>> => Cat(Cat(Append(w, Head(a)), <<Head(q)>>), Tail(q))
                             = Cat(Cat(w, a), q)
      <4> HIDE DEF w, a, q
      <4> QED  BY <1>2, <1>4, StreamMoves
    <3> HIDE DEF w, a, q
    <3> QED  BY <1>8, <1>9, <3>1, Zenon
  <2> QED  BY <2>1, Zenon DEF InFlight, Cat
<1>12. \A x \in Ends : x # e => InFlight(x)' = InFlight(x)
  BY Zenon, <1>8, <1>9 DEF InFlight
<1>13. \A x \in Ends : x # e => SameFlags(end[x], end'[x])
  BY <1>8 DEF SameFlags
<1> QED  BY <1>8, <1>10, <1>11, <1>12, <1>13

\* A session on a connection is alive and nobody is dialing; the same when a
\* message is on the wire.
LEMMA ConnectedFacts ==
    ASSUME SessionInv, NEW e \in Ends
    PROVE  /\ end[e].connected => Live(e) /\ NoDial
           /\ wire[e] # <<>> => NoDial
           /\ Live(e) /\ Live(Other(e)) => NoDial
           /\ end[e].state = "CONNECTED" => end[e].connected
<1>1. /\ \A x \in Ends : ~Live(x) => end[x] = NoSession
      /\ \A x \in Ends : Live(x) /\ ~end[x].connected =>
            /\ end[x].state = "HANDSHAKE"
            /\ ~Live(Other(x))
            /\ wire[D] = <<>> /\ wire[U] = <<>>
  BY DEF SessionInv, Lives
<1>2. ~NoSession.connected
  BY DEF NoSession, NewSession
<1>3. end[e].connected => Live(e)
  BY <1>1, <1>2
<1>4. end[e].connected => NoDial
  BY <1>1, <1>3, EndsFacts DEF NoDial
<1>5. wire[e] # <<>> => NoDial
  BY <1>1, EndsFacts DEF NoDial
<1>6. Live(e) /\ Live(Other(e)) => NoDial
  BY <1>1, EndsFacts DEF NoDial
<1>7. end[e].state = "CONNECTED" => end[e].connected
  BY <1>1 DEF Live
<1> QED  BY <1>3, <1>4, <1>5, <1>6, <1>7

\* WriteDone keeps the invariant.
LEMMA WriteDoneInv ==
    ASSUME SessionInv, NEW e \in Ends, WriteDone(e)
    PROVE  SessionInv'
<1>1. /\ Types'
      /\ \A x \in Ends : SameFlags(end[x], end'[x])
      /\ \A x \in Ends : InFlight(x)' = InFlight(x)
      /\ \A x \in Ends : x # e => end'[x] = end[x]
  BY WriteDoneEffect
<1>2. SameLife
  BY <1>1 DEF SameLife, SameFlags
<1>3. UNCHANGED <<reads, posted, done>> /\ end[e].connected
  BY DEF WriteDone, upload, download
<1>4. Lives'
  BY <1>1, <1>2, <1>3, ConnectedFacts, LivesKept
<1>5. Handshakes'
  BY <1>1, <1>2, HandshakesKept DEF StreamStep
<1>6. ChokeAgrees'
  BY <1>1, <1>2, ChokesKept DEF QuietStep, SameFlags, SameChokes
<1>7. InterestAgrees'
  BY <1>1, <1>2, <1>3, EndsFacts, InterestKept DEF QuietStep, SameFlags
<1> QED  BY <1>1, <1>4, <1>5, <1>6, <1>7 DEF SessionInv

\* One message that is not a handshake.
LEMMA OneMessage ==
    ASSUME NEW m \in Msg, NEW e, m.type \in Speaks(e), m.type # "HANDSHAKE"
    PROVE  /\ <<m>> \in Seq(Msg)
           /\ Talk(<<m>>, e)
           /\ \A on, off : m.type \notin {on, off} => Deciding(<<m>>, on, off) = {}
  BY DEF Talk, HandshakesIn, Deciding

\* A session with one of its fields set.
LEMMA SessionUpdates ==
    ASSUME NEW s \in Session
    PROVE  /\ \A p \in SUBSET Subs :
                 /\ [s EXCEPT !.pending_times = p] \in Session
                 /\ [s EXCEPT !.cancelled_set = p] \in Session
           /\ \A n \in Nat : [s EXCEPT !.consecutive_timeouts = n] \in Session
           /\ \A b \in BOOLEAN :
                 /\ [s EXCEPT !.choking_peer = b] \in Session
                 /\ [s EXCEPT !.peer_choking_me = b] \in Session
                 /\ [s EXCEPT !.peer_interested = b] \in Session
                 /\ [s EXCEPT !.am_interested = b] \in Session
                 /\ [s EXCEPT !.handshake_sent = b] \in Session
                 /\ [s EXCEPT !.connected = b] \in Session
           /\ [s EXCEPT !.state = "CONNECTED"] \in Session
<1>1. ASSUME NEW p \in SUBSET Subs
      PROVE  /\ [s EXCEPT !.pending_times = p] \in Session
             /\ [s EXCEPT !.cancelled_set = p] \in Session
  BY Zenon DEF Session
<1>2. ASSUME NEW n \in Nat
      PROVE  [s EXCEPT !.consecutive_timeouts = n] \in Session
  BY Zenon DEF Session
<1>3. ASSUME NEW b \in BOOLEAN
      PROVE  /\ [s EXCEPT !.choking_peer = b] \in Session
             /\ [s EXCEPT !.peer_choking_me = b] \in Session
             /\ [s EXCEPT !.peer_interested = b] \in Session
  BY Zenon DEF Session
<1>4. ASSUME NEW b \in BOOLEAN
      PROVE  /\ [s EXCEPT !.am_interested = b] \in Session
             /\ [s EXCEPT !.handshake_sent = b] \in Session
             /\ [s EXCEPT !.connected = b] \in Session
  BY Zenon DEF Session
<1>5. [s EXCEPT !.state = "CONNECTED"] \in Session
  <2>1. "CONNECTED" \in {"HANDSHAKE", "CONNECTED", "DISCONNECTED"}
    OBVIOUS
  <2> QED  BY <2>1, Zenon DEF Session
<1> QED  BY <1>1, <1>2, <1>3, <1>4, <1>5

\* F is E but for some flag or bookkeeping of the session at e.
Noted(E, F, e) ==
    /\ F \in [Ends -> Session]
    /\ \A x \in Ends : x # e => F[x] = E[x]
    /\ F[e].state = E[e].state
    /\ F[e].connected = E[e].connected
    /\ F[e].handshake_sent = E[e].handshake_sent
    /\ F[e].writing = E[e].writing
    /\ F[e].write_queue = E[e].write_queue
    /\ F[e].is_writing = E[e].is_writing

\* What a step that only queues messages of e keeps.
LEMMA SendKeeps ==
    ASSUME SessionInv, NEW e \in Ends, Live(e),
           NEW E, NEW msgs \in Seq(Msg), Noted(end, E, e), SameHeard(end[e], E[e]),
           Sent(E, end', e, msgs),
           Talk(msgs, e),
           wire' = wire,
           ~Live(U) => UNCHANGED <<reads, posted>>
    PROVE  /\ end' \in [Ends -> Session]
           /\ \A x \in Ends : Clean(end'[x])
           /\ \A x \in Ends : x # e => end'[x] = end[x] /\ InFlight(x)' = InFlight(x)
           /\ SameFlags(E[e], end'[e])
           /\ InFlight(e)' = InFlight(e) \o msgs
           /\ SameLife /\ Lives' /\ Handshakes'
<1>0. Types /\ E \in [Ends -> Session]
  BY DEF SessionInv, Noted
<1>1. /\ end' \in [Ends -> Session]
      /\ \A x \in Ends : x # e => end'[x] = end[x]
      /\ SameFlags(E[e], end'[e])
      /\ Clean(end'[e])
  BY DEF Sent, Noted
<1>2. \A x \in Ends : Clean(end'[x])
  BY Zenon, <1>0, <1>1 DEF Types
<1>3. \A x \in Ends : x # e => InFlight(x)' = InFlight(x)
  BY Zenon, <1>1 DEF InFlight
<1>4. InFlight(e)' = InFlight(e) \o msgs
  BY <1>0, StreamSent DEF Noted
<1>5. SameLife
  BY <1>1 DEF SameLife, SameFlags, Noted
<1>6. Lives'
  <2>1. \A x \in Ends : SameHeard(end[x], end'[x])
    BY <1>1 DEF SameHeard, SameFlags
  <2> QED  BY <1>1, <1>5, <2>1, LivesKept
<1>7. \A x \in Ends : StreamStep(InFlight(x), InFlight(x)', x)
  BY Zenon, <1>3, <1>4 DEF StreamStep
<1>8. Handshakes'
  BY <1>5, <1>7, HandshakesKept
<1> QED  BY <1>1, <1>2, <1>3, <1>4, <1>5, <1>6, <1>8

\* Asking for a sub-block keeps the invariant.
LEMMA AskInv ==
    ASSUME SessionInv, NEW s \in Subs, Ask(s)
    PROVE  SessionInv'
<1> DEFINE E == [end EXCEPT ![D].pending_times = @ \union {s}]
           m == About("REQUEST", s)
<1>0. Types /\ end \in [Ends -> Session] /\ D \in Ends /\ U \in Ends /\ D # U
  BY EndsFacts DEF SessionInv, Types
<1>1. m \in Msg /\ m.type = "REQUEST"
  BY MsgFacts DEF MsgTypes
<1>2. /\ <<m>> \in Seq(Msg) /\ Talk(<<m>>, D)
      /\ Deciding(<<m>>, "INTERESTED", "NOT_INTERESTED") = {}
      /\ Deciding(<<m>>, "CHOKE", "UNCHOKE") = {}
  BY <1>1, OneMessage DEF Speaks
<1>3. /\ E[D] = [end[D] EXCEPT !.pending_times = end[D].pending_times \union {s}]
      /\ \A x \in Ends : x # D => E[x] = end[x]
  BY <1>0
<1>4. end[D] \in Session /\ end[D].pending_times \union {s} \in SUBSET Subs
  BY <1>0 DEF Session
<1>5. E[D] \in Session /\ E \in [Ends -> Session]
  <2>1. E[D] \in Session
    <3>1. \A p \in SUBSET Subs : [end[D] EXCEPT !.pending_times = p] \in Session
      BY Zenon, <1>4, SessionUpdates
    <3> HIDE DEF E
    <3> QED  BY <1>3, <1>4, <3>1, Zenon
  <2> QED  BY <1>0, <2>1
<1>6. /\ Noted(end, E, D) /\ Clean(E[D]) /\ SameHeard(end[D], E[D])
      /\ E[D].peer_choking_me = end[D].peer_choking_me
      /\ E[D].choking_peer = end[D].choking_peer
      /\ E[D].am_interested = end[D].am_interested
  <2> HIDE DEF E
  <2>1. /\ Noted(end, E, D) /\ SameHeard(end[D], E[D])
        /\ E[D].peer_choking_me = end[D].peer_choking_me
        /\ E[D].choking_peer = end[D].choking_peer
        /\ E[D].am_interested = end[D].am_interested
    BY Zenon, <1>0, <1>3, <1>4, <1>5 DEF Noted, SameHeard, Session
  <2> QED  BY <1>0, <2>1 DEF Types, Clean, Noted
<1>7. /\ end' = send_message(E, D, m)
      /\ wire' = wire /\ UNCHANGED <<reads, posted, received, done>>
      /\ Live(D)
      /\ slot.pending_requests < PipelineCap
      /\ slot' = [slot EXCEPT !.pending_requests = @ + 1]
      /\ sub_req' = sub_req \union {s}
  BY DEF Ask, upload, Live
<1> HIDE DEF E, m
<1>8. Sent(E, end', D, <<m>>)
  BY <1>0, <1>1, <1>5, <1>6, <1>7, SendMessage
<1>9. /\ end' \in [Ends -> Session]
      /\ \A x \in Ends : Clean(end'[x])
      /\ \A x \in Ends : x # D => end'[x] = end[x] /\ InFlight(x)' = InFlight(x)
      /\ SameFlags(E[D], end'[D])
      /\ InFlight(D)' = InFlight(D) \o <<m>>
      /\ SameLife /\ Lives' /\ Handshakes'
  BY Zenon, <1>0, <1>2, <1>6, <1>7, <1>8, SendKeeps
<1>10. Types'
  <2>1. slot' \in [has : BOOLEAN, pending_requests : 0 .. PipelineCap,
                   consecutive_timeouts : Nat]
    <3>1. /\ PipelineCap \in Nat /\ slot.pending_requests + 1 \in 0 .. PipelineCap
          /\ slot \in [has : BOOLEAN, pending_requests : 0 .. PipelineCap,
                       consecutive_timeouts : Nat]
      BY <1>0, <1>7, SessionAssumption DEF Types
    <3> QED  BY <1>7, <3>1
  <2> QED  BY <1>0, <1>7, <1>9, <2>1 DEF Types
<1>11. ChokeAgrees'
  <2>1. SameChokes
    BY <1>0, <1>6, <1>9, EndsFacts DEF SameFlags, SameChokes
  <2>2. \A x \in Ends : QuietStep(InFlight(x), InFlight(x)', "CHOKE", "UNCHOKE")
    BY Zenon, <1>2, <1>9 DEF QuietStep
  <2> QED  BY <1>9, <2>1, <2>2, ChokesKept
<1>12. InterestAgrees'
  <2>1. /\ end'[D].am_interested = end[D].am_interested
        /\ end'[U].peer_interested = end[U].peer_interested
        /\ done' = done
    BY <1>0, <1>6, <1>7, <1>9 DEF SameFlags
  <2>2. QuietStep(InFlight(D), InFlight(D)', "INTERESTED", "NOT_INTERESTED")
    BY Zenon, <1>2, <1>9 DEF QuietStep
  <2> QED  BY <1>9, <2>1, <2>2, InterestKept
<1> QED  BY <1>9, <1>10, <1>11, <1>12 DEF SessionInv

\* The choke agreement of an end that has said last whether it chokes.
LEMMA ChokeSaid ==
    ASSUME Types, NEW e \in Ends, NEW t \in Seq(Msg), t # <<>>,
           InFlight(e)' = InFlight(e) \o t,
           t[Len(t)].type \in {"CHOKE", "UNCHOKE"},
           end'[e].choking_peer = (t[Len(t)].type = "CHOKE")
    PROVE  ChokeTold(e)'
<1>1. InFlight(e) \in Seq(Msg)
  BY InFlightType
<1>2. Settles(end'[Other(e)].peer_choking_me, InFlight(e) \o t, "CHOKE", "UNCHOKE",
              t[Len(t)].type = "CHOKE")
  <2>1. \A s \in Seq(Msg) : \A flag :
           Settles(flag, s \o t, "CHOKE", "UNCHOKE", t[Len(t)].type = "CHOKE")
    BY Zenon, SettlesLast
  <2> QED  BY <1>1, <2>1
<1>3. Settles(end'[Other(e)].peer_choking_me, InFlight(e)', "CHOKE", "UNCHOKE",
              end'[e].choking_peer)
  BY <1>2
<1> QED  BY <1>3 DEF ChokeTold, Settles, Deciding

\* The interest agreement after D has said last whether it is interested.
LEMMA InterestSaid ==
    ASSUME Types, NEW t \in Seq(Msg), t # <<>>,
           InFlight(D)' = InFlight(D) \o t,
           t[Len(t)].type \in {"INTERESTED", "NOT_INTERESTED"},
           (end'[D].am_interested /\ ~done') = (t[Len(t)].type = "INTERESTED")
    PROVE  InterestAgrees'
<1>1. InFlight(D) \in Seq(Msg)
  BY EndsFacts, InFlightType
<1>2. Settles(end'[U].peer_interested, InFlight(D) \o t, "INTERESTED", "NOT_INTERESTED",
              t[Len(t)].type = "INTERESTED")
  <2>1. \A s \in Seq(Msg) : \A flag :
           Settles(flag, s \o t, "INTERESTED", "NOT_INTERESTED",
                   t[Len(t)].type = "INTERESTED")
    BY Zenon, SettlesLast
  <2> QED  BY <1>1, <2>1
<1>3. Settles(end'[U].peer_interested, InFlight(D)', "INTERESTED", "NOT_INTERESTED",
              end'[D].am_interested /\ ~done')
  BY <1>2
<1> QED  BY <1>3 DEF InterestAgrees, Settles, Deciding

\* tick_choke keeps the invariant, whatever it decides.
LEMMA TickChokeInv ==
    ASSUME SessionInv, NEW e \in Ends, NEW choked \in BOOLEAN, TickChoke(e, choked)
    PROVE  SessionInv'
<1> DEFINE E == [end EXCEPT ![e].choking_peer = choked]
           m == Plain(IF choked THEN "CHOKE" ELSE "UNCHOKE")
<1>0. Types /\ end \in [Ends -> Session] /\ D \in Ends /\ U \in Ends /\ D # U
  BY EndsFacts DEF SessionInv, Types
<1>1. m \in Msg /\ m.type = IF choked THEN "CHOKE" ELSE "UNCHOKE"
  BY MsgFacts DEF MsgTypes
<1>2. /\ <<m>> \in Seq(Msg) /\ Talk(<<m>>, e)
      /\ Deciding(<<m>>, "INTERESTED", "NOT_INTERESTED") = {}
  <2> HIDE DEF m
  <2>1. m.type \in Speaks(e) /\ m.type # "HANDSHAKE"
    BY <1>0, <1>1 DEF Speaks
  <2> QED  BY <1>0, <1>1, <2>1, OneMessage
<1>3. /\ E[e] = [end[e] EXCEPT !.choking_peer = choked]
      /\ \A x \in Ends : x # e => E[x] = end[x]
  BY <1>0
<1>4. end[e] \in Session
  BY <1>0
<1>5. E[e] \in Session /\ E \in [Ends -> Session]
  <2>1. E[e] \in Session
    <3>1. \A b \in BOOLEAN : [end[e] EXCEPT !.choking_peer = b] \in Session
      BY Zenon, <1>4, SessionUpdates
    <3> HIDE DEF E
    <3> QED  BY <1>3, <3>1, Zenon
  <2> QED  BY <1>0, <2>1
<1>6. /\ Noted(end, E, e) /\ Clean(E[e]) /\ SameHeard(end[e], E[e])
      /\ E[e].choking_peer = choked
      /\ E[e].am_interested = end[e].am_interested
  <2> HIDE DEF E
  <2>1. /\ Noted(end, E, e) /\ SameHeard(end[e], E[e])
        /\ E[e].choking_peer = choked
        /\ E[e].am_interested = end[e].am_interested
    BY <1>0, <1>3, <1>4, <1>5 DEF Noted, SameHeard, Session
  <2> QED  BY <1>0, <2>1 DEF Types, Clean, Noted
<1>7. /\ end' = send_message(E, e, m)
      /\ UNCHANGED <<wire, reads, posted, slot, sub_req, received, done>>
      /\ Live(e)
  BY DEF TickChoke, upload, download, Live
<1> HIDE DEF E, m
<1>8. Sent(E, end', e, <<m>>)
  BY <1>0, <1>1, <1>5, <1>6, <1>7, SendMessage
<1>9. /\ end' \in [Ends -> Session]
      /\ \A x \in Ends : Clean(end'[x])
      /\ \A x \in Ends : x # e => end'[x] = end[x] /\ InFlight(x)' = InFlight(x)
      /\ SameFlags(E[e], end'[e])
      /\ InFlight(e)' = InFlight(e) \o <<m>>
      /\ SameLife /\ Lives' /\ Handshakes'
  BY Zenon, <1>0, <1>2, <1>6, <1>7, <1>8, SendKeeps
<1>10. Types'
  BY <1>0, <1>7, <1>9 DEF Types
<1>11. ChokeAgrees'
  <2>1. ChokeTold(e)'
    <3>1. <<m>> # <<>> /\ Len(<<m>>) = 1 /\ <<m>>[1] = m
      OBVIOUS
    <3>2. /\ m.type \in {"CHOKE", "UNCHOKE"}
          /\ end'[e].choking_peer = (m.type = "CHOKE")
      BY <1>1, <1>6, <1>9 DEF SameFlags
    <3> QED  BY Zenon, <1>0, <1>2, <1>9, <3>1, <3>2, ChokeSaid
  <2>2. ChokeTold(Other(e))'
    <3>1. /\ Other(e) \in Ends /\ Other(e) # e /\ Other(Other(e)) = e
          /\ end'[e].peer_choking_me = end[e].peer_choking_me
      BY <1>6, <1>9, EndsFacts DEF SameFlags, SameHeard
    <3>2. QuietStep(InFlight(Other(e)), InFlight(Other(e))', "CHOKE", "UNCHOKE")
      BY <1>9, <3>1 DEF QuietStep
    <3> QED  BY <1>9, <3>1, <3>2, ChokeKept
  <2> QED  BY <2>1, <2>2, EndsFacts DEF ChokeAgrees
<1>12. InterestAgrees'
  <2>1. /\ end'[D].am_interested = end[D].am_interested
        /\ end'[U].peer_interested = end[U].peer_interested
        /\ done' = done
    BY <1>0, <1>6, <1>7, <1>9 DEF SameFlags, SameHeard
  <2>2. QuietStep(InFlight(D), InFlight(D)', "INTERESTED", "NOT_INTERESTED")
    BY Zenon, <1>0, <1>2, <1>9 DEF QuietStep
  <2> QED  BY <1>9, <2>1, <2>2, InterestKept
<1> QED  BY <1>9, <1>10, <1>11, <1>12 DEF SessionInv

\* A step that changes nothing of a session is one that notes nothing.
LEMMA NotedNothing ==
    ASSUME Types, NEW e \in Ends
    PROVE  Noted(end, end, e) /\ SameHeard(end[e], end[e]) /\ Clean(end[e])
  BY DEF Noted, SameHeard, Types

\* Sending a piece keeps the invariant.
LEMMA SendPieceInv ==
    ASSUME SessionInv, NEW s \in Subs, SendPiece(s)
    PROVE  SessionInv'
<1> DEFINE m == About("PIECE", s)
<1>0. Types /\ end \in [Ends -> Session] /\ D \in Ends /\ U \in Ends /\ D # U
  BY EndsFacts DEF SessionInv, Types
<1>1. m \in Msg /\ m.type = "PIECE"
  BY MsgFacts DEF MsgTypes
<1>2. /\ <<m>> \in Seq(Msg) /\ Talk(<<m>>, U)
      /\ Deciding(<<m>>, "CHOKE", "UNCHOKE") = {}
  <2> HIDE DEF m
  <2>1. m.type \in Speaks(U) /\ m.type # "HANDSHAKE"
    BY <1>0, <1>1 DEF Speaks
  <2> QED  BY <1>0, <1>1, <2>1, OneMessage
<1>3. Noted(end, end, U) /\ SameHeard(end[U], end[U]) /\ Clean(end[U])
  BY <1>0, NotedNothing
<1>4. posted \in [Subs -> Nat] /\ posted[s] > 0
  BY <1>0 DEF Types, SendPiece
<1>5. Live(U)
  BY <1>4 DEF SessionInv, Lives
<1>7. /\ end' = send_message(end, U, m)
      /\ UNCHANGED <<wire, reads, slot, sub_req, received, done>>
      /\ posted' = [posted EXCEPT ![s] = @ - 1]
  BY DEF SendPiece, download
<1> HIDE DEF m
<1>8. Sent(end, end', U, <<m>>)
  BY <1>0, <1>1, <1>3, <1>7, SendMessage
<1>9. /\ end' \in [Ends -> Session]
      /\ \A x \in Ends : Clean(end'[x])
      /\ \A x \in Ends : x # U => end'[x] = end[x] /\ InFlight(x)' = InFlight(x)
      /\ SameFlags(end[U], end'[U])
      /\ InFlight(U)' = InFlight(U) \o <<m>>
      /\ SameLife /\ Lives' /\ Handshakes'
  BY Zenon, <1>0, <1>2, <1>3, <1>5, <1>7, <1>8, SendKeeps
<1>10. Types'
  <2>1. posted' \in [Subs -> Nat]
    BY <1>4, <1>7
  <2> QED  BY <1>0, <1>7, <1>9, <2>1 DEF Types
<1>11. ChokeAgrees'
  <2>1. SameChokes
    BY <1>0, <1>9 DEF SameFlags, SameChokes
  <2>2. \A x \in Ends : QuietStep(InFlight(x), InFlight(x)', "CHOKE", "UNCHOKE")
    BY Zenon, <1>2, <1>9 DEF QuietStep
  <2> QED  BY <1>9, <2>1, <2>2, ChokesKept
<1>12. InterestAgrees'
  <2>1. /\ end'[D].am_interested = end[D].am_interested
        /\ end'[U].peer_interested = end[U].peer_interested
        /\ done' = done
        /\ InFlight(D)' = InFlight(D)
    BY <1>0, <1>7, <1>9 DEF SameFlags
  <2> QED  BY <1>9, <2>1, InterestKept DEF QuietStep
<1> QED  BY <1>9, <1>10, <1>11, <1>12 DEF SessionInv

\* The CANCELs of a tick: one for each late sub-block.
LEMMA Cancels ==
    ASSUME SessionInv, NEW late \in Late
    PROVE  /\ Len(late) \in Nat
           /\ [k \in DOMAIN late |-> About("CANCEL", late[k])] \in Seq(Msg)
           /\ \A k \in 1 .. Len([j \in DOMAIN late |-> About("CANCEL", late[j])]) :
                 [j \in DOMAIN late |-> About("CANCEL", late[j])][k].type = "CANCEL"
<1>1. end[D].pending_times \subseteq Subs
  BY EndsFacts DEF SessionInv, Types, Session
<1>2. PICK n \in 1 .. SubCount : late \in [1 .. n -> end[D].pending_times]
  BY DEF Late
<1>3. n \in Nat /\ late \in [1 .. n -> Subs]
  BY <1>1, <1>2, SessionAssumption
<1>4. late \in Seq(Subs) /\ Len(late) = n /\ DOMAIN late = 1 .. n
  BY <1>3
<1> DEFINE q == [k \in 1 .. n |-> About("CANCEL", late[k])]
<1>5. \A k \in 1 .. n : q[k] \in Msg /\ q[k].type = "CANCEL"
  BY <1>3, MsgFacts DEF MsgTypes
<1>6. q \in Seq(Msg) /\ Len(q) = n
  <2>1. q \in [1 .. n -> Msg]
    BY <1>5
  <2> HIDE DEF q
  <2> QED  BY <1>3, <2>1
<1>7. [k \in DOMAIN late |-> About("CANCEL", late[k])] = q
  BY <1>4
<1> HIDE DEF q
<1> QED  BY <1>3, <1>4, <1>5, <1>6, <1>7

\* A step that touches neither session nor the wire.
LEMMA SameSessions ==
    ASSUME SessionInv, UNCHANGED <<end, wire>>
    PROVE  SameLife /\ Handshakes' /\ ChokeAgrees' /\ (done' = done => InterestAgrees')
<1>1. SameLife /\ \A x \in Ends : InFlight(x)' = InFlight(x)
  BY StreamSame DEF SameLife
<1>2. Handshakes'
  BY <1>1, HandshakesKept DEF StreamStep
<1>3. ChokeAgrees'
  BY <1>1, ChokesKept DEF QuietStep, SameChokes
<1>4. done' = done => InterestAgrees'
  BY <1>1, InterestKept, EndsFacts DEF QuietStep
<1> QED  BY <1>1, <1>2, <1>3, <1>4

\* The end of the download keeps the invariant: NOT_INTERESTED is the last
\* word about interest.
LEMMA CompleteInv ==
    ASSUME SessionInv, Complete
    PROVE  SessionInv'
<1> DEFINE h == Plain("HAVE")
           m == Plain("NOT_INTERESTED")
           t == <<h, m>>
<1>0. Types /\ end \in [Ends -> Session] /\ D \in Ends /\ U \in Ends /\ D # U
  BY EndsFacts DEF SessionInv, Types
<1>1. /\ UNCHANGED <<wire, reads, posted, slot, sub_req, received>> /\ done' = TRUE
      /\ end' = IF Live(D) THEN send_all(end, D, t) ELSE end
  BY DEF Complete, upload, Live
<1>2. CASE ~Live(D)
  <2>1. end' = end /\ wire' = wire
    BY <1>1, <1>2
  <2>2. Types'
    BY Zenon, <1>0, <1>1, <2>1 DEF Types
  <2>3. SameLife /\ Handshakes' /\ ChokeAgrees'
    BY <2>1, SameSessions
  <2>4. Lives'
    BY <1>1, <2>1, <2>3, LivesKept DEF SameHeard
  <2>5. InterestAgrees'
    BY <1>2, <2>1 DEF InterestAgrees, Live
  <2> QED  BY <2>2, <2>3, <2>4, <2>5 DEF SessionInv
<1>3. CASE Live(D)
  <2>1. /\ h \in Msg /\ h.type = "HAVE"
        /\ m \in Msg /\ m.type = "NOT_INTERESTED"
    BY MsgFacts DEF MsgTypes
  <2> HIDE DEF h, m
  <2>2. /\ t \in Seq(Msg) /\ t # <<>> /\ Len(t) = 2 /\ t[1] = h /\ t[2] = m
    BY <2>1
  <2>3. Talk(t, D)
    <3>1. \A k \in 1 .. Len(t) : t[k] = h \/ t[k] = m
      BY <2>2
    <3> HIDE DEF t
    <3> QED  BY <1>0, <2>1, <3>1 DEF Talk, Speaks, HandshakesIn
  <2> HIDE DEF t
  <2>4. Noted(end, end, D) /\ SameHeard(end[D], end[D]) /\ Clean(end[D])
    BY <1>0, NotedNothing
  <2>5. Sent(end, end', D, t)
    BY <1>0, <1>1, <1>3, <2>2, <2>4, SendAll
  <2>6. /\ end' \in [Ends -> Session]
        /\ \A x \in Ends : Clean(end'[x])
        /\ \A x \in Ends : x # D => end'[x] = end[x] /\ InFlight(x)' = InFlight(x)
        /\ SameFlags(end[D], end'[D])
        /\ InFlight(D)' = InFlight(D) \o t
        /\ SameLife /\ Lives' /\ Handshakes'
    BY <1>0, <1>1, <1>3, <2>2, <2>3, <2>4, <2>5, SendKeeps
  <2>7. Types'
    BY <1>0, <1>1, <2>6 DEF Types
  <2>8. ChokeAgrees'
    <3>1. SameChokes
      BY <2>6 DEF SameFlags, SameChokes
    <3>2. Deciding(t, "CHOKE", "UNCHOKE") = {}
      <4>1. \A k \in 1 .. Len(t) : t[k] = h \/ t[k] = m
        BY <2>2
      <4> QED  BY <2>1, <4>1 DEF Deciding
    <3>3. \A x \in Ends : QuietStep(InFlight(x), InFlight(x)', "CHOKE", "UNCHOKE")
      BY Zenon, <2>2, <2>6, <3>2 DEF QuietStep
    <3> QED  BY <2>6, <3>1, <3>3, ChokesKept
  <2>9. InterestAgrees'
    <3>1. t[Len(t)].type = "NOT_INTERESTED"
      BY <2>1, <2>2
    <3>2. (end'[D].am_interested /\ ~done') = (t[Len(t)].type = "INTERESTED")
      BY <1>1, <3>1
    <3> QED  BY Zenon, <1>0, <2>2, <2>6, <3>1, <3>2, InterestSaid
  <2> QED  BY <2>6, <2>7, <2>8, <2>9 DEF SessionInv
<1> QED  BY <1>2, <1>3

\* A thread of FileReadPool keeps the invariant.
LEMMA ReadDoneInv ==
    ASSUME SessionInv, NEW s \in Subs, ReadDone(s)
    PROVE  SessionInv'
<1>1. /\ reads[s] > 0
      /\ reads' = [reads EXCEPT ![s] = @ - 1]
      /\ posted' = [posted EXCEPT ![s] = @ + 1]
      /\ UNCHANGED <<end, wire, slot, sub_req, received, done>>
  BY DEF ReadDone, download
<1>2. Types /\ reads \in [Subs -> Nat] /\ posted \in [Subs -> Nat]
  BY DEF SessionInv, Types
<1>3. Types'
  <2>1. reads' \in [Subs -> Nat] /\ posted' \in [Subs -> Nat]
    BY <1>1, <1>2
  <2> QED  BY <1>1, <1>2, <2>1 DEF Types
<1>4. Live(U)
  BY <1>1, <1>2 DEF SessionInv, Lives
<1>5. Lives'
  BY <1>1, <1>4 DEF SessionInv, Lives, Live
<1>6. Handshakes' /\ ChokeAgrees' /\ InterestAgrees'
  BY <1>1, SameSessions
<1> QED  BY <1>3, <1>5, <1>6 DEF SessionInv

\* A thread whose read failed keeps the invariant.
LEMMA ReadFailsInv ==
    ASSUME SessionInv, NEW s \in Subs, ReadFails(s)
    PROVE  SessionInv'
<1>1. /\ reads[s] > 0
      /\ reads' = [reads EXCEPT ![s] = @ - 1]
      /\ UNCHANGED <<end, wire, posted, slot, sub_req, received, done>>
  BY DEF ReadFails, download
<1>2. Types /\ reads \in [Subs -> Nat]
  BY DEF SessionInv, Types
<1>3. Types'
  <2>1. reads' \in [Subs -> Nat]
    BY <1>1, <1>2
  <2> QED  BY <1>1, <1>2, <2>1 DEF Types
<1>4. Live(U)
  BY <1>1, <1>2 DEF SessionInv, Lives
<1>5. Lives'
  BY <1>1, <1>4 DEF SessionInv, Lives, Live
<1>6. Handshakes' /\ ChokeAgrees' /\ InterestAgrees'
  BY <1>1, SameSessions
<1> QED  BY <1>3, <1>5, <1>6 DEF SessionInv

\* disconnect at e, with what is on the wire left to be read.
LEMMA DropInv ==
    ASSUME SessionInv, NEW e \in Ends, Live(e), Drop(e),
           wire' = wire \/ (/\ NoDial /\ wire[Other(e)] # <<>>
                            /\ wire' = [wire EXCEPT ![Other(e)] = Tail(@)])
    PROVE  SessionInv'
<1> DEFINE o == Other(e)
<1>0. /\ Types /\ end \in [Ends -> Session] /\ wire \in [Ends -> Seq(Msg)]
      /\ e \in Ends /\ o \in Ends /\ o # e /\ Other(o) = e
      /\ \A x \in Ends : x = e \/ x = o
  BY EndsFacts DEF SessionInv, Types
<1>1. /\ end' = [end EXCEPT ![e] = NoSession] /\ UNCHANGED <<received, done>>
      /\ e = D => /\ slot' = NoSlot
                  /\ sub_req' = IF done THEN sub_req ELSE sub_req \ end[D].pending_times
                  /\ UNCHANGED <<reads, posted>>
      /\ e # D => /\ reads' = [s \in Subs |-> 0] /\ posted' = [s \in Subs |-> 0]
                  /\ UNCHANGED <<slot, sub_req>>
  BY DEF Drop, upload
<1> HIDE DEF o
<1>2. end'[e] = NoSession /\ end'[o] = end[o] /\ ~Live(e)' /\ Live(o)' = Live(o)
  BY <1>0, <1>1 DEF Live, NoSession, NewSession
<1>3. /\ wire'[e] = wire[e]
      /\ wire'[o] = wire[o] \/ (wire[o] # <<>> /\ wire'[o] = Tail(wire[o]))
      /\ wire' \in [Ends -> Seq(Msg)]
  <2>1. CASE wire' = wire
    BY <1>0, <2>1
  <2>2. CASE wire[o] # <<>> /\ wire' = [wire EXCEPT ![o] = Tail(@)]
    <3>1. wire[o] \in Seq(Msg) /\ Tail(wire[o]) \in Seq(Msg)
      BY <1>0, <2>2
    <3> QED  BY <1>0, <2>2, <3>1
  <2> QED  BY <2>1, <2>2 DEF o
<1>4. Types'
  <2>1. end' \in [Ends -> Session] /\ \A x \in Ends : Clean(end'[x])
    BY <1>0, <1>1, <1>2, SessionTypes DEF Types
  <2>2. reads' \in [Subs -> Nat] /\ posted' \in [Subs -> Nat]
    <3>1. reads \in [Subs -> Nat] /\ posted \in [Subs -> Nat]
      BY <1>0 DEF Types
    <3> QED  BY <1>1, <3>1
  <2>3. slot' \in [has : BOOLEAN, pending_requests : 0 .. PipelineCap,
                   consecutive_timeouts : Nat]
    BY <1>0, <1>1, SlotTypes, Zenon DEF Types
  <2>4. sub_req' \subseteq Subs /\ received' \subseteq Subs /\ done' \in BOOLEAN
    BY <1>0, <1>1 DEF Types
  <2> QED  BY <1>3, <2>1, <2>2, <2>3, <2>4 DEF Types
<1>5. Lives'
  <2>1. \A x \in Ends : ~Live(x)' => end'[x] = NoSession
    BY <1>0, <1>2 DEF SessionInv, Lives
  <2>2. ~Live(U)' => \A s \in Subs : reads'[s] = 0 /\ posted'[s] = 0
    <3>1. CASE e = D
      BY <1>0, <1>1, <1>2, <3>1, EndsFacts DEF SessionInv, Lives
    <3>2. CASE e # D
      BY <1>1, <3>2
    <3> QED  BY <3>1, <3>2
  <2>3. ASSUME NEW x \in Ends, Live(x)', ~end'[x].connected
        PROVE  /\ end'[x].state = "HANDSHAKE"
               /\ ~end'[x].handshake_sent
               /\ ~Live(Other(x))'
               /\ end'[x].peer_choking_me /\ ~end'[x].peer_interested
               /\ wire'[D] = <<>> /\ wire'[U] = <<>>
    <3>1. x = o /\ Live(o) /\ ~end[o].connected
      BY <1>0, <1>2, <2>3
    <3>2. ~Live(e)
      BY <1>0, <3>1 DEF SessionInv, Lives
    <3> QED  BY <3>2
  <2> QED  BY <2>1, <2>2, <2>3 DEF Lives, Live
<1>6. ChokeAgrees'
  <2> SUFFICES ASSUME NEW x \in Ends, Live(x)'
               PROVE  ChokeTold(x)'
    BY DEF ChokeAgrees, ChokeTold, Live
  <2>1. x = o /\ ~Live(Other(x))' /\ Live(x) /\ end'[x] = end[x]
    BY <1>0, <1>2
  <2>2. end'[x].connected
    BY <1>0, <2>1 DEF SessionInv, Lives
  <2> QED  BY <2>1, <2>2 DEF ChokeTold, Live
<1>7. InterestAgrees'
  <2>1. Live(D)' => D = o /\ ~Live(U)' /\ Live(D) /\ end'[D] = end[D]
    BY <1>0, <1>2, EndsFacts
  <2>2. Live(D)' => end'[D].connected
    BY <1>0, <2>1 DEF SessionInv, Lives
  <2> QED  BY <2>1, <2>2 DEF InterestAgrees, Live
<1>8. Handshakes'
  <2> DEFINE s == InFlight(e)
             w == wire[e]
             S == InFlight(o)
             N == InFlight(o)'
  <2>1. InFlight(e)' = w
    <3>1. end'[e].writing = <<>> /\ end'[e].write_queue = <<>>
      BY <1>2 DEF NoSession, NewSession
    <3>2. (w \o <<>>) \o <<>> = w /\ w \in Seq(Msg)
      BY <1>0
    <3> QED  BY <1>3, <3>1, <3>2, Zenon DEF InFlight
  <2>2. /\ s \in Seq(Msg) /\ w \in Seq(Msg)
        /\ \A k \in 1 .. Len(w) : k \in 1 .. Len(s) /\ w[k] = s[k]
    <3>1. /\ w \in Seq(Msg) /\ end[e].writing \in Seq(Msg)
          /\ end[e].write_queue \in Seq(Msg)
      BY <1>0, InFlightType
    <3>2. s \in Seq(Msg)
      BY <1>0, InFlightType
    <3>3. \A a, b \in Seq(Msg), k \in 1 .. Len(w) :
              k \in 1 .. Len((w \o a) \o b) /\ ((w \o a) \o b)[k] = w[k]
      <4>1. ASSUME NEW v \in Seq(Msg), NEW a \in Seq(Msg), NEW b \in Seq(Msg),
                   NEW k \in 1 .. Len(v)
            PROVE  k \in 1 .. Len((v \o a) \o b) /\ ((v \o a) \o b)[k] = v[k]
        <5>1. v \o a \in Seq(Msg) /\ k \in 1 .. Len(v \o a) /\ (v \o a)[k] = v[k]
          BY ConcatAt
        <5> HIDE DEF w, s
        <5> QED  BY <5>1, ConcatAt
      <4> HIDE DEF w
      <4> QED  BY <3>1, <4>1
    <3> QED  BY Zenon, <3>1, <3>2, <3>3 DEF InFlight
  <2>3. HandshakesIn(w) \subseteq HandshakesIn(s)
    <3> HIDE DEF w, s
    <3> QED  BY <2>2 DEF HandshakesIn
  <2>4. /\ S \in Seq(Msg)
        /\ N = S \/ (S # <<>> /\ N = Tail(S))
    <3>1. S \in Seq(Msg)
      BY <1>0, InFlightType
    <3>2. CASE wire'[o] = wire[o]
      BY <1>2, <3>1, <3>2 DEF InFlight
    <3>3. CASE wire[o] # <<>> /\ wire'[o] = Tail(wire[o])
      <4>1. S # <<>> /\ N = Tail(S)
        BY Zenon, <1>0, <1>2, <3>3, StreamTaken
      <4> QED  BY <3>1, <4>1
    <3> QED  BY <1>3, <3>2, <3>3
  <2>5. /\ \A k \in 1 .. Len(s) : s[k].type \in Speaks(e)
        /\ \A j, k \in HandshakesIn(s) : j = k
        /\ end[o].state = "CONNECTED" => HandshakesIn(s) = {}
        /\ \A k \in 1 .. Len(S) : S[k].type \in Speaks(o)
        /\ \A j, k \in HandshakesIn(S) : j = k
        /\ Live(o) /\ ~end[o].handshake_sent => HandshakesIn(S) = {}
    BY Zenon, <1>0 DEF SessionInv, Handshakes, o
  <2>6. end'[o] = end[o] /\ end'[e].state = "DISCONNECTED"
    BY <1>2 DEF Live
  <2> HIDE DEF s, w, S, N
  <2>7. StreamStep(S, N, o)
    BY <2>4 DEF StreamStep
  <2>8. /\ \A k \in 1 .. Len(N) : N[k].type \in Speaks(o)
        /\ \A j, k \in HandshakesIn(N) : j = k
        /\ HandshakesIn(S) = {} => HandshakesIn(N) = {}
    BY <1>0, <2>4, <2>5, <2>7, StreamKept
  <2>9. /\ \A k \in 1 .. Len(w) : w[k].type \in Speaks(e)
        /\ \A j, k \in HandshakesIn(w) : j = k
        /\ end'[o].state = "CONNECTED" => HandshakesIn(w) = {}
    BY <2>2, <2>3, <2>5, <2>6
  <2> SUFFICES ASSUME NEW x \in Ends
               PROVE  /\ \A k \in 1 .. Len(InFlight(x)') : InFlight(x)'[k].type \in Speaks(x)
                      /\ \A j, k \in HandshakesIn(InFlight(x)') : j = k
                      /\ Live(x)' /\ ~end'[x].handshake_sent
                            => HandshakesIn(InFlight(x)') = {}
                      /\ end'[Other(x)].state = "CONNECTED" =>
                            /\ HandshakesIn(InFlight(x)') = {}
                            /\ Live(x)' => end'[x].handshake_sent
    BY DEF Handshakes, HandshakesIn, Speaks
  <2>10. CASE x = e
    BY <1>2, <2>1, <2>9, <2>10 DEF o
  <2>11. CASE x = o
    BY <1>0, <1>2, <2>5, <2>6, <2>8, <2>11 DEF N
  <2> QED  BY Zenon, <1>0, <2>10, <2>11
<1> QED  BY <1>4, <1>5, <1>6, <1>7, <1>8 DEF SessionInv

\* A broken connection keeps the invariant.
LEMMA BreakInv ==
    ASSUME SessionInv, NEW e \in Ends, Break(e) \/ Error(e)
    PROVE  SessionInv'
<1>1. Live(e) /\ Drop(e) /\ wire' = wire
  BY DEF Break, Error, Live
<1> QED  BY <1>1, DropInv

\* The tick that looks for late requests keeps the invariant.
LEMMA EvalTickInv ==
    ASSUME SessionInv, NEW late \in Late, EvalTick(late)
    PROVE  SessionInv'
<1> DEFINE n == end[D].consecutive_timeouts + Len(late)
           E == [end EXCEPT ![D].pending_times = @ \ Range(late)]
           t == [k \in DOMAIN late |-> About("CANCEL", late[k])]
           F == send_all(E, D, t)
           G == [E EXCEPT ![D].consecutive_timeouts = n]
<1>0. Types /\ end \in [Ends -> Session] /\ D \in Ends /\ U \in Ends /\ D # U
  BY EndsFacts DEF SessionInv, Types
<1>1. Live(D) /\ wire' = wire
  BY DEF EvalTick, Live
<1>2. CASE n >= TimeoutLimit
  <2>1. Drop(D)
    BY <1>2 DEF EvalTick
  <2> QED  BY <1>0, <1>1, <2>1, DropInv
<1>3. CASE ~(n >= TimeoutLimit)
  <2>1. /\ end' = [F EXCEPT ![D].consecutive_timeouts = n]
        /\ slot' = [slot EXCEPT !.consecutive_timeouts = n]
        /\ sub_req' = IF done THEN sub_req ELSE sub_req \ Range(late)
        /\ UNCHANGED <<reads, posted, received, done>>
    BY Zenon, <1>3 DEF EvalTick, upload
  <2>2. end[D] \in Session /\ end[D].pending_times \ Range(late) \in SUBSET Subs
        /\ end[D].consecutive_timeouts \in Nat
    BY <1>0 DEF Session
  <2>3. /\ Len(late) \in Nat
        /\ t \in Seq(Msg)
        /\ \A k \in 1 .. Len(t) : t[k].type = "CANCEL"
    BY Cancels
  <2>4. n \in Nat
    BY <2>2, <2>3
  <2> HIDE DEF n, t
  <2>5. /\ Talk(t, D) /\ Deciding(t, "INTERESTED", "NOT_INTERESTED") = {}
        /\ Deciding(t, "CHOKE", "UNCHOKE") = {}
    BY <1>0, <2>3 DEF Talk, Speaks, HandshakesIn, Deciding
  <2>6. /\ E[D] = [end[D] EXCEPT !.pending_times = end[D].pending_times \ Range(late)]
        /\ \A x \in Ends : x # D => E[x] = end[x]
    BY <1>0
  <2>7. E[D] \in Session /\ E \in [Ends -> Session]
    <3>1. E[D] \in Session
      <4>1. \A p \in SUBSET Subs : [end[D] EXCEPT !.pending_times = p] \in Session
        BY Zenon, <2>2, SessionUpdates
      <4> HIDE DEF E
      <4> QED  BY <2>2, <2>6, <4>1, Zenon
    <3> QED  BY <1>0, <3>1
  <2> HIDE DEF E
  <2>8. /\ Noted(end, E, D) /\ Clean(E[D]) /\ SameHeard(end[D], E[D])
        /\ E[D].peer_choking_me = end[D].peer_choking_me
        /\ E[D].choking_peer = end[D].choking_peer
        /\ E[D].am_interested = end[D].am_interested
    <3>1. /\ Noted(end, E, D) /\ SameHeard(end[D], E[D])
          /\ E[D].peer_choking_me = end[D].peer_choking_me
          /\ E[D].choking_peer = end[D].choking_peer
          /\ E[D].am_interested = end[D].am_interested
      BY Zenon, <1>0, <2>2, <2>6, <2>7 DEF Noted, SameHeard, Session
    <3> QED  BY <1>0, <3>1 DEF Types, Clean, Noted
  <2>9. /\ G[D] = [E[D] EXCEPT !.consecutive_timeouts = n]
        /\ \A x \in Ends : x # D => G[x] = E[x]
    BY <1>0, <2>7
  <2>10. G[D] \in Session /\ G \in [Ends -> Session]
    <3>1. G[D] \in Session
      BY Zenon, <2>4, <2>7, <2>9, SessionUpdates
    <3> QED  BY <1>0, <2>7, <3>1
  <2> HIDE DEF G
  <2>11. /\ Noted(end, G, D) /\ SameHeard(end[D], G[D])
         /\ G[D].peer_choking_me = end[D].peer_choking_me
         /\ G[D].choking_peer = end[D].choking_peer
         /\ G[D].am_interested = end[D].am_interested
    <3>1. /\ Noted(E, G, D) /\ SameHeard(E[D], G[D])
          /\ G[D].peer_choking_me = E[D].peer_choking_me
          /\ G[D].choking_peer = E[D].choking_peer
          /\ G[D].am_interested = E[D].am_interested
      BY Zenon, <1>0, <2>7, <2>9, <2>10 DEF Noted, SameHeard, Session
    <3> QED  BY Zenon, <2>8, <3>1 DEF Noted, SameHeard
  <2>12. Sent(E, F, D, t)
    BY Zenon, <1>0, <2>3, <2>7, <2>8, SendAll
  <2> HIDE DEF F
  <2>13. F \in [Ends -> Session] /\ F[D] \in Session
    BY <1>0, <2>12 DEF Sent
  <2>14. /\ end'[D] = [F[D] EXCEPT !.consecutive_timeouts = n]
         /\ \A x \in Ends : x # D => end'[x] = F[x]
    BY <1>0, <2>1, <2>13
  <2>15. end'[D] \in Session /\ end' \in [Ends -> Session]
    <3>1. end'[D] \in Session
      BY Zenon, <2>4, <2>13, <2>14, SessionUpdates
    <3> QED  BY <1>0, <2>1, <2>13, <3>1
  <2>16. Sent(G, end', D, t)
    <3>1. /\ SameFlags(G[D], end'[D])
      <4>1. /\ SameFlags(E[D], F[D])
        BY <2>12 DEF Sent
      <4> QED  BY <2>7, <2>9, <2>13, <2>14, <4>1 DEF SameFlags, Session
    <3>2. /\ end'[D].writing = F[D].writing
          /\ end'[D].write_queue = F[D].write_queue
          /\ end'[D].is_writing = F[D].is_writing
          /\ G[D].writing = E[D].writing
          /\ G[D].write_queue = E[D].write_queue
      BY <2>7, <2>9, <2>13, <2>14 DEF Session
    <3>3. /\ Clean(F[D])
          /\ F[D].writing \o F[D].write_queue = (E[D].writing \o E[D].write_queue) \o t
          /\ \A x \in Ends : x # D => F[x] = E[x]
      BY <2>12 DEF Sent
    <3>4. Clean(end'[D])
      BY Zenon, <3>2, <3>3 DEF Clean
    <3>5. \A x \in Ends : x # D => end'[x] = G[x]
      BY <2>9, <2>14, <3>3
    <3>6. end'[D].writing \o end'[D].write_queue = (G[D].writing \o G[D].write_queue) \o t
      BY <3>2, <3>3, Zenon
    <3> QED  BY <2>15, <3>1, <3>4, <3>5, <3>6 DEF Sent
  <2>17. /\ end' \in [Ends -> Session]
         /\ \A x \in Ends : Clean(end'[x])
         /\ \A x \in Ends : x # D => end'[x] = end[x] /\ InFlight(x)' = InFlight(x)
         /\ SameFlags(G[D], end'[D])
         /\ InFlight(D)' = InFlight(D) \o t
         /\ SameLife /\ Lives' /\ Handshakes'
    BY Zenon, <1>0, <1>1, <2>1, <2>3, <2>5, <2>11, <2>16, SendKeeps
  <2>18. Types'
    <3>1. slot' \in [has : BOOLEAN, pending_requests : 0 .. PipelineCap,
                     consecutive_timeouts : Nat]
      BY Zenon, <1>0, <2>1, <2>4 DEF Types
    <3> QED  BY Zenon, <1>0, <1>1, <2>1, <2>17, <3>1 DEF Types
  <2>19. ChokeAgrees'
    <3>1. SameChokes
      BY <2>11, <2>17 DEF SameFlags, SameChokes
    <3>2. \A x \in Ends : QuietStep(InFlight(x), InFlight(x)', "CHOKE", "UNCHOKE")
      BY Zenon, <2>3, <2>5, <2>17 DEF QuietStep
    <3> QED  BY Zenon, <2>17, <3>1, <3>2, ChokesKept
  <2>20. InterestAgrees'
    <3>1. /\ end'[D].am_interested = end[D].am_interested
          /\ end'[U].peer_interested = end[U].peer_interested
          /\ done' = done
      BY <1>0, <2>1, <2>11, <2>17 DEF SameFlags
    <3>2. QuietStep(InFlight(D), InFlight(D)', "INTERESTED", "NOT_INTERESTED")
      BY Zenon, <2>3, <2>5, <2>17 DEF QuietStep
    <3> QED  BY Zenon, <2>17, <3>1, <3>2, InterestKept
  <2> QED  BY <2>17, <2>18, <2>19, <2>20 DEF SessionInv
<1> QED  BY <1>2, <1>3

\* What a step keeps that handles a message from the other end and may queue
\* an answer.
LEMMA ReadKeeps ==
    ASSUME SessionInv, NEW e \in Ends, Live(e),
           NEW E, NEW msgs \in Seq(Msg), Noted(end, E, e),
           Sent(E, end', e, msgs),
           Talk(msgs, e),
           wire[Other(e)] # <<>>,
           wire' = [wire EXCEPT ![Other(e)] = Tail(@)],
           ~Live(U) => UNCHANGED <<reads, posted>>
    PROVE  /\ end' \in [Ends -> Session] /\ wire' \in [Ends -> Seq(Msg)]
           /\ \A x \in Ends : Clean(end'[x])
           /\ end'[Other(e)] = end[Other(e)]
           /\ SameFlags(E[e], end'[e])
           /\ InFlight(e)' = InFlight(e) \o msgs
           /\ InFlight(Other(e)) # <<>>
           /\ Head(InFlight(Other(e))) = Head(wire[Other(e)])
           /\ InFlight(Other(e))' = Tail(InFlight(Other(e)))
           /\ SameLife /\ Lives' /\ Handshakes'
<1> DEFINE o == Other(e)
<1>0. /\ Types /\ E \in [Ends -> Session] /\ wire \in [Ends -> Seq(Msg)]
      /\ o \in Ends /\ o # e /\ \A x \in Ends : x = e \/ x = o
  <2>1. Types /\ wire \in [Ends -> Seq(Msg)]
    BY DEF SessionInv, Types
  <2>2. E \in [Ends -> Session]
    BY Zenon DEF Noted
  <2> QED  BY Zenon, <2>1, <2>2, EndsFacts
<1>1. /\ end' \in [Ends -> Session]
      /\ \A x \in Ends : x # e => end'[x] = end[x]
      /\ SameFlags(E[e], end'[e])
      /\ Clean(end'[e])
  BY DEF Sent, Noted
<1>2. \A x \in Ends : Clean(end'[x])
  BY Zenon, <1>0, <1>1 DEF Types
<1>3. /\ wire' \in [Ends -> Seq(Msg)] /\ wire'[e] = wire[e]
      /\ wire[o] # <<>> /\ wire'[o] = Tail(wire[o])
  <2>1. wire[o] \in Seq(Msg) /\ Tail(wire[o]) \in Seq(Msg)
    BY <1>0
  <2> QED  BY <1>0, <2>1
<1> HIDE DEF o
<1>4. InFlight(e)' = InFlight(e) \o msgs
  BY Zenon, <1>0, <1>3, StreamSent DEF Noted
<1>5. /\ InFlight(o) # <<>> /\ Head(InFlight(o)) = Head(wire[o])
      /\ InFlight(o)' = Tail(InFlight(o))
  BY Zenon, <1>0, <1>1, <1>3, StreamTaken
<1>6. SameLife
  BY <1>1 DEF SameLife, SameFlags, Noted
<1>7. Lives'
  BY Zenon, <1>0, <1>1, <1>3, <1>6, ConnectedFacts, LivesKept
<1>8. \A x \in Ends : StreamStep(InFlight(x), InFlight(x)', x)
  BY Zenon, <1>0, <1>4, <1>5 DEF StreamStep
<1>9. Handshakes'
  BY <1>6, <1>8, HandshakesKept
<1> QED  BY <1>0, <1>1, <1>2, <1>3, <1>4, <1>5, <1>6, <1>7, <1>9 DEF o

\* A step that only notes something queues nothing.
LEMMA SentNothing ==
    ASSUME NEW e \in Ends, NEW E \in [Ends -> Session], Clean(E[e])
    PROVE  /\ Sent(E, E, e, <<>>) /\ Talk(<<>>, e) /\ <<>> \in Seq(Msg)
           /\ \A on, off : Deciding(<<>>, on, off) = {}
<1>1. E[e].writing \in Seq(Msg) /\ E[e].write_queue \in Seq(Msg) /\ <<>> \in Seq(Msg)
  BY DEF Session
<1>2. \A a, q \in Seq(Msg) : (a \o q) \o <<>> = a \o q
  <2>1. \A a, q \in Seq(Msg) : a \o q \in Seq(Msg)
    OBVIOUS
  <2> QED  BY <2>1
<1>3. Sent(E, E, e, <<>>)
  BY <1>1, <1>2 DEF Sent, SameFlags
<1>4. Talk(<<>>, e) /\ \A on, off : Deciding(<<>>, on, off) = {}
  BY DEF Talk, HandshakesIn, Deciding
<1> QED  BY <1>1, <1>3, <1>4

\* The message an end reads belongs to the part of the other end; a CONNECTED
\* end reads no handshake.
LEMMA FrontMessage ==
    ASSUME SessionInv, NEW e \in Ends, wire[e] # <<>>
    PROVE  /\ Head(wire[e]) \in Msg
           /\ Head(wire[e]).type \in Speaks(e)
           /\ end[Other(e)].state = "CONNECTED" => Head(wire[e]).type # "HANDSHAKE"
<1> DEFINE s == InFlight(e)
<1>1. s \in Seq(Msg) /\ s # <<>> /\ Head(s) = Head(wire[e])
  BY Zenon, InFlightType, StreamFront DEF SessionInv
<1>2. /\ \A k \in 1 .. Len(s) : s[k].type \in Speaks(e)
      /\ end[Other(e)].state = "CONNECTED" => HandshakesIn(s) = {}
  BY DEF SessionInv, Handshakes
<1> HIDE DEF s
<1>3. 1 \in 1 .. Len(s) /\ s[1] = Head(s) /\ s[1] \in Msg
  BY <1>1
<1> QED  BY <1>1, <1>2, <1>3 DEF HandshakesIn

\* The choke agreement of an end after the other has handled a message of it.
LEMMA ChokeRead ==
    ASSUME SessionInv, SameLife, NEW e \in Ends,
           InFlight(e) # <<>>, InFlight(e)' = Tail(InFlight(e)),
           end'[e].choking_peer = end[e].choking_peer,
           end'[Other(e)].peer_choking_me =
               IF Head(InFlight(e)).type = "CHOKE" THEN TRUE
               ELSE IF Head(InFlight(e)).type = "UNCHOKE" THEN FALSE
               ELSE end[Other(e)].peer_choking_me
    PROVE  ChokeTold(e)'
<1> DEFINE o == Other(e)
<1>1. InFlight(e) \in Seq(Msg)
  BY InFlightType DEF SessionInv
<1>2. /\ Live(e)' = Live(e) /\ Live(o)' = Live(o)
      /\ end'[e].connected = end[e].connected
  BY EndsFacts DEF SameLife, Live
<1> SUFFICES ASSUME Live(e), Live(o) \/ ~end[e].connected
             PROVE  Settles(end'[o].peer_choking_me, InFlight(e)', "CHOKE", "UNCHOKE",
                            end'[e].choking_peer)
  BY Zenon, <1>2 DEF ChokeTold, Settles, Deciding
<1>3. Settles(end[o].peer_choking_me, InFlight(e), "CHOKE", "UNCHOKE",
              end[e].choking_peer)
  BY Zenon DEF SessionInv, ChokeAgrees, ChokeTold
<1>4. Settles(end'[o].peer_choking_me, Tail(InFlight(e)), "CHOKE", "UNCHOKE",
              end[e].choking_peer)
  BY Zenon, <1>1, <1>3, SettlesRead
<1> QED  BY Zenon, <1>4

\* The interest agreement after U has handled a message.
LEMMA InterestRead ==
    ASSUME SessionInv, SameLife, InFlight(D) # <<>>, InFlight(D)' = Tail(InFlight(D)),
           end'[D].am_interested = end[D].am_interested, done' = done,
           end'[U].peer_interested =
               IF Head(InFlight(D)).type = "INTERESTED" THEN TRUE
               ELSE IF Head(InFlight(D)).type = "NOT_INTERESTED" THEN FALSE
               ELSE end[U].peer_interested
    PROVE  InterestAgrees'
<1>1. InFlight(D) \in Seq(Msg)
  BY EndsFacts, InFlightType DEF SessionInv
<1>2. /\ Live(U)' = Live(U) /\ Live(D)' = Live(D)
      /\ end'[D].connected = end[D].connected
  BY EndsFacts DEF SameLife, Live
<1> SUFFICES ASSUME Live(D), Live(U) \/ ~end[D].connected
             PROVE  Settles(end'[U].peer_interested, InFlight(D)',
                            "INTERESTED", "NOT_INTERESTED",
                            end'[D].am_interested /\ ~done')
  BY Zenon, <1>2 DEF InterestAgrees, Settles, Deciding
<1>3. Settles(end[U].peer_interested, InFlight(D), "INTERESTED", "NOT_INTERESTED",
              end[D].am_interested /\ ~done)
  BY Zenon DEF SessionInv, InterestAgrees
<1>4. Settles(end'[U].peer_interested, Tail(InFlight(D)), "INTERESTED", "NOT_INTERESTED",
              end[D].am_interested /\ ~done)
  BY Zenon, <1>1, <1>3, SettlesRead
<1> QED  BY Zenon, <1>4

\* What D does with a message: it notes it in its session, giving G, and queues
\* msgs, nothing or a word about its interest.
DownloaderSaid(G, F, msgs, choked) ==
    /\ msgs \in Seq(Msg) /\ Noted(end, G, D) /\ Sent(G, F, D, msgs) /\ Talk(msgs, D)
    /\ Deciding(msgs, "CHOKE", "UNCHOKE") = {}
    /\ G[D].peer_choking_me = choked
    /\ G[D].choking_peer = end[D].choking_peer
    /\ \/ /\ msgs = <<>> /\ G[D].am_interested = end[D].am_interested
       \/ /\ msgs = <<Plain("INTERESTED")>> /\ ~done /\ G[D].am_interested = TRUE
       \/ /\ msgs = <<Plain("NOT_INTERESTED")>> /\ done /\ G[D].am_interested = FALSE

\* A message that is only noted.
LEMMA DownloaderNotes ==
    ASSUME SessionInv, NEW E, Noted(end, E, D), NEW c, E[D].peer_choking_me = c,
           E[D].choking_peer = end[D].choking_peer,
           E[D].am_interested = end[D].am_interested
    PROVE  DownloaderSaid(E, E, <<>>, c) /\ Clean(E[D])
<1>1. E \in [Ends -> Session] /\ D \in Ends /\ Clean(E[D])
  BY EndsFacts DEF SessionInv, Types, Noted, Clean
<1> QED  BY <1>1, SentNothing DEF DownloaderSaid

\* D changes its mind about its interest and says so.
LEMMA DownloaderSays ==
    ASSUME SessionInv, NEW E, Noted(end, E, D), NEW c, E[D].peer_choking_me = c,
           E[D].choking_peer = end[D].choking_peer, Clean(E[D]),
           NEW b \in BOOLEAN, NEW w \in {"INTERESTED", "NOT_INTERESTED"}
    PROVE  LET G == [E EXCEPT ![D].am_interested = b]
               m == Plain(w)
           IN  /\ <<m>> \in Seq(Msg) /\ Noted(end, G, D)
               /\ Sent(G, send_message(G, D, m), D, <<m>>) /\ Talk(<<m>>, D)
               /\ Deciding(<<m>>, "CHOKE", "UNCHOKE") = {}
               /\ G[D].peer_choking_me = c
               /\ G[D].choking_peer = end[D].choking_peer
               /\ G[D].am_interested = b
<1> DEFINE G == [E EXCEPT ![D].am_interested = b]
           m == Plain(w)
<1>1. m \in Msg /\ m.type = w
  BY MsgFacts DEF MsgTypes
<1>2. E \in [Ends -> Session] /\ D \in Ends /\ E[D] \in Session
  BY EndsFacts DEF Noted
<1>3. /\ G[D] = [E[D] EXCEPT !.am_interested = b]
      /\ \A x \in Ends : x # D => G[x] = E[x]
  BY <1>2
<1>4. G[D] \in Session /\ G \in [Ends -> Session]
  <2>1. G[D] \in Session
    BY Zenon, <1>2, <1>3, SessionUpdates
  <2> QED  BY <1>2, <2>1
<1> HIDE DEF G, m
<1>5. /\ Noted(E, G, D) /\ G[D].am_interested = b
      /\ G[D].peer_choking_me = c /\ G[D].choking_peer = end[D].choking_peer
  BY <1>2, <1>3, <1>4 DEF Noted, Session
<1>6. Noted(end, G, D)
  BY <1>5 DEF Noted
<1>7. Clean(G[D])
  BY <1>5 DEF Clean, Noted
<1>8. Sent(G, send_message(G, D, m), D, <<m>>)
  BY <1>1, <1>2, <1>4, <1>7, SendMessage
<1>9. /\ <<m>> \in Seq(Msg) /\ Talk(<<m>>, D)
      /\ Deciding(<<m>>, "CHOKE", "UNCHOKE") = {}
  BY <1>1, OneMessage DEF Speaks
<1> QED  BY Zenon, <1>5, <1>6, <1>8, <1>9 DEF G, m

\* A message after which D may become interested.
LEMMA DownloaderWants ==
    ASSUME SessionInv, NEW E, Noted(end, E, D), NEW c, E[D].peer_choking_me = c,
           E[D].choking_peer = end[D].choking_peer,
           E[D].am_interested = end[D].am_interested
    PROVE  /\ ~done => \E G, msgs : DownloaderSaid(G, send_interested(E, D), msgs, c)
           /\ done => \E G, msgs : DownloaderSaid(G, send_not_interested(E, D), msgs, c)
<1>1. DownloaderSaid(E, E, <<>>, c) /\ Clean(E[D])
  BY DownloaderNotes
<1>2. ASSUME ~done
      PROVE  \E G, msgs : DownloaderSaid(G, send_interested(E, D), msgs, c)
  <2> DEFINE G == [E EXCEPT ![D].am_interested = TRUE]
             m == Plain("INTERESTED")
  <2>1. send_interested(E, D) = IF E[D].am_interested THEN E ELSE send_message(G, D, m)
    BY Zenon DEF send_interested
  <2>2. DownloaderSaid(G, send_message(G, D, m), <<m>>, c)
    BY Zenon, <1>1, <1>2, DownloaderSays DEF DownloaderSaid
  <2> HIDE DEF G, m
  <2> QED  BY Zenon, <1>1, <2>1, <2>2
<1>3. ASSUME done
      PROVE  \E G, msgs : DownloaderSaid(G, send_not_interested(E, D), msgs, c)
  <2> DEFINE G == [E EXCEPT ![D].am_interested = FALSE]
             m == Plain("NOT_INTERESTED")
  <2>1. send_not_interested(E, D) = IF ~E[D].am_interested THEN E ELSE send_message(G, D, m)
    BY Zenon DEF send_not_interested
  <2>2. DownloaderSaid(G, send_message(G, D, m), <<m>>, c)
    BY Zenon, <1>1, <1>3, DownloaderSays DEF DownloaderSaid
  <2> HIDE DEF G, m
  <2> QED  BY Zenon, <1>1, <2>1, <2>2
<1> QED  BY <1>2, <1>3

\* D handles a message.
LEMMA DownloaderReads ==
    ASSUME SessionInv, DownloaderMsg
    PROVE  \E G, msgs :
              DownloaderSaid(G, end', msgs,
                             IF Head(wire[U]).type = "CHOKE" THEN TRUE
                             ELSE IF Head(wire[U]).type = "UNCHOKE" THEN FALSE
                             ELSE end[D].peer_choking_me)
<1> DEFINE m == Head(wire[U])
           c == IF m.type = "CHOKE" THEN TRUE
                ELSE IF m.type = "UNCHOKE" THEN FALSE ELSE end[D].peer_choking_me
<1>0. /\ Types /\ end \in [Ends -> Session] /\ D \in Ends /\ end[D] \in Session
      /\ U \in Ends /\ D # U /\ Other(U) = D
  BY EndsFacts DEF SessionInv, Types
<1>1. end[D].state = "CONNECTED" /\ wire[U] # <<>>
  BY DEF DownloaderMsg
<1>2. m \in Msg /\ m.type \in {"CHOKE", "UNCHOKE", "BITFIELD", "PIECE"} /\ m.sub \in Subs
  BY <1>0, <1>1, FrontMessage, MsgFacts DEF Speaks
<1>3. CASE m.type = "CHOKE"
  <2> DEFINE E == [end EXCEPT ![D].peer_choking_me = TRUE]
  <2>1. end' = E
    BY <1>3 DEF DownloaderMsg
  <2>2. /\ E[D] = [end[D] EXCEPT !.peer_choking_me = TRUE]
        /\ \A x \in Ends : x # D => E[x] = end[x]
    BY <1>0
  <2>3. E[D] \in Session /\ E \in [Ends -> Session]
    <3>1. E[D] \in Session
      BY Zenon, <1>0, <2>2, SessionUpdates
    <3> QED  BY <1>0, <3>1
  <2> HIDE DEF E
  <2>4. /\ Noted(end, E, D) /\ E[D].peer_choking_me = c
        /\ E[D].am_interested = end[D].am_interested
        /\ E[D].choking_peer = end[D].choking_peer
    BY <1>0, <1>3, <2>2, <2>3 DEF Noted, Session
  <2> HIDE DEF c
  <2>5. DownloaderSaid(E, E, <<>>, c)
    BY <2>4, DownloaderNotes
  <2> QED  BY Zenon, <2>1, <2>5 DEF c
<1>4. CASE m.type = "UNCHOKE"
  <2> DEFINE E == [end EXCEPT ![D].peer_choking_me = FALSE]
  <2>1. end' = IF done THEN E ELSE send_interested(E, D)
    BY <1>4 DEF DownloaderMsg
  <2>2. /\ E[D] = [end[D] EXCEPT !.peer_choking_me = FALSE]
        /\ \A x \in Ends : x # D => E[x] = end[x]
    BY <1>0
  <2>3. E[D] \in Session /\ E \in [Ends -> Session]
    <3>1. E[D] \in Session
      BY Zenon, <1>0, <2>2, SessionUpdates
    <3> QED  BY <1>0, <3>1
  <2> HIDE DEF E
  <2>4. /\ Noted(end, E, D) /\ E[D].peer_choking_me = c
        /\ E[D].am_interested = end[D].am_interested
        /\ E[D].choking_peer = end[D].choking_peer
    BY <1>0, <1>4, <2>2, <2>3 DEF Noted, Session
  <2> HIDE DEF c
  <2>5. /\ \E G, msgs : DownloaderSaid(G, E, msgs, c)
        /\ ~done => \E G, msgs : DownloaderSaid(G, send_interested(E, D), msgs, c)
    BY Zenon, <2>4, DownloaderNotes, DownloaderWants
  <2> QED  BY Zenon, <2>1, <2>5 DEF c
<1>5. CASE m.type = "BITFIELD"
  <2>1. end' = IF done THEN send_not_interested(end, D) ELSE send_interested(end, D)
    BY <1>5 DEF DownloaderMsg
  <2>2. Noted(end, end, D) /\ end[D].peer_choking_me = c
    BY Zenon, <1>0, <1>5, NotedNothing
  <2> HIDE DEF c
  <2>3. /\ ~done => \E G, msgs : DownloaderSaid(G, send_interested(end, D), msgs, c)
        /\ done => \E G, msgs : DownloaderSaid(G, send_not_interested(end, D), msgs, c)
    BY <2>2, DownloaderWants
  <2> QED  BY Zenon, <2>1, <2>3 DEF c
<1>6. CASE m.type = "PIECE"
  <2> DEFINE p == end[D].pending_times \ {m.sub}
             E == [end EXCEPT ![D].pending_times = @ \ {m.sub},
                              ![D].consecutive_timeouts = 0]
             r == [end[D] EXCEPT !.pending_times = p]
  <2>1. end' = E
    BY <1>6 DEF DownloaderMsg
  <2>2. /\ E[D] = [r EXCEPT !.consecutive_timeouts = 0]
        /\ \A x \in Ends : x # D => E[x] = end[x]
    BY <1>0 DEF Session
  <2>3. p \in SUBSET Subs /\ 0 \in Nat
    BY <1>0 DEF Session
  <2> HIDE DEF p
  <2>4. r \in Session
    BY Zenon, <1>0, <2>3, SessionUpdates
  <2>5. /\ r.state = end[D].state /\ r.connected = end[D].connected
        /\ r.handshake_sent = end[D].handshake_sent /\ r.writing = end[D].writing
        /\ r.write_queue = end[D].write_queue /\ r.is_writing = end[D].is_writing
        /\ r.peer_choking_me = end[D].peer_choking_me
        /\ r.am_interested = end[D].am_interested
        /\ r.choking_peer = end[D].choking_peer
    BY <1>0 DEF Session
  <2> HIDE DEF r
  <2>6. E[D] \in Session /\ E \in [Ends -> Session]
    <3>1. E[D] \in Session
      BY Zenon, <2>2, <2>3, <2>4, SessionUpdates
    <3> QED  BY <1>0, <3>1
  <2> HIDE DEF E
  <2>7. /\ Noted(end, E, D) /\ E[D].peer_choking_me = c
        /\ E[D].am_interested = end[D].am_interested
        /\ E[D].choking_peer = end[D].choking_peer
    <3>1. /\ E[D].state = r.state /\ E[D].connected = r.connected
          /\ E[D].handshake_sent = r.handshake_sent /\ E[D].writing = r.writing
          /\ E[D].write_queue = r.write_queue /\ E[D].is_writing = r.is_writing
          /\ E[D].peer_choking_me = r.peer_choking_me
          /\ E[D].am_interested = r.am_interested
          /\ E[D].choking_peer = r.choking_peer
      BY <2>2, <2>4 DEF Session
    <3>2. m.type # "CHOKE" /\ m.type # "UNCHOKE"
      BY <1>6
    <3> QED  BY <2>2, <2>5, <2>6, <3>1, <3>2 DEF Noted
  <2> HIDE DEF c
  <2>8. DownloaderSaid(E, E, <<>>, c)
    BY <2>7, DownloaderNotes
  <2> QED  BY Zenon, <2>1, <2>8 DEF c
<1> QED  BY Zenon, <1>2, <1>3, <1>4, <1>5, <1>6

\* A message handled by D keeps the invariant.
LEMMA DownloaderMsgInv ==
    ASSUME SessionInv, DownloaderMsg
    PROVE  SessionInv'
<1> DEFINE m == Head(wire[U])
           c == IF m.type = "CHOKE" THEN TRUE
                ELSE IF m.type = "UNCHOKE" THEN FALSE ELSE end[D].peer_choking_me
<1>0. Types /\ D \in Ends /\ U \in Ends /\ D # U /\ Other(D) = U /\ Other(U) = D
  BY EndsFacts DEF SessionInv
<1>1. /\ Live(D) /\ wire[U] # <<>>
      /\ wire' = [wire EXCEPT ![U] = Tail(@)]
      /\ UNCHANGED <<reads, posted, sub_req, done>>
  BY DEF DownloaderMsg, upload, Live
<1>2. m \in Msg /\ m.sub \in Subs
  BY <1>0, <1>1, FrontMessage, MsgFacts
<1>3. /\ received' = received \/ received' = received \union {m.sub}
      /\ \/ slot' = slot
         \/ slot' = [slot EXCEPT !.pending_requests =
                                     IF slot.pending_requests = 0 THEN 0
                                     ELSE slot.pending_requests - 1]
  BY DEF DownloaderMsg
<1>4. PICK G, msgs : DownloaderSaid(G, end', msgs, c)
  BY Zenon, DownloaderReads
<1> HIDE DEF m, c
<1>5. /\ msgs \in Seq(Msg) /\ Noted(end, G, D) /\ Sent(G, end', D, msgs) /\ Talk(msgs, D)
      /\ Deciding(msgs, "CHOKE", "UNCHOKE") = {}
      /\ G[D].peer_choking_me = c /\ G[D].choking_peer = end[D].choking_peer
      /\ \/ /\ msgs = <<>> /\ G[D].am_interested = end[D].am_interested
         \/ /\ msgs = <<Plain("INTERESTED")>> /\ ~done /\ G[D].am_interested = TRUE
         \/ /\ msgs = <<Plain("NOT_INTERESTED")>> /\ done /\ G[D].am_interested = FALSE
  BY <1>4 DEF DownloaderSaid
<1>6. /\ end' \in [Ends -> Session] /\ wire' \in [Ends -> Seq(Msg)]
      /\ \A x \in Ends : Clean(end'[x])
      /\ end'[U] = end[U]
      /\ SameFlags(G[D], end'[D])
      /\ InFlight(D)' = InFlight(D) \o msgs
      /\ InFlight(U) # <<>> /\ Head(InFlight(U)) = Head(wire[U])
      /\ InFlight(U)' = Tail(InFlight(U))
      /\ SameLife /\ Lives' /\ Handshakes'
  BY Zenon, <1>0, <1>1, <1>5, ReadKeeps
<1>7. Types'
  <2>1. slot' \in [has : BOOLEAN, pending_requests : 0 .. PipelineCap,
                   consecutive_timeouts : Nat]
    <3> DEFINE n == IF slot.pending_requests = 0 THEN 0 ELSE slot.pending_requests - 1
    <3>1. n \in 0 .. PipelineCap
      BY <1>0, SessionAssumption DEF Types
    <3>2. slot \in [has : BOOLEAN, pending_requests : 0 .. PipelineCap,
                    consecutive_timeouts : Nat]
      BY <1>0 DEF Types
    <3>3. slot' = slot \/ slot' = [slot EXCEPT !.pending_requests = n]
      BY <1>3
    <3> HIDE DEF n
    <3> QED  BY <3>1, <3>2, <3>3
  <2>2. received' \subseteq Subs /\ sub_req' \subseteq Subs /\ done' \in BOOLEAN
    BY <1>0, <1>1, <1>2, <1>3 DEF Types
  <2>3. reads' \in [Subs -> Nat] /\ posted' \in [Subs -> Nat]
    BY <1>0, <1>1 DEF Types
  <2> QED  BY Zenon, <1>6, <2>1, <2>2, <2>3 DEF Types
<1>8. ChokeAgrees'
  <2>1. end'[U].choking_peer = end[U].choking_peer /\ end'[D].peer_choking_me = c
    BY Zenon, <1>5, <1>6 DEF SameFlags
  <2>2. c = IF Head(InFlight(U)).type = "CHOKE" THEN TRUE
            ELSE IF Head(InFlight(U)).type = "UNCHOKE" THEN FALSE
            ELSE end[D].peer_choking_me
    BY Zenon, <1>6 DEF c, m
  <2>3. ChokeTold(U)'
    BY <1>0, <1>6, <2>1, <2>2, ChokeRead
  <2>4. QuietStep(InFlight(D), InFlight(D)', "CHOKE", "UNCHOKE")
    BY Zenon, <1>5, <1>6 DEF QuietStep
  <2>5. /\ end'[D].choking_peer = end[D].choking_peer
        /\ end'[U].peer_choking_me = end[U].peer_choking_me
    BY Zenon, <1>5, <1>6 DEF SameFlags
  <2>6. ChokeTold(D)'
    BY <1>0, <1>6, <2>4, <2>5, ChokeKept
  <2> QED  BY <2>3, <2>6, EndsFacts DEF ChokeAgrees
<1>9. InterestAgrees'
  <2>1. end'[D].am_interested = G[D].am_interested /\ done' = done
    BY <1>1, <1>6 DEF SameFlags
  <2>2. CASE msgs = <<>> /\ G[D].am_interested = end[D].am_interested
    <3>1. QuietStep(InFlight(D), InFlight(D)', "INTERESTED", "NOT_INTERESTED")
      <4>1. Deciding(msgs, "INTERESTED", "NOT_INTERESTED") = {}
        BY <2>2 DEF Deciding
      <4> QED  BY Zenon, <1>5, <1>6, <4>1 DEF QuietStep
    <3>2. end'[U].peer_interested = end[U].peer_interested
      BY <1>6
    <3> QED  BY Zenon, <1>6, <2>1, <2>2, <3>1, <3>2, InterestKept
  <2>3. CASE msgs = <<Plain("INTERESTED")>> /\ ~done /\ G[D].am_interested = TRUE
    <3>1. Plain("INTERESTED").type = "INTERESTED"
      BY MsgFacts DEF MsgTypes
    <3>2. msgs # <<>> /\ Len(msgs) = 1 /\ msgs[1] = Plain("INTERESTED")
      BY <2>3
    <3>3. msgs[Len(msgs)].type = "INTERESTED"
      BY <3>1, <3>2
    <3>4. (end'[D].am_interested /\ ~done') = (msgs[Len(msgs)].type = "INTERESTED")
      BY <2>1, <2>3, <3>3
    <3> QED  BY Zenon, <1>0, <1>5, <1>6, <3>2, <3>3, <3>4, InterestSaid
  <2>4. CASE msgs = <<Plain("NOT_INTERESTED")>> /\ done /\ G[D].am_interested = FALSE
    <3>1. Plain("NOT_INTERESTED").type = "NOT_INTERESTED"
      BY MsgFacts DEF MsgTypes
    <3>2. msgs # <<>> /\ Len(msgs) = 1 /\ msgs[1] = Plain("NOT_INTERESTED")
      BY <2>4
    <3>3. msgs[Len(msgs)].type = "NOT_INTERESTED"
      BY <3>1, <3>2
    <3>4. (end'[D].am_interested /\ ~done') = (msgs[Len(msgs)].type = "INTERESTED")
      BY <2>1, <2>4, <3>3
    <3> QED  BY Zenon, <1>0, <1>5, <1>6, <3>2, <3>3, <3>4, InterestSaid
  <2> QED  BY Zenon, <1>5, <2>2, <2>3, <2>4
<1> QED  BY <1>6, <1>7, <1>8, <1>9 DEF SessionInv

\* What U does with a message: it notes it in its session, giving G, and queues
\* msgs, nothing or an UNCHOKE.
SeedSaid(G, F, msgs, interested, choked) ==
    /\ msgs \in Seq(Msg) /\ Noted(end, G, U) /\ Sent(G, F, U, msgs) /\ Talk(msgs, U)
    /\ G[U].peer_interested = interested /\ G[U].peer_choking_me = choked
    /\ \/ /\ msgs = <<>> /\ G[U].choking_peer = end[U].choking_peer
       \/ /\ msgs = <<Plain("UNCHOKE")>> /\ G[U].choking_peer = FALSE

\* A message that U only notes.
LEMMA SeedNotes ==
    ASSUME SessionInv, NEW E, Noted(end, E, U), NEW i, E[U].peer_interested = i,
           NEW c, E[U].peer_choking_me = c, E[U].choking_peer = end[U].choking_peer
    PROVE  SeedSaid(E, E, <<>>, i, c) /\ Clean(E[U])
<1>1. E \in [Ends -> Session] /\ U \in Ends /\ Clean(E[U])
  <2>1. U \in Ends /\ Clean(end[U])
    BY EndsFacts DEF SessionInv, Types
  <2>2. /\ E \in [Ends -> Session] /\ E[U].is_writing = end[U].is_writing
        /\ E[U].writing = end[U].writing /\ E[U].write_queue = end[U].write_queue
    BY Zenon DEF Noted
  <2> QED  BY <2>1, <2>2 DEF Clean
<1> QED  BY <1>1, SentNothing DEF SeedSaid

\* An INTERESTED, which U may answer with UNCHOKE.
LEMMA SeedUnchokes ==
    ASSUME SessionInv
    PROVE  \E G, msgs : SeedSaid(G, on_interested(end), msgs, TRUE, end[U].peer_choking_me)
<1> DEFINE E == [end EXCEPT ![U].peer_interested = TRUE]
           G == [E EXCEPT ![U].choking_peer = FALSE]
           m == Plain("UNCHOKE")
<1>0. Types /\ end \in [Ends -> Session] /\ U \in Ends /\ end[U] \in Session
  BY EndsFacts DEF SessionInv, Types
<1>1. on_interested(end) = IF ~end[U].choking_peer THEN E ELSE send_message(G, U, m)
  BY DEF on_interested
<1>2. /\ E[U] = [end[U] EXCEPT !.peer_interested = TRUE]
      /\ \A x \in Ends : x # U => E[x] = end[x]
  BY <1>0
<1>3. E[U] \in Session /\ E \in [Ends -> Session]
  <2>1. E[U] \in Session
    BY Zenon, <1>0, <1>2, SessionUpdates
  <2> QED  BY <1>0, <2>1
<1> HIDE DEF E
<1>4. /\ Noted(end, E, U) /\ E[U].peer_interested = TRUE
      /\ E[U].choking_peer = end[U].choking_peer
      /\ E[U].peer_choking_me = end[U].peer_choking_me
  BY <1>0, <1>2, <1>3 DEF Noted, Session
<1>5. SeedSaid(E, E, <<>>, TRUE, end[U].peer_choking_me) /\ Clean(E[U])
  BY Zenon, <1>4, SeedNotes
<1>6. /\ G[U] = [E[U] EXCEPT !.choking_peer = FALSE]
      /\ \A x \in Ends : x # U => G[x] = E[x]
  BY <1>0, <1>3
<1>7. G[U] \in Session /\ G \in [Ends -> Session]
  <2>1. G[U] \in Session
    BY Zenon, <1>3, <1>6, SessionUpdates
  <2> QED  BY Zenon, <1>3, <2>1
<1>8. m \in Msg /\ m.type = "UNCHOKE"
  BY MsgFacts DEF MsgTypes
<1> HIDE DEF G, m
<1>9. /\ Noted(E, G, U) /\ G[U].choking_peer = FALSE /\ G[U].peer_interested = TRUE
      /\ G[U].peer_choking_me = end[U].peer_choking_me
  BY <1>3, <1>4, <1>6, <1>7 DEF Noted, Session
<1>10. Noted(end, G, U)
  BY <1>4, <1>9 DEF Noted
<1>11. Clean(G[U])
  BY <1>5, <1>9 DEF Clean, Noted
<1>12. Sent(G, send_message(G, U, m), U, <<m>>)
  BY <1>0, <1>7, <1>8, <1>11, SendMessage
<1>13. <<m>> \in Seq(Msg) /\ Talk(<<m>>, U)
  BY <1>8, OneMessage, EndsFacts DEF Speaks
<1>14. SeedSaid(G, send_message(G, U, m), <<m>>, TRUE, end[U].peer_choking_me)
  BY <1>9, <1>10, <1>12, <1>13 DEF SeedSaid, m
<1> QED  BY <1>1, <1>5, <1>14, Zenon

\* U handles a message.
LEMMA SeedReads ==
    ASSUME SessionInv, SeedMsg
    PROVE  \E G, msgs :
              SeedSaid(G, end', msgs,
                       IF Head(wire[D]).type = "INTERESTED" THEN TRUE
                       ELSE IF Head(wire[D]).type = "NOT_INTERESTED" THEN FALSE
                       ELSE end[U].peer_interested,
                       IF Head(wire[D]).type = "CHOKE" THEN TRUE
                       ELSE IF Head(wire[D]).type = "UNCHOKE" THEN FALSE
                       ELSE end[U].peer_choking_me)
<1> DEFINE m == Head(wire[D])
           i == IF m.type = "INTERESTED" THEN TRUE
                ELSE IF m.type = "NOT_INTERESTED" THEN FALSE ELSE end[U].peer_interested
           c == IF m.type = "CHOKE" THEN TRUE
                ELSE IF m.type = "UNCHOKE" THEN FALSE ELSE end[U].peer_choking_me
<1>0. /\ Types /\ end \in [Ends -> Session] /\ U \in Ends /\ end[U] \in Session
      /\ D \in Ends /\ D # U /\ Other(D) = U
  BY EndsFacts DEF SessionInv, Types
<1>1. end[U].state = "CONNECTED" /\ wire[D] # <<>>
  BY DEF SeedMsg
<1>2. /\ m \in Msg /\ m.sub \in Subs
      /\ m.type \in {"BITFIELD", "HAVE", "INTERESTED", "NOT_INTERESTED", "CHOKE",
                     "UNCHOKE", "REQUEST", "CANCEL"}
  BY <1>0, <1>1, FrontMessage, MsgFacts DEF Speaks
<1>3. CASE m.type = "INTERESTED"
  <2>1. end' = on_interested(end)
    BY <1>3 DEF SeedMsg
  <2>2. i = TRUE /\ c = end[U].peer_choking_me
    BY <1>3
  <2> HIDE DEF i, c
  <2> QED  BY Zenon, <2>1, <2>2, SeedUnchokes DEF i, c
<1>4. CASE m.type = "NOT_INTERESTED"
  <2> DEFINE E == [end EXCEPT ![U].peer_interested = FALSE]
  <2>1. end' = E
    BY <1>4 DEF SeedMsg
  <2>2. /\ E[U] = [end[U] EXCEPT !.peer_interested = FALSE]
        /\ \A x \in Ends : x # U => E[x] = end[x]
    BY <1>0
  <2>3. E[U] \in Session /\ E \in [Ends -> Session]
    <3>1. E[U] \in Session
      BY Zenon, <1>0, <2>2, SessionUpdates
    <3> QED  BY <1>0, <3>1
  <2> HIDE DEF E
  <2>4. /\ Noted(end, E, U) /\ E[U].peer_interested = i /\ E[U].peer_choking_me = c
        /\ E[U].choking_peer = end[U].choking_peer
    BY <1>0, <1>4, <2>2, <2>3 DEF Noted, Session
  <2> HIDE DEF i, c
  <2>5. SeedSaid(E, E, <<>>, i, c)
    BY <2>4, SeedNotes
  <2> QED  BY Zenon, <2>1, <2>5 DEF i, c
<1>5. CASE m.type = "CANCEL"
  <2> DEFINE p == end[U].cancelled_set \union {m.sub}
             E == [end EXCEPT ![U].cancelled_set = p]
  <2>1. end' = E
    BY <1>5 DEF SeedMsg
  <2>2. p \in SUBSET Subs
    BY <1>0, <1>2 DEF Session
  <2> HIDE DEF p
  <2>3. /\ E[U] = [end[U] EXCEPT !.cancelled_set = p]
        /\ \A x \in Ends : x # U => E[x] = end[x]
    BY <1>0
  <2>4. E[U] \in Session /\ E \in [Ends -> Session]
    <3>1. E[U] \in Session
      BY Zenon, <1>0, <2>2, <2>3, SessionUpdates
    <3> QED  BY <1>0, <3>1
  <2> HIDE DEF E
  <2>5. /\ Noted(end, E, U) /\ E[U].peer_interested = end[U].peer_interested
        /\ E[U].choking_peer = end[U].choking_peer
        /\ E[U].peer_choking_me = end[U].peer_choking_me
    BY Zenon, <1>0, <2>3, <2>4 DEF Noted, Session
  <2>6. end[U].peer_interested = i /\ end[U].peer_choking_me = c
    BY <1>5
  <2> HIDE DEF i, c
  <2>7. SeedSaid(E, E, <<>>, i, c)
    BY <2>5, <2>6, SeedNotes
  <2> QED  BY Zenon, <2>1, <2>7 DEF i, c
<1>6. CASE m.type \in {"BITFIELD", "HAVE", "REQUEST"}
  <2>1. end' = end
    BY <1>6 DEF SeedMsg
  <2>2. Noted(end, end, U)
    BY <1>0, NotedNothing
  <2>3. end[U].peer_interested = i /\ end[U].peer_choking_me = c
    BY <1>6
  <2> HIDE DEF i, c
  <2>4. SeedSaid(end, end, <<>>, i, c)
    BY <2>2, <2>3, SeedNotes
  <2> QED  BY Zenon, <2>1, <2>4 DEF i, c
<1>7. CASE m.type \in {"CHOKE", "UNCHOKE"}
  <2> DEFINE b == m.type = "CHOKE"
             E == [end EXCEPT ![U].peer_choking_me = b]
  <2>1. end' = E
    BY <1>7 DEF SeedMsg
  <2>2. b \in BOOLEAN /\ b = c /\ end[U].peer_interested = i
    BY <1>7
  <2> HIDE DEF b
  <2>3. /\ E[U] = [end[U] EXCEPT !.peer_choking_me = b]
        /\ \A x \in Ends : x # U => E[x] = end[x]
    BY <1>0
  <2>4. E[U] \in Session /\ E \in [Ends -> Session]
    <3>1. E[U] \in Session
      BY Zenon, <1>0, <2>2, <2>3, SessionUpdates
    <3> QED  BY <1>0, <3>1
  <2> HIDE DEF E, i, c
  <2>5. /\ Noted(end, E, U) /\ E[U].peer_interested = end[U].peer_interested
        /\ E[U].choking_peer = end[U].choking_peer /\ E[U].peer_choking_me = b
    BY Zenon, <1>0, <2>3, <2>4 DEF Noted, Session
  <2>6. SeedSaid(E, E, <<>>, i, c)
    BY <2>2, <2>5, SeedNotes
  <2> QED  BY Zenon, <2>1, <2>6 DEF i, c
<1> QED  BY Zenon, <1>2, <1>3, <1>4, <1>5, <1>6, <1>7

\* A message handled by U keeps the invariant.
LEMMA SeedMsgInv ==
    ASSUME SessionInv, SeedMsg
    PROVE  SessionInv'
<1> DEFINE m == Head(wire[D])
           i == IF m.type = "INTERESTED" THEN TRUE
                ELSE IF m.type = "NOT_INTERESTED" THEN FALSE ELSE end[U].peer_interested
           c == IF m.type = "CHOKE" THEN TRUE
                ELSE IF m.type = "UNCHOKE" THEN FALSE ELSE end[U].peer_choking_me
<1>0. Types /\ D \in Ends /\ U \in Ends /\ D # U /\ Other(D) = U /\ Other(U) = D
  BY EndsFacts DEF SessionInv
<1>1. /\ Live(U) /\ wire[D] # <<>>
      /\ wire' = [wire EXCEPT ![D] = Tail(@)]
      /\ UNCHANGED <<posted, slot, sub_req, received, done>>
      /\ reads' = reads \/ reads' = [reads EXCEPT ![m.sub] = @ + 1]
  BY DEF SeedMsg, download, Live
<1>2. m \in Msg /\ m.sub \in Subs
  BY <1>0, <1>1, FrontMessage, MsgFacts
<1>4. PICK G, msgs : SeedSaid(G, end', msgs, i, c)
  BY Zenon, SeedReads
<1> HIDE DEF m, i, c
<1>5. /\ msgs \in Seq(Msg) /\ Noted(end, G, U) /\ Sent(G, end', U, msgs) /\ Talk(msgs, U)
      /\ G[U].peer_interested = i /\ G[U].peer_choking_me = c
      /\ \/ /\ msgs = <<>> /\ G[U].choking_peer = end[U].choking_peer
         \/ /\ msgs = <<Plain("UNCHOKE")>> /\ G[U].choking_peer = FALSE
  BY <1>4 DEF SeedSaid
<1>6. /\ end' \in [Ends -> Session] /\ wire' \in [Ends -> Seq(Msg)]
      /\ \A x \in Ends : Clean(end'[x])
      /\ end'[D] = end[D]
      /\ SameFlags(G[U], end'[U])
      /\ InFlight(U)' = InFlight(U) \o msgs
      /\ InFlight(D) # <<>> /\ Head(InFlight(D)) = Head(wire[D])
      /\ InFlight(D)' = Tail(InFlight(D))
      /\ SameLife /\ Lives' /\ Handshakes'
  BY Zenon, <1>0, <1>1, <1>5, ReadKeeps
<1>7. Types'
  <2>1. reads' \in [Subs -> Nat]
    <3>1. reads \in [Subs -> Nat]
      BY <1>0 DEF Types
    <3> QED  BY <1>1, <1>2, <3>1
  <2> QED  BY <1>0, <1>1, <1>6, <2>1 DEF Types
<1>8. InterestAgrees'
  <2>1. /\ end'[D].am_interested = end[D].am_interested /\ end'[U].peer_interested = i
        /\ done' = done
    BY Zenon, <1>1, <1>5, <1>6 DEF SameFlags
  <2>2. i = IF Head(InFlight(D)).type = "INTERESTED" THEN TRUE
            ELSE IF Head(InFlight(D)).type = "NOT_INTERESTED" THEN FALSE
            ELSE end[U].peer_interested
    BY Zenon, <1>6 DEF i, m
  <2> QED  BY <1>6, <2>1, <2>2, InterestRead
<1>9. ChokeTold(U)'
  <2>1. end'[U].choking_peer = G[U].choking_peer
    BY <1>6 DEF SameFlags
  <2>2. CASE msgs = <<>> /\ G[U].choking_peer = end[U].choking_peer
    <3>1. QuietStep(InFlight(U), InFlight(U)', "CHOKE", "UNCHOKE")
      <4>1. Deciding(msgs, "CHOKE", "UNCHOKE") = {}
        BY <2>2 DEF Deciding
      <4> QED  BY Zenon, <1>5, <1>6, <4>1 DEF QuietStep
    <3>2. end'[D].peer_choking_me = end[D].peer_choking_me
      BY <1>6
    <3> QED  BY <1>0, <1>6, <2>1, <2>2, <3>1, <3>2, ChokeKept
  <2>3. CASE msgs = <<Plain("UNCHOKE")>> /\ G[U].choking_peer = FALSE
    <3>1. Plain("UNCHOKE").type = "UNCHOKE"
      BY MsgFacts DEF MsgTypes
    <3>2. msgs # <<>> /\ Len(msgs) = 1 /\ msgs[1] = Plain("UNCHOKE")
      BY <2>3
    <3>3. msgs[Len(msgs)].type = "UNCHOKE"
      BY <3>1, <3>2
    <3>4. end'[U].choking_peer = (msgs[Len(msgs)].type = "CHOKE")
      BY Zenon, <2>1, <2>3, <3>3
    <3> QED  BY Zenon, <1>0, <1>5, <1>6, <3>2, <3>3, <3>4, ChokeSaid
  <2> QED  BY Zenon, <1>5, <2>2, <2>3
<1>10. ChokeTold(D)'
  <2>1. end'[D].choking_peer = end[D].choking_peer /\ end'[U].peer_choking_me = c
    BY Zenon, <1>5, <1>6 DEF SameFlags
  <2>2. c = IF Head(InFlight(D)).type = "CHOKE" THEN TRUE
            ELSE IF Head(InFlight(D)).type = "UNCHOKE" THEN FALSE
            ELSE end[U].peer_choking_me
    BY Zenon, <1>6 DEF c, m
  <2> QED  BY <1>0, <1>6, <2>1, <2>2, ChokeRead
<1>11. ChokeAgrees'
  BY <1>9, <1>10, EndsFacts DEF ChokeAgrees
<1> QED  BY <1>6, <1>7, <1>8, <1>11 DEF SessionInv

\* Dialing keeps the invariant: a new connection starts with empty streams.
LEMMA DialInv ==
    ASSUME SessionInv, NEW e \in Ends, Dial(e)
    PROVE  SessionInv'
<1> DEFINE o == Other(e)
<1>0. /\ Types /\ end \in [Ends -> Session]
      /\ D \in Ends /\ U \in Ends /\ D # U
      /\ o \in Ends /\ o # e /\ Other(o) = e /\ \A x \in Ends : x = e \/ x = o
  BY EndsFacts DEF SessionInv, Types
<1>1. /\ \A x \in Ends : ~Live(x)
      /\ end' = [end EXCEPT ![e] = NewSession]
      /\ wire' = [x \in Ends |-> <<>>]
      /\ slot' = IF e = D THEN Slot ELSE slot
      /\ UNCHANGED <<reads, posted, sub_req, received, done>>
  BY DEF Dial, Live, upload
<1> HIDE DEF o
<1>2. end'[e] = NewSession /\ end'[o] = NoSession /\ \A x \in Ends : wire'[x] = <<>>
  BY Zenon, <1>0, <1>1 DEF SessionInv, Lives
<1>3. /\ Live(e)' /\ ~Live(o)'
      /\ ~end'[e].connected /\ ~end'[e].handshake_sent /\ end'[e].state = "HANDSHAKE"
      /\ end'[o].state = "DISCONNECTED"
  BY <1>2 DEF Live, NewSession, NoSession
<1>4. \A x \in Ends :
        /\ end'[x].writing = <<>> /\ end'[x].write_queue = <<>>
        /\ end'[x].choking_peer = TRUE /\ end'[x].peer_choking_me = TRUE
        /\ end'[x].peer_interested = FALSE /\ end'[x].am_interested = FALSE
  BY <1>0, <1>2 DEF NewSession, NoSession
<1>5. \A x \in Ends : InFlight(x)' = <<>>
  <2>1. (<<>> \o <<>>) \o <<>> = <<>>
    OBVIOUS
  <2> QED  BY <1>2, <1>4, <2>1, Zenon DEF InFlight
<1>6. Types'
  <2>1. end' \in [Ends -> Session] /\ \A x \in Ends : Clean(end'[x])
    BY <1>0, <1>1, <1>2, SessionTypes
  <2>2. slot' \in [has : BOOLEAN, pending_requests : 0 .. PipelineCap,
                   consecutive_timeouts : Nat]
    BY <1>0, <1>1, SlotTypes, Zenon DEF Types
  <2>3. wire' \in [Ends -> Seq(Msg)]
    <3>1. <<>> \in Seq(Msg)
      OBVIOUS
    <3> QED  BY <1>1, <3>1
  <2> QED  BY <1>0, <1>1, <2>1, <2>2, <2>3 DEF Types
<1>7. Lives'
  <2>1. \A x \in Ends : ~Live(x)' => end'[x] = NoSession
    BY <1>0, <1>2, <1>3
  <2>2. \A s \in Subs : reads'[s] = 0 /\ posted'[s] = 0
    BY <1>0, <1>1 DEF SessionInv, Lives
  <2>3. \A x \in Ends : Live(x)' /\ ~end'[x].connected =>
           /\ end'[x].state = "HANDSHAKE" /\ ~end'[x].handshake_sent
           /\ end'[x].peer_choking_me /\ ~end'[x].peer_interested
           /\ ~Live(Other(x))' /\ wire'[D] = <<>> /\ wire'[U] = <<>>
    BY Zenon, <1>0, <1>2, <1>3, <1>4 DEF o
  <2> QED  BY <2>1, <2>2, <2>3 DEF Lives, Live
<1>8. Handshakes'
  <2>1. \A x \in Ends : HandshakesIn(InFlight(x)') = {} /\ 1 .. Len(InFlight(x)') = {}
    <3>1. HandshakesIn(<<>>) = {} /\ 1 .. Len(<<>>) = {}
      BY DEF HandshakesIn
    <3> QED  BY <1>5, <3>1, Zenon
  <2>2. \A x \in Ends : end'[Other(x)].state # "CONNECTED"
    BY <1>0, <1>3 DEF o
  <2> QED  BY Zenon, <2>1, <2>2 DEF Handshakes, HandshakesIn, Speaks
<1>9. \A on, off : Deciding(<<>>, on, off) = {}
  BY DEF Deciding
<1>10. ChokeAgrees'
  <2> SUFFICES ASSUME NEW x \in Ends
               PROVE  ChokeTold(x)'
    BY DEF ChokeAgrees
  <2>1. Settles(end'[Other(x)].peer_choking_me, InFlight(x)', "CHOKE", "UNCHOKE",
                end'[x].choking_peer)
    BY Zenon, <1>4, <1>5, <1>9, EndsFacts DEF Settles
  <2> QED  BY <2>1 DEF ChokeTold, Settles, Deciding
<1>11. InterestAgrees'
  <2>1. Settles(end'[U].peer_interested, InFlight(D)', "INTERESTED", "NOT_INTERESTED",
                end'[D].am_interested /\ ~done')
    BY Zenon, <1>0, <1>4, <1>5, <1>9 DEF Settles
  <2> QED  BY <2>1 DEF InterestAgrees, Settles, Deciding
<1> QED  BY <1>6, <1>7, <1>8, <1>10, <1>11 DEF SessionInv

\* An accepted session.
Accepted == [NewSession EXCEPT !.connected = TRUE]

\* The fields of an accepted session.
LEMMA AcceptedFacts ==
    /\ Accepted \in Session /\ Clean(Accepted)
    /\ Accepted.state = "HANDSHAKE" /\ Accepted.connected
    /\ Accepted.writing = <<>> /\ Accepted.write_queue = <<>>
    /\ Accepted.choking_peer = TRUE /\ Accepted.peer_choking_me = TRUE
    /\ Accepted.peer_interested = FALSE /\ Accepted.am_interested = FALSE
    /\ NoSession.peer_choking_me = TRUE /\ NoSession.peer_interested = FALSE
    /\ NoSession.writing = <<>> /\ NoSession.write_queue = <<>>
<1>1. Accepted \in Session /\ Clean(Accepted)
  BY SessionTypes DEF Accepted
<1>2. /\ NewSession.state = "HANDSHAKE"
      /\ NewSession.writing = <<>> /\ NewSession.write_queue = <<>>
      /\ NewSession.choking_peer = TRUE /\ NewSession.peer_choking_me = TRUE
      /\ NewSession.peer_interested = FALSE /\ NewSession.am_interested = FALSE
  BY DEF NewSession
<1>3. NewSession \in Session
  BY SessionTypes
<1>4. /\ Accepted.state = NewSession.state /\ Accepted.connected = TRUE
      /\ Accepted.writing = NewSession.writing
      /\ Accepted.write_queue = NewSession.write_queue
      /\ Accepted.choking_peer = NewSession.choking_peer
      /\ Accepted.peer_choking_me = NewSession.peer_choking_me
      /\ Accepted.peer_interested = NewSession.peer_interested
      /\ Accepted.am_interested = NewSession.am_interested
  BY <1>3 DEF Accepted, Session
<1>5. /\ NoSession.peer_choking_me = NewSession.peer_choking_me
      /\ NoSession.peer_interested = NewSession.peer_interested
      /\ NoSession.writing = NewSession.writing
      /\ NoSession.write_queue = NewSession.write_queue
  BY <1>3 DEF NoSession, Session
<1> QED  BY <1>1, <1>2, <1>4, <1>5

\* A handshake as a message.
LEMMA HandshakeMessage ==
    LET h == Plain("HANDSHAKE")
    IN  /\ h \in Msg /\ h.type = "HANDSHAKE" /\ <<h>> \in Seq(Msg)
        /\ Len(<<h>>) = 1 /\ <<h>>[1] = h
        /\ HandshakesIn(<<h>>) = {1}
        /\ \A on, off : "HANDSHAKE" \notin {on, off} => Deciding(<<h>>, on, off) = {}
<1> DEFINE h == Plain("HANDSHAKE")
<1>1. h \in Msg /\ h.type = "HANDSHAKE"
  BY MsgFacts DEF MsgTypes
<1> HIDE DEF h
<1>2. /\ <<h>> \in Seq(Msg) /\ Len(<<h>>) = 1 /\ <<h>>[1] = h
      /\ HandshakesIn(<<h>>) = {1}
      /\ \A on, off : "HANDSHAKE" \notin {on, off} => Deciding(<<h>>, on, off) = {}
  BY <1>1 DEF HandshakesIn, Deciding
<1> QED  BY <1>1, <1>2 DEF h

\* The two ends after the connection is there: e has queued its handshake, the
\* other end has a session that is only accepted.
LEMMA EstablishEffect ==
    ASSUME SessionInv, NEW e \in Ends, Establish(e)
    PROVE  /\ end' \in [Ends -> Session] /\ wire' = wire
           /\ end'[Other(e)] = Accepted
           /\ Clean(end'[e])
           /\ end'[e].state = "HANDSHAKE" /\ end'[e].connected /\ end'[e].handshake_sent
           /\ end'[e].choking_peer = end[e].choking_peer
           /\ end'[e].peer_choking_me = end[e].peer_choking_me
           /\ end'[e].peer_interested = end[e].peer_interested
           /\ end'[e].am_interested = end[e].am_interested
           /\ InFlight(e)' = InFlight(e) \o <<Plain("HANDSHAKE")>>
<1> DEFINE o == Other(e)
           h == Plain("HANDSHAKE")
           B == [end EXCEPT ![e].connected = TRUE, ![o] = Accepted]
           F == send_message(B, e, h)
<1>0. /\ Types /\ end \in [Ends -> Session] /\ end[e] \in Session
      /\ o \in Ends /\ o # e /\ \A x \in Ends : x = e \/ x = o
  BY EndsFacts DEF SessionInv, Types
<1>1. /\ end[e].state = "HANDSHAKE" /\ wire' = wire
      /\ end' = [F EXCEPT ![e].handshake_sent = TRUE]
  BY Zenon DEF Establish, Accepted
<1>2. h \in Msg /\ <<h>> \in Seq(Msg)
  BY HandshakeMessage
<1>3. B[e] = [end[e] EXCEPT !.connected = TRUE] /\ B[o] = Accepted
  BY Zenon, <1>0
<1>4. B[e] \in Session /\ B \in [Ends -> Session]
  <2>1. B[e] \in Session
    BY Zenon, <1>0, <1>3, SessionUpdates
  <2> QED  BY Zenon, <1>0, <1>3, <2>1, AcceptedFacts
<1> HIDE DEF h, o, B
<1>5. /\ B[e].state = end[e].state /\ B[e].connected = TRUE
      /\ B[e].writing = end[e].writing /\ B[e].write_queue = end[e].write_queue
      /\ B[e].is_writing = end[e].is_writing
      /\ B[e].choking_peer = end[e].choking_peer
      /\ B[e].peer_choking_me = end[e].peer_choking_me
      /\ B[e].peer_interested = end[e].peer_interested
      /\ B[e].am_interested = end[e].am_interested
  BY <1>0, <1>3 DEF Session
<1>6. Clean(B[e])
  BY <1>0, <1>5 DEF Types, Clean
<1>7. Sent(B, F, e, <<h>>)
  BY <1>2, <1>4, <1>6, SendMessage
<1> HIDE DEF F
<1>8. /\ F \in [Ends -> Session] /\ F[e] \in Session /\ F[o] = Accepted
      /\ SameFlags(B[e], F[e]) /\ Clean(F[e])
      /\ F[e].writing \o F[e].write_queue = (end[e].writing \o end[e].write_queue) \o <<h>>
  BY <1>0, <1>3, <1>5, <1>7 DEF Sent
<1>9. /\ end'[e] = [F[e] EXCEPT !.handshake_sent = TRUE] /\ end'[o] = Accepted
  BY <1>0, <1>1, <1>8
<1>10. end'[e] \in Session /\ end' \in [Ends -> Session]
  <2>1. end'[e] \in Session
    BY Zenon, <1>8, <1>9, SessionUpdates
  <2> QED  BY <1>0, <1>1, <1>8, <2>1
<1>11. /\ end'[e].state = F[e].state /\ end'[e].connected = F[e].connected
       /\ end'[e].handshake_sent = TRUE
       /\ end'[e].writing = F[e].writing /\ end'[e].write_queue = F[e].write_queue
       /\ end'[e].is_writing = F[e].is_writing
       /\ end'[e].choking_peer = F[e].choking_peer
       /\ end'[e].peer_choking_me = F[e].peer_choking_me
       /\ end'[e].peer_interested = F[e].peer_interested
       /\ end'[e].am_interested = F[e].am_interested
  BY <1>8, <1>9 DEF Session
<1>12. /\ end'[e].state = "HANDSHAKE" /\ end'[e].connected /\ end'[e].handshake_sent
       /\ end'[e].choking_peer = end[e].choking_peer
       /\ end'[e].peer_choking_me = end[e].peer_choking_me
       /\ end'[e].peer_interested = end[e].peer_interested
       /\ end'[e].am_interested = end[e].am_interested
  <2>1. /\ F[e].state = B[e].state /\ F[e].connected = B[e].connected
        /\ F[e].choking_peer = B[e].choking_peer
        /\ F[e].peer_choking_me = B[e].peer_choking_me
        /\ F[e].peer_interested = B[e].peer_interested
        /\ F[e].am_interested = B[e].am_interested
    BY <1>8, Zenon DEF SameFlags
  <2> QED  BY <1>1, <1>5, <1>11, <2>1
<1>13. Clean(end'[e])
  BY <1>8, <1>11 DEF Clean
<1>14. InFlight(e)' = InFlight(e) \o <<h>>
  <2>1. end'[e].writing \o end'[e].write_queue
            = (end[e].writing \o end[e].write_queue) \o <<h>>
    BY <1>8, <1>11, Zenon
  <2> QED  BY Zenon, <1>0, <1>1, <1>2, <1>10, <2>1, StreamAppended
<1> QED  BY <1>1, <1>9, <1>10, <1>12, <1>13, <1>14 DEF h, o

\* The connection that comes up keeps the invariant.
LEMMA EstablishInv ==
    ASSUME SessionInv, NEW e \in Ends, Establish(e)
    PROVE  SessionInv'
<1> DEFINE o == Other(e)
           h == Plain("HANDSHAKE")
           s == InFlight(e)
           n == InFlight(e)'
<1>0. /\ Types /\ end \in [Ends -> Session] /\ end[e] \in Session /\ end'[e] \in Session
      /\ D \in Ends /\ U \in Ends /\ D # U
      /\ o \in Ends /\ o # e /\ Other(o) = e /\ \A x \in Ends : x = e \/ x = o
      /\ s \in Seq(Msg)
  <2>1. Types /\ end \in [Ends -> Session] /\ end[e] \in Session
    BY DEF SessionInv, Types
  <2>2. end'[e] \in Session
    BY EstablishEffect
  <2> QED  BY <2>1, <2>2, EndsFacts, InFlightType
<1>1. /\ end'[o] = Accepted
      /\ end'[e].state = "HANDSHAKE" /\ end'[e].connected /\ end'[e].handshake_sent
      /\ end'[e].choking_peer = end[e].choking_peer
      /\ end'[e].peer_choking_me = end[e].peer_choking_me
      /\ end'[e].peer_interested = end[e].peer_interested
      /\ end'[e].am_interested = end[e].am_interested
      /\ n = s \o <<h>>
      /\ wire' = wire
  BY EstablishEffect
<1>2. /\ end[e].state = "HANDSHAKE" /\ ~end[e].connected /\ ~Live(o)
      /\ slot' = IF e = U THEN Slot ELSE slot
      /\ UNCHANGED <<reads, posted, sub_req, received, done>>
  BY DEF Establish, Live, upload
<1>3. /\ Live(e) /\ end[o] = NoSession /\ ~end[e].handshake_sent
      /\ end[e].peer_choking_me /\ ~end[e].peer_interested
      /\ wire[D] = <<>> /\ wire[U] = <<>>
  <2>1. Live(e)
    BY <1>2 DEF Live
  <2> QED  BY Zenon, <1>0, <1>2, <2>1 DEF SessionInv, Lives
<1> HIDE DEF o, h, s
<1>4. InFlight(o)' = <<>>
  <2>1. wire'[o] = <<>> /\ end'[o].writing = <<>> /\ end'[o].write_queue = <<>>
    BY Zenon, <1>0, <1>1, <1>3, AcceptedFacts, EndsFacts
  <2>2. (<<>> \o <<>>) \o <<>> = <<>>
    OBVIOUS
  <2> QED  BY <2>1, <2>2, Zenon DEF InFlight
<1>5. Types'
  <2>1. \A x \in Ends : Clean(end'[x])
    BY Zenon, <1>0, <1>1, EstablishEffect, AcceptedFacts
  <2>2. end' \in [Ends -> Session]
    BY Zenon, EstablishEffect
  <2>3. slot' \in [has : BOOLEAN, pending_requests : 0 .. PipelineCap,
                   consecutive_timeouts : Nat]
    BY <1>0, <1>2, SlotTypes, Zenon DEF Types
  <2> QED  BY <1>0, <1>1, <1>2, <2>1, <2>2, <2>3 DEF Types
<1>6. \A x \in Ends : Live(x)' /\ end'[x].connected /\ end'[x].state = "HANDSHAKE"
  BY <1>0, <1>1, AcceptedFacts DEF Live
<1>7. Lives'
  BY <1>0, <1>6 DEF Lives, Live
<1>8. Handshakes'
  <2>1. /\ h \in Msg /\ h.type = "HANDSHAKE" /\ <<h>> \in Seq(Msg)
        /\ HandshakesIn(<<h>>) = {1} /\ Len(<<h>>) = 1 /\ <<h>>[1] = h
    BY HandshakeMessage DEF h
  <2>2. /\ \A k \in 1 .. Len(s) : s[k].type \in Speaks(e)
        /\ HandshakesIn(s) = {}
    BY <1>0, <1>3 DEF SessionInv, Handshakes, s
  <2>3. \A j, k \in HandshakesIn(n) : j = k
    <3>1. \A j, k \in HandshakesIn(<<h>>) : j = k
      BY <2>1
    <3>2. <<h>> \in Seq(Msg) /\ n = s \o <<h>> /\ s \in Seq(Msg)
      BY <1>0, <1>1, <2>1
    <3> HIDE DEF n
    <3> QED  BY <2>2, <3>1, <3>2, HandshakesConcat, Zenon
  <2>4. \A k \in 1 .. Len(n) : n[k].type \in Speaks(e)
    <3> SUFFICES ASSUME NEW k \in 1 .. Len(n) PROVE n[k].type \in Speaks(e)
      OBVIOUS
    <3> HIDE DEF n
    <3>1. CASE k \in 1 .. Len(s)
      <4>1. n[k] = s[k]
        BY Zenon, <1>0, <1>1, <2>1, <3>1, ConcatAt
      <4> QED  BY Zenon, <2>2, <3>1, <4>1
    <3>2. CASE k - Len(s) \in 1 .. Len(<<h>>)
      <4>1. k - Len(s) = 1 /\ Len(s) + 1 = k
        BY <1>0, <2>1, <3>2
      <4>2. n[k] = h
        <5>1. (s \o <<h>>)[Len(s) + 1] = <<h>>[1]
          BY <1>0, <2>1, <4>1, ConcatAt
        <5> QED  BY <1>1, <2>1, <4>1, <5>1, Zenon
      <4> QED  BY <2>1, <4>2 DEF Speaks
    <3> QED  BY <1>0, <1>1, <2>1, <3>1, <3>2, ConcatAt
  <2>5. HandshakesIn(InFlight(o)') = {} /\ 1 .. Len(InFlight(o)') = {}
    BY <1>4 DEF HandshakesIn
  <2>6. \A x \in Ends : end'[Other(x)].state # "CONNECTED"
    BY <1>6, EndsFacts
  <2> SUFFICES ASSUME NEW x \in Ends
               PROVE  /\ \A k \in 1 .. Len(InFlight(x)') : InFlight(x)'[k].type \in Speaks(x)
                      /\ \A j, k \in HandshakesIn(InFlight(x)') : j = k
                      /\ Live(x)' /\ ~end'[x].handshake_sent
                            => HandshakesIn(InFlight(x)') = {}
    BY <2>6 DEF Handshakes, HandshakesIn, Speaks
  <2>7. CASE x = e
    BY Zenon, <1>1, <2>3, <2>4, <2>7
  <2>8. CASE x = o
    BY <2>5, <2>8
  <2> QED  BY <1>0, <2>7, <2>8
<1>9. /\ <<h>> \in Seq(Msg)
      /\ Deciding(<<h>>, "CHOKE", "UNCHOKE") = {}
      /\ Deciding(<<h>>, "INTERESTED", "NOT_INTERESTED") = {}
      /\ Deciding(<<>>, "CHOKE", "UNCHOKE") = {}
      /\ Deciding(<<>>, "INTERESTED", "NOT_INTERESTED") = {}
  <2>1. /\ <<h>> \in Seq(Msg)
        /\ \A on, off : "HANDSHAKE" \notin {on, off} => Deciding(<<h>>, on, off) = {}
    BY HandshakeMessage DEF h
  <2>2. /\ Deciding(<<>>, "CHOKE", "UNCHOKE") = {}
        /\ Deciding(<<>>, "INTERESTED", "NOT_INTERESTED") = {}
    BY DEF Deciding
  <2> QED  BY <2>1, <2>2
<1>10. ChokeAgrees'
  <2>1. ChokeTold(e)'
    <3>1. Settles(end[o].peer_choking_me, s, "CHOKE", "UNCHOKE", end[e].choking_peer)
      BY Zenon, <1>2, <1>3 DEF SessionInv, ChokeAgrees, ChokeTold, s, o
    <3>2. Settles(end[o].peer_choking_me, s \o <<h>>, "CHOKE", "UNCHOKE",
                  end[e].choking_peer)
      BY Zenon, <1>0, <1>9, <3>1, SettlesQuiet
    <3>3. end'[o].peer_choking_me = end[o].peer_choking_me
      BY Zenon, <1>1, <1>3, AcceptedFacts
    <3>4. Settles(end'[o].peer_choking_me, InFlight(e)', "CHOKE", "UNCHOKE",
                  end'[e].choking_peer)
      BY Zenon, <1>1, <3>2, <3>3
    <3> QED  BY <3>4 DEF ChokeTold, Settles, Deciding, o
  <2>2. ChokeTold(o)'
    <3>1. end'[o].choking_peer = TRUE /\ end'[e].peer_choking_me = TRUE
      <4>1. end[e].peer_choking_me = TRUE
        BY Zenon, <1>0, <1>3 DEF Session
      <4> QED  BY <1>1, <4>1, AcceptedFacts
    <3>2. Settles(end'[e].peer_choking_me, InFlight(o)', "CHOKE", "UNCHOKE",
                  end'[o].choking_peer)
      BY Zenon, <1>4, <1>9, <3>1 DEF Settles
    <3> QED  BY <1>0, <3>2 DEF ChokeTold, Settles, Deciding
  <2> QED  BY Zenon, <1>0, <2>1, <2>2 DEF ChokeAgrees
<1>11. InterestAgrees'
  <2>1. CASE e = D
    <3>1. Settles(end[U].peer_interested, s, "INTERESTED", "NOT_INTERESTED",
                  end[D].am_interested /\ ~done)
      BY Zenon, <1>2, <1>3, <2>1 DEF SessionInv, InterestAgrees, s
    <3>2. Settles(end[U].peer_interested, s \o <<h>>, "INTERESTED", "NOT_INTERESTED",
                  end[D].am_interested /\ ~done)
      BY Zenon, <1>0, <1>9, <3>1, SettlesQuiet
    <3>3. U = o /\ end'[U].peer_interested = end[U].peer_interested
      BY Zenon, <1>0, <1>1, <1>3, <2>1, AcceptedFacts
    <3>4. Settles(end'[U].peer_interested, InFlight(D)', "INTERESTED", "NOT_INTERESTED",
                  end'[D].am_interested /\ ~done')
      BY Zenon, <1>1, <1>2, <2>1, <3>2, <3>3
    <3> QED  BY <3>4 DEF InterestAgrees, Settles, Deciding
  <2>2. CASE e # D
    <3>1. e = U /\ o = D
      BY <1>0, <2>2
    <3>2. end'[D].am_interested = FALSE /\ end'[U].peer_interested = FALSE
      <4>1. end[e].peer_interested = FALSE
        BY Zenon, <1>0, <1>3 DEF Session
      <4> QED  BY <1>1, <3>1, <4>1, AcceptedFacts
    <3>3. Settles(end'[U].peer_interested, InFlight(D)', "INTERESTED", "NOT_INTERESTED",
                  end'[D].am_interested /\ ~done')
      BY Zenon, <1>4, <1>9, <3>1, <3>2 DEF Settles
    <3> QED  BY <3>3 DEF InterestAgrees, Settles, Deciding
  <2> QED  BY <2>1, <2>2
<1> QED  BY <1>5, <1>7, <1>8, <1>10, <1>11 DEF SessionInv

\* What an end says when it reads a handshake: its bitfield, after its own
\* handshake when that has not been sent.
LEMMA AnswerFacts ==
    ASSUME NEW e \in Ends, NEW sent \in BOOLEAN
    PROVE  LET t == (IF sent THEN <<>> ELSE <<Plain("HANDSHAKE")>>) \o <<Plain("BITFIELD")>>
           IN  /\ t \in Seq(Msg)
               /\ \A k \in 1 .. Len(t) : t[k].type \in Speaks(e)
               /\ \A j, k \in HandshakesIn(t) : j = k
               /\ sent => HandshakesIn(t) = {}
               /\ Deciding(t, "CHOKE", "UNCHOKE") = {}
               /\ Deciding(t, "INTERESTED", "NOT_INTERESTED") = {}
<1> DEFINE h == Plain("HANDSHAKE")
           b == Plain("BITFIELD")
           Fine(t) == /\ t \in Seq(Msg)
                      /\ \A k \in 1 .. Len(t) : t[k].type \in Speaks(e)
                      /\ \A j, k \in HandshakesIn(t) : j = k
                      /\ Deciding(t, "CHOKE", "UNCHOKE") = {}
                      /\ Deciding(t, "INTERESTED", "NOT_INTERESTED") = {}
<1>1. h \in Msg /\ b \in Msg /\ h.type = "HANDSHAKE" /\ b.type = "BITFIELD"
  BY MsgFacts DEF MsgTypes
<1>2. "HANDSHAKE" \in Speaks(e) /\ "BITFIELD" \in Speaks(e)
  BY DEF Speaks
<1> HIDE DEF h, b
<1>3. Fine(<<b>>) /\ HandshakesIn(<<b>>) = {}
  <2>1. /\ <<b>> \in Seq(Msg) /\ Len(<<b>>) = 1 /\ <<b>>[1] = b
        /\ \A k \in 1 .. Len(<<b>>) : k = 1
    BY <1>1
  <2>2. /\ HandshakesIn(<<b>>) = {}
        /\ Deciding(<<b>>, "CHOKE", "UNCHOKE") = {}
        /\ Deciding(<<b>>, "INTERESTED", "NOT_INTERESTED") = {}
    BY <1>1, <2>1 DEF HandshakesIn, Deciding
  <2> QED  BY <1>1, <1>2, <2>1, <2>2
<1>4. Fine(<<h, b>>)
  <2>1. /\ <<h, b>> \in Seq(Msg) /\ Len(<<h, b>>) = 2
        /\ <<h, b>>[1] = h /\ <<h, b>>[2] = b
        /\ \A k \in 1 .. Len(<<h, b>>) : k = 1 \/ k = 2
    BY <1>1
  <2>2. /\ HandshakesIn(<<h, b>>) = {1}
        /\ Deciding(<<h, b>>, "CHOKE", "UNCHOKE") = {}
        /\ Deciding(<<h, b>>, "INTERESTED", "NOT_INTERESTED") = {}
    BY <1>1, <2>1 DEF HandshakesIn, Deciding
  <2> QED  BY <1>1, <1>2, <2>1, <2>2
<1>5. <<>> \o <<b>> = <<b>> /\ <<h>> \o <<b>> = <<h, b>>
  <2>1. <<>> \o <<b>> = <<b>>
    OBVIOUS
  <2>2. <<h>> \o <<b>> = Append(<<h>>, b)
    BY <1>1
  <2>3. Append(<<h>>, b) = <<h, b>>
    <3> DEFINE c == Append(<<h>>, b)
               d == <<h, b>>
    <3>1. c \in Seq(Msg) /\ Len(c) = 2 /\ c[1] = h /\ c[2] = b
      BY <1>1
    <3>2. d \in Seq(Msg) /\ Len(d) = 2 /\ d[1] = h /\ d[2] = b
      BY <1>1
    <3> HIDE DEF c, d
    <3>3. \A k \in 1 .. Len(c) : c[k] = d[k]
      BY <3>1, <3>2
    <3>4. c = d
      BY <3>1, <3>2, <3>3, SeqEqual
    <3> QED  BY <3>4 DEF c, d
  <2> QED  BY <2>1, <2>2, <2>3, Zenon
<1> HIDE DEF Fine
<1> DEFINE t == (IF sent THEN <<>> ELSE <<h>>) \o <<b>>
<1>6. Fine(t) /\ (sent => HandshakesIn(t) = {})
  <2>1. CASE sent
    <3>1. t = <<>> \o <<b>>
      BY <2>1, Zenon
    <3>2. t = <<b>>
      BY <1>5, <3>1, Zenon
    <3> HIDE DEF t
    <3> QED  BY <1>3, <3>2, Zenon
  <2>2. CASE ~sent
    <3>1. t = <<h>> \o <<b>>
      BY <2>2, Zenon
    <3>2. t = <<h, b>>
      BY <1>5, <3>1, Zenon
    <3> HIDE DEF t
    <3> QED  BY <1>4, <2>2, <3>2, Zenon
  <2> QED  BY <2>1, <2>2, Zenon
<1> QED  BY <1>6, Zenon DEF Fine, h, b

\* A handshake read: the end is CONNECTED and has queued its answer.
LEMMA ShakenEffect ==
    ASSUME SessionInv, NEW e \in Ends, HandshakeMsg(e),
           Head(wire[Other(e)]).type = "HANDSHAKE"
    PROVE  \E t \in Seq(Msg) :
           /\ t = (IF end[e].handshake_sent THEN <<>> ELSE <<Plain("HANDSHAKE")>>)
                      \o <<Plain("BITFIELD")>>
           /\ end' \in [Ends -> Session] /\ Clean(end'[e])
           /\ end'[Other(e)] = end[Other(e)]
           /\ end'[e].state = "CONNECTED" /\ end'[e].handshake_sent
           /\ end'[e].connected = end[e].connected
           /\ end'[e].choking_peer = end[e].choking_peer
           /\ end'[e].peer_choking_me = end[e].peer_choking_me
           /\ end'[e].peer_interested = end[e].peer_interested
           /\ end'[e].am_interested = end[e].am_interested
           /\ InFlight(e)' = InFlight(e) \o t
<1> DEFINE o == Other(e)
           t == (IF end[e].handshake_sent THEN <<>> ELSE <<Plain("HANDSHAKE")>>)
                    \o <<Plain("BITFIELD")>>
           E == [end EXCEPT ![e].state = "CONNECTED", ![e].handshake_sent = TRUE]
           r == [end[e] EXCEPT !.state = "CONNECTED"]
<1>0. /\ Types /\ end \in [Ends -> Session] /\ end[e] \in Session /\ Clean(end[e])
      /\ o \in Ends /\ o # e /\ end[e].handshake_sent \in BOOLEAN
  BY Zenon, EndsFacts DEF SessionInv, Types, Session
<1>1. /\ end' = send_all(E, e, t)
      /\ wire' = [wire EXCEPT ![o] = Tail(@)]
  BY Zenon DEF HandshakeMsg
<1>2. t \in Seq(Msg)
  BY <1>0, AnswerFacts
<1> HIDE DEF t, o
<1>3. E[e] = [r EXCEPT !.handshake_sent = TRUE] /\ E[o] = end[o]
  BY <1>0
<1>4. r \in Session
  BY <1>0, SessionUpdates
<1>5. /\ r.state = "CONNECTED" /\ r.connected = end[e].connected
      /\ r.writing = end[e].writing /\ r.write_queue = end[e].write_queue
      /\ r.is_writing = end[e].is_writing
      /\ r.choking_peer = end[e].choking_peer
      /\ r.peer_choking_me = end[e].peer_choking_me
      /\ r.peer_interested = end[e].peer_interested
      /\ r.am_interested = end[e].am_interested
  BY <1>0 DEF Session
<1> HIDE DEF r
<1>6. E[e] \in Session /\ E \in [Ends -> Session]
  <2>1. E[e] \in Session
    BY <1>3, <1>4, SessionUpdates, Zenon
  <2> QED  BY <1>0, <2>1
<1> HIDE DEF E
<1>7. /\ E[e].state = r.state /\ E[e].connected = r.connected /\ E[e].handshake_sent
      /\ E[e].writing = r.writing /\ E[e].write_queue = r.write_queue
      /\ E[e].is_writing = r.is_writing
      /\ E[e].choking_peer = r.choking_peer
      /\ E[e].peer_choking_me = r.peer_choking_me
      /\ E[e].peer_interested = r.peer_interested
      /\ E[e].am_interested = r.am_interested
  BY <1>3, <1>4 DEF Session
<1>8. Clean(E[e])
  BY <1>0, <1>5, <1>7 DEF Clean
<1>9. Sent(E, end', e, t)
  BY <1>1, <1>2, <1>6, <1>8, SendAll
<1>10. /\ end' \in [Ends -> Session] /\ Clean(end'[e]) /\ end'[o] = end[o]
       /\ SameFlags(E[e], end'[e])
  BY <1>0, <1>3, <1>9 DEF Sent
<1>11. /\ end'[e].state = "CONNECTED" /\ end'[e].handshake_sent
       /\ end'[e].connected = end[e].connected
       /\ end'[e].choking_peer = end[e].choking_peer
       /\ end'[e].peer_choking_me = end[e].peer_choking_me
       /\ end'[e].peer_interested = end[e].peer_interested
       /\ end'[e].am_interested = end[e].am_interested
  BY Zenon, <1>5, <1>7, <1>10 DEF SameFlags
<1>12. InFlight(e)' = InFlight(e) \o t
  <2>1. wire'[e] = wire[e]
    BY <1>0, <1>1 DEF Types
  <2>2. E[e].writing = end[e].writing /\ E[e].write_queue = end[e].write_queue
    BY <1>5, <1>7
  <2> QED  BY Zenon, <1>0, <1>2, <1>6, <1>9, <2>1, <2>2, StreamSent
<1> QED  BY <1>2, <1>10, <1>11, <1>12, Zenon DEF t, o

\* A session that reads the first message keeps the invariant.
LEMMA HandshakeMsgInv ==
    ASSUME SessionInv, NEW e \in Ends, HandshakeMsg(e)
    PROVE  SessionInv'
<1> DEFINE o == Other(e)
           m == Head(wire[o])
           s == InFlight(e)
           q == InFlight(o)
<1>0. /\ Types /\ end \in [Ends -> Session] /\ end[e] \in Session
      /\ D \in Ends /\ U \in Ends /\ D # U
      /\ o \in Ends /\ o # e /\ Other(o) = e /\ \A x \in Ends : x = e \/ x = o
      /\ s \in Seq(Msg) /\ q \in Seq(Msg) /\ end[e].handshake_sent \in BOOLEAN
  BY Zenon, EndsFacts, InFlightType DEF SessionInv, Types, Session
<1>1. /\ end[e].state = "HANDSHAKE" /\ wire[o] # <<>>
      /\ wire' = [wire EXCEPT ![o] = Tail(@)]
  BY DEF HandshakeMsg
<1>2. Live(e) /\ NoDial /\ end[e].connected
  <2>1. Live(e)
    BY <1>1 DEF Live
  <2>2. NoDial
    BY <1>0, <1>1, ConnectedFacts
  <2> QED  BY <2>1, <2>2 DEF NoDial
<1>3. CASE m.type # "HANDSHAKE"
  <2>1. Drop(e)
    BY <1>3 DEF HandshakeMsg
  <2> QED  BY Zenon, <1>1, <1>2, <2>1, DropInv
<1>4. CASE m.type = "HANDSHAKE"
  <2>1. PICK t \in Seq(Msg) :
           /\ t = (IF end[e].handshake_sent THEN <<>> ELSE <<Plain("HANDSHAKE")>>)
                      \o <<Plain("BITFIELD")>>
           /\ end' \in [Ends -> Session] /\ Clean(end'[e])
           /\ end'[o] = end[o]
           /\ end'[e].state = "CONNECTED" /\ end'[e].handshake_sent
           /\ end'[e].connected = end[e].connected
           /\ end'[e].choking_peer = end[e].choking_peer
           /\ end'[e].peer_choking_me = end[e].peer_choking_me
           /\ end'[e].peer_interested = end[e].peer_interested
           /\ end'[e].am_interested = end[e].am_interested
           /\ InFlight(e)' = InFlight(e) \o t
    BY Zenon, <1>4, ShakenEffect
  <2>2. /\ \A k \in 1 .. Len(t) : t[k].type \in Speaks(e)
        /\ \A j, k \in HandshakesIn(t) : j = k
        /\ end[e].handshake_sent => HandshakesIn(t) = {}
        /\ Deciding(t, "CHOKE", "UNCHOKE") = {}
        /\ Deciding(t, "INTERESTED", "NOT_INTERESTED") = {}
    <3>1. t = (IF end[e].handshake_sent THEN <<>> ELSE <<Plain("HANDSHAKE")>>)
                  \o <<Plain("BITFIELD")>>
      BY Zenon, <2>1
    <3> QED  BY <1>0, <3>1, AnswerFacts, Zenon
  <2>3. UNCHANGED <<reads, posted, slot, sub_req, received, done>>
    BY <1>4 DEF HandshakeMsg, upload, download
  <2>4. /\ q # <<>> /\ InFlight(o)' = Tail(q) /\ Head(q).type = "HANDSHAKE"
    <3>1. /\ end'[o].writing = end[o].writing /\ end'[o].write_queue = end[o].write_queue
          /\ wire'[o] = Tail(wire[o])
      BY <1>0, <1>1, <2>1 DEF Types
    <3> QED  BY Zenon, <1>0, <1>1, <1>4, <3>1, StreamTaken
  <2>5. Types'
    <3>1. wire' \in [Ends -> Seq(Msg)]
      <4>1. wire[o] \in Seq(Msg) /\ Tail(wire[o]) \in Seq(Msg)
        BY <1>0, <1>1 DEF Types
      <4> QED  BY <1>0, <1>1, <4>1, Zenon DEF Types
    <3>2. \A x \in Ends : Clean(end'[x])
      BY Zenon, <1>0, <2>1 DEF Types
    <3> QED  BY <1>0, <2>1, <2>3, <3>1, <3>2, Zenon DEF Types
  <2>6. SameLink
    <3>1. Live(e)' /\ Live(o)' = Live(o)
      BY <2>1 DEF Live
    <3>2. Live(e)' = Live(e)
      BY <1>2, <3>1 DEF Live
    <3> QED  BY Zenon, <1>0, <2>1, <3>1, <3>2 DEF SameLink
  <2>7. Lives'
    <3>1. \A x \in Ends : ~Live(x)' => end'[x] = NoSession
      BY Zenon, <1>0, <1>2, <2>1, <2>6 DEF SessionInv, Lives, SameLink
    <3>2. ~Live(U)' => \A i \in Subs : reads'[i] = 0 /\ posted'[i] = 0
      BY Zenon, <1>0, <2>3, <2>6 DEF SessionInv, Lives, SameLink
    <3>3. \A x \in Ends : Live(x)' => end'[x].connected
      BY Zenon, <1>2, <2>6 DEF SameLink, NoDial
    <3> QED  BY <3>1, <3>2, <3>3 DEF Lives, Live
  <2>8. /\ \A k \in 1 .. Len(s) : s[k].type \in Speaks(e)
        /\ \A j, k \in HandshakesIn(s) : j = k
        /\ ~end[e].handshake_sent => HandshakesIn(s) = {}
        /\ end[o].state = "CONNECTED" => HandshakesIn(s) = {} /\ end[e].handshake_sent
        /\ \A k \in 1 .. Len(q) : q[k].type \in Speaks(o)
        /\ \A j, k \in HandshakesIn(q) : j = k
        /\ Live(o) /\ ~end[o].handshake_sent => HandshakesIn(q) = {}
    BY Zenon, <1>0, <1>2 DEF SessionInv, Handshakes
  <2> DEFINE n == s \o t
             p == Tail(q)
  <2>9. /\ HandshakesIn(t) = {} => HandshakesIn(n) = HandshakesIn(s)
        /\ /\ HandshakesIn(s) = {}
           /\ \A j, k \in HandshakesIn(t) : j = k
           => \A j, k \in HandshakesIn(n) : j = k
    BY <1>0, HandshakesConcat
  <2>10. HandshakesIn(p) = {}
    BY <1>0, <2>4, <2>8, HandshakesTail
  <2>11. \A k \in 1 .. Len(p) : p[k].type \in Speaks(o)
    <3>1. \A k \in 1 .. Len(p) : k + 1 \in 1 .. Len(q) /\ p[k] = q[k + 1]
      BY <1>0, <2>4
    <3> HIDE DEF p, q
    <3> QED  BY Zenon, <2>8, <3>1
  <2>12. \A k \in 1 .. Len(n) : n[k].type \in Speaks(e)
    <3> SUFFICES ASSUME NEW k \in 1 .. Len(n) PROVE n[k].type \in Speaks(e)
      OBVIOUS
    <3>1. \/ k \in 1 .. Len(s) /\ n[k] = s[k]
          \/ \E j \in 1 .. Len(t) : n[k] = t[j]
      <4>1. Len(n) = Len(s) + Len(t)
        BY <1>0, ConcatAt
      <4>2. CASE k \in 1 .. Len(s)
        BY <1>0, <4>2, ConcatAt
      <4>3. CASE k \notin 1 .. Len(s)
        <5>1. k - Len(s) \in 1 .. Len(t) /\ Len(s) + (k - Len(s)) = k
          BY <1>0, <4>1, <4>3
        <5>2. n[Len(s) + (k - Len(s))] = t[k - Len(s)]
          BY Zenon, <1>0, <5>1, ConcatAt
        <5> QED  BY <5>1, <5>2, Zenon
      <4> QED  BY <4>2, <4>3
    <3> HIDE DEF n, s
    <3> QED  BY Zenon, <2>2, <2>8, <3>1
  <2>13. Live(o) => end[o].handshake_sent
    <3>1. 1 \in HandshakesIn(q)
      BY <1>0, <2>4 DEF HandshakesIn
    <3> QED  BY Zenon, <2>8, <3>1
  <2> HIDE DEF n, p, s, q
  <2>14. \A j, k \in HandshakesIn(n) : j = k
    BY Zenon, <2>2, <2>8, <2>9
  <2>15. end[o].state = "CONNECTED" => HandshakesIn(n) = {}
    BY Zenon, <2>2, <2>8, <2>9
  <2>16. Handshakes'
    <3>1. InFlight(e)' = n /\ InFlight(o)' = p
      BY Zenon, <2>1, <2>4 DEF n, p, s
    <3> SUFFICES ASSUME NEW x \in Ends
                 PROVE  /\ \A k \in 1 .. Len(InFlight(x)') :
                              InFlight(x)'[k].type \in Speaks(x)
                        /\ \A j, k \in HandshakesIn(InFlight(x)') : j = k
                        /\ Live(x)' /\ ~end'[x].handshake_sent
                              => HandshakesIn(InFlight(x)') = {}
                        /\ end'[Other(x)].state = "CONNECTED" =>
                              /\ HandshakesIn(InFlight(x)') = {}
                              /\ Live(x)' => end'[x].handshake_sent
      BY DEF Handshakes, HandshakesIn, Speaks
    <3>2. CASE x = e
      BY Zenon, <2>1, <2>12, <2>14, <2>15, <3>1, <3>2 DEF o
    <3>3. CASE x = o
      BY Zenon, <1>0, <2>1, <2>6, <2>10, <2>11, <2>13, <3>1, <3>3 DEF SameLink
    <3> QED  BY Zenon, <1>0, <3>2, <3>3
  <2>17. \A x \in Ends : /\ end'[x].choking_peer = end[x].choking_peer
                         /\ end'[x].peer_choking_me = end[x].peer_choking_me
                         /\ end'[x].peer_interested = end[x].peer_interested
                         /\ end'[x].am_interested = end[x].am_interested
    BY <1>0, <2>1
  <2>18. \A x \in Ends : /\ QuietStep(InFlight(x), InFlight(x)', "CHOKE", "UNCHOKE")
                         /\ QuietStep(InFlight(x), InFlight(x)',
                                      "INTERESTED", "NOT_INTERESTED")
    <3>1. /\ QuietStep(InFlight(e), InFlight(e)', "CHOKE", "UNCHOKE")
          /\ QuietStep(InFlight(e), InFlight(e)', "INTERESTED", "NOT_INTERESTED")
      BY <2>1, <2>2, Zenon DEF QuietStep
    <3>2. /\ QuietStep(InFlight(o), InFlight(o)', "CHOKE", "UNCHOKE")
          /\ QuietStep(InFlight(o), InFlight(o)', "INTERESTED", "NOT_INTERESTED")
      BY <2>4 DEF QuietStep, q
    <3> QED  BY <1>0, <3>1, <3>2
  <2>19. \A x \in Ends : ChokeTold(x)'
    BY Zenon, <2>6, <2>17, <2>18, EndsFacts, ChokeQuiet
  <2>20. ChokeAgrees' /\ InterestAgrees'
    <3>1. InterestAgrees'
      BY Zenon, <1>0, <2>3, <2>6, <2>17, <2>18, InterestQuiet
    <3> QED  BY <2>19, <3>1 DEF ChokeAgrees
  <2> QED  BY <2>5, <2>7, <2>16, <2>20 DEF SessionInv
<1> QED  BY <1>3, <1>4

\* No session, no message: the invariant holds before anyone dials.
LEMMA InitInv ==
    ASSUME Init
    PROVE  SessionInv
<1>0. /\ D \in Ends /\ U \in Ends
      /\ \A x \in Ends : end[x] = NoSession /\ wire[x] = <<>> /\ Other(x) \in Ends
  BY EndsFacts DEF Init
<1>1. NoSession.state = "DISCONNECTED"
  BY SessionTypes DEF NoSession, Session
<1>2. \A x \in Ends : ~Live(x) /\ end[x].state # "CONNECTED"
  BY <1>0, <1>1 DEF Live
<1>3. Types
  <2>1. /\ end \in [Ends -> Session] /\ \A x \in Ends : Clean(end[x])
    BY <1>0, SessionTypes DEF Init
  <2>2. wire \in [Ends -> Seq(Msg)]
    <3>1. <<>> \in Seq(Msg)
      OBVIOUS
    <3> QED  BY <3>1, Zenon DEF Init
  <2>3. slot \in [has : BOOLEAN, pending_requests : 0 .. PipelineCap,
                  consecutive_timeouts : Nat]
    BY SlotTypes, Zenon DEF Init
  <2>4. reads \in [Subs -> Nat] /\ posted \in [Subs -> Nat]
    BY DEF Init
  <2> QED  BY Zenon, <2>1, <2>2, <2>3, <2>4 DEF Types, Init
<1>4. Lives
  <2>1. \A s \in Subs : reads[s] = 0 /\ posted[s] = 0
    BY DEF Init
  <2> QED  BY <1>0, <1>2, <2>1 DEF Lives
<1>5. Handshakes
  <2>1. \A x \in Ends : InFlight(x) = <<>>
    <3>1. NoSession.writing = <<>> /\ NoSession.write_queue = <<>>
      BY AcceptedFacts
    <3>2. (<<>> \o <<>>) \o <<>> = <<>>
      OBVIOUS
    <3> QED  BY <1>0, <3>1, <3>2, Zenon DEF InFlight
  <2>2. Len(<<>>) = 0 /\ 1 .. 0 = {}
    OBVIOUS
  <2> QED  BY <1>0, <1>2, <2>1, <2>2 DEF Handshakes, HandshakesIn
<1>6. ChokeAgrees /\ InterestAgrees
  BY <1>0, <1>2 DEF ChokeAgrees, ChokeTold, InterestAgrees
<1> QED  BY <1>3, <1>4, <1>5, <1>6 DEF SessionInv

\* Every step keeps the invariant.
LEMMA NextInv ==
    ASSUME SessionInv, [Next]_vars
    PROVE  SessionInv'
<1>1. CASE \E e \in Ends : Dial(e) \/ Establish(e) \/ Break(e) \/ Error(e)
  BY <1>1, DialInv, EstablishInv, BreakInv
<1>2. CASE \E e \in Ends : WriteDone(e) \/ HandshakeMsg(e)
  BY <1>2, WriteDoneInv, HandshakeMsgInv
<1>3. CASE \E e \in Ends, choked \in BOOLEAN : TickChoke(e, choked)
  BY <1>3, TickChokeInv
<1>4. CASE \E s \in Subs : Ask(s) \/ ReadDone(s) \/ ReadFails(s) \/ SendPiece(s)
  BY <1>4, AskInv, ReadDoneInv, ReadFailsInv, SendPieceInv
<1>5. CASE \E late \in Late : EvalTick(late)
  BY <1>5, EvalTickInv
<1>6. CASE Complete
  BY <1>6, CompleteInv
<1>7. CASE DownloaderMsg
  BY <1>7, DownloaderMsgInv
<1>8. CASE SeedMsg
  BY <1>8, SeedMsgInv
<1>9. CASE UNCHANGED vars
  <2>1. /\ end' = end /\ wire' = wire /\ reads' = reads /\ posted' = posted
        /\ slot' = slot /\ sub_req' = sub_req /\ received' = received /\ done' = done
    BY <1>9 DEF vars
  <2>2. /\ Types' = Types /\ Lives' = Lives
    BY <2>1 DEF Types, Lives, Live
  <2>3. Handshakes' /\ ChokeAgrees' /\ InterestAgrees'
    BY <2>1, SameSessions
  <2> QED  BY <2>2, <2>3 DEF SessionInv
<1> QED
  BY <1>1, <1>2, <1>3, <1>4, <1>5, <1>6, <1>7, <1>8, <1>9 DEF Next

\* The invariant of the two sessions of a connection, across any number of
\* breaks and new connections.
THEOREM SessionInvariance == Spec => []SessionInv
<1>1. Init => SessionInv
  BY InitInv
<1>2. SessionInv /\ [Next]_vars => SessionInv'
  BY NextInv
<1> QED  BY <1>1, <1>2, PTL DEF Spec

\* Types, for every number of sub-blocks and every cap: one message at most is
\* with the socket, the slot's request count stays within the pipeline cap.
THEOREM TypeCorrect == Spec => []TypeOK
<1>1. SessionInv => TypeOK
  <2> SUFFICES ASSUME SessionInv PROVE TypeOK
    OBVIOUS
  <2>1. /\ Types /\ slot.pending_requests \in 0 .. PipelineCap
    BY DEF SessionInv, Types
  <2>2. ASSUME NEW e \in Ends
        PROVE  /\ end[e].state \in {"HANDSHAKE", "CONNECTED", "DISCONNECTED"}
               /\ end[e].write_queue \in Seq(Msg)
               /\ end[e].writing \in Seq(Msg) /\ Len(end[e].writing) <= 1
               /\ end[e].cancelled_set \union end[e].pending_times \subseteq Subs
    <3>1. end[e] \in Session /\ Clean(end[e])
      BY <2>1 DEF Types
    <3>2. /\ end[e].state \in {"HANDSHAKE", "CONNECTED", "DISCONNECTED"}
          /\ end[e].write_queue \in Seq(Msg) /\ end[e].writing \in Seq(Msg)
          /\ end[e].cancelled_set \in SUBSET Subs /\ end[e].pending_times \in SUBSET Subs
          /\ end[e].is_writing \in BOOLEAN
      BY <3>1 DEF Session
    <3>3. Len(end[e].writing) <= 1
      <4>1. CASE end[e].is_writing
        <5>1. Len(end[e].writing) = 1
          BY <3>1, <4>1, Zenon DEF Clean
        <5> QED  BY <5>1
      <4>2. CASE ~end[e].is_writing
        BY <3>1, <4>2 DEF Clean
      <4> QED  BY <4>1, <4>2
    <3> QED  BY <3>2, <3>3
  <2> QED  BY Zenon, <2>1, <2>2 DEF TypeOK, Types
<1> QED  BY <1>1, SessionInvariance, PTL

\* No queued message waits without a write under way: do_write is always
\* re-armed by send_message or by the handler of the write before it, and a
\* session that ends leaves neither behind.
THEOREM NoStranded == Spec => []NoStrandedWrite
<1>1. SessionInv => NoStrandedWrite
  <2> SUFFICES ASSUME SessionInv, NEW e \in Ends
               PROVE  /\ end[e].write_queue # <<>> => end[e].is_writing
                      /\ end[e].is_writing <=> end[e].writing # <<>>
    BY DEF NoStrandedWrite
  <2>1. end[e].writing \in Seq(Msg) /\ Clean(end[e])
    BY DEF SessionInv, Types, Session
  <2>2. CASE end[e].is_writing
    <3>1. Len(end[e].writing) = 1
      BY <2>1, <2>2, Zenon DEF Clean
    <3>2. end[e].writing # <<>>
      BY <3>1
    <3> QED  BY <2>2, <3>2
  <2>3. CASE ~end[e].is_writing
    BY <2>1, <2>3 DEF Clean
  <2> QED  BY <2>2, <2>3
<1> QED  BY <1>1, SessionInvariance, PTL

\* The two ends agree on choking up to the messages in flight: what an end
\* believes becomes what the other decided once everything that one has sent is
\* read, whatever was queued, half-written or on the wire when it changed its
\* mind.
THEOREM ChokeAgreed == Spec => []ChokeAgreement
<1>1. SessionInv => ChokeAgreement
  <2> SUFFICES ASSUME SessionInv, BothConnected, NEW e \in Ends
               PROVE  Settles(end[Other(e)].peer_choking_me, InFlight(e),
                              "CHOKE", "UNCHOKE", end[e].choking_peer)
    BY DEF ChokeAgreement
  <2>1. Live(e) /\ Live(Other(e))
    BY EndsFacts DEF BothConnected, Live
  <2> QED  BY <2>1 DEF SessionInv, ChokeAgrees, ChokeTold
<1> QED  BY <1>1, SessionInvariance, PTL

\* The same of D's interest, which ends when its task completes.
THEOREM InterestAgreed == Spec => []InterestAgreement
<1>1. SessionInv => InterestAgreement
  <2> SUFFICES ASSUME SessionInv, BothConnected
               PROVE  Settles(end[U].peer_interested, InFlight(D),
                              "INTERESTED", "NOT_INTERESTED",
                              end[D].am_interested /\ ~done)
    BY DEF InterestAgreement
  <2>1. Live(U) /\ Live(D)
    BY EndsFacts DEF BothConnected, Live
  <2> QED  BY <2>1 DEF SessionInv, InterestAgrees
<1> QED  BY <1>1, SessionInvariance, PTL
=============================================================================
