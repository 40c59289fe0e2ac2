-------------------------- MODULE ChunkCompletion --------------------------
(* What the I/O side promises to the SHA-256 side, without threads, masks   *)
(* or counters: sub-blocks get written, and a chunk is announced once, after *)
(* all of its sub-blocks were written.                                       *)
EXTENDS Naturals

CONSTANTS Chunks, SubsOf(_)

VARIABLES written, announced

Init ==
    /\ written = {}
    /\ announced = [c \in Chunks |-> 0]

Write(sub) ==
    /\ written' = written \union {sub}
    /\ UNCHANGED announced

Announce(c) ==
    /\ SubsOf(c) \subseteq written
    /\ announced[c] = 0
    /\ announced' = [announced EXCEPT ![c] = 1]
    /\ UNCHANGED written

Next ==
    \/ \E c \in Chunks : Announce(c)
    \/ \E c \in Chunks : \E sub \in SubsOf(c) : Write(sub)

Spec == Init /\ [][Next]_<<written, announced>>
=============================================================================
