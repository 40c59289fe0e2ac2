---------------------------- MODULE MCScheduler ----------------------------
(* Small instances of Scheduler for TLC.                                    *)
EXTENDS Scheduler

\* Chunks of one sub-block each.
Ones == [c \in 0 .. NumChunks - 1 |-> 1]

Seeds == [id \in 0 .. MaxConns - 1 |-> 0 .. NumChunks - 1]
\* The first peer is a seed, the others have one chunk to start with.
SeedAndPartial == [Seeds EXCEPT ![1] = {0}]

\* Three starts: a seed beside a partial peer, so that requests are moved,
\* with one fault to come; two seeds and MaxFaults faults; the same for a
\* download that is resumed.
MCInit ==
    \/ InitFrom({}, SeedAndPartial, MaxFaults - 1)
    \/ InitFrom({}, Bitfields, 0)
    \/ InitFrom(Resumed, Bitfields, 0)

MCSpec == MCInit /\ [][Next]_vars
=============================================================================
