-------------------------- MODULE MCChunkPipeline --------------------------
(* Small instances of ChunkPipeline.  Sizes are in units of half a          *)
(* SUB_BLOCK_SIZE, so that a chunk can end in the middle of a sub-block.    *)
EXTENDS ChunkPipeline, Bitwise

CONSTANT NumIOWorkers
MCIOWorkers == 0 .. NumIOWorkers - 1

\* IOWorkerPool::dispatch: (chunk_idx ^ slot_idx) % num_workers_.
XorRoute(c, s) == (c ^^ s) % NumIOWorkers

\* Two chunks of two and one sub-blocks, both ending on a sub-block boundary.
AlignedSize == [c \in 0 .. 1 |-> IF c = 0 THEN 4 ELSE 2]
AlignedOffset == [c \in 0 .. 1 |-> IF c = 0 THEN 0 ELSE 4]

\* Three chunks; the one in the middle is shorter than a sub-block, so the
\* piece that a peer sends for it crosses its end and is rejected.  The last
\* one is as short, but there the file ends.
CutSize == [c \in 0 .. 2 |-> <<4, 1, 1>>[c + 1]]
CutOffset == [c \in 0 .. 2 |-> <<0, 4, 5>>[c + 1]]

\* The first chunk ends inside its second sub-block, as FastCDC cuts do.
InnerSize == [c \in 0 .. 1 |-> IF c = 0 THEN 3 ELSE 2]
InnerOffset == [c \in 0 .. 1 |-> IF c = 0 THEN 0 ELSE 3]
=============================================================================
