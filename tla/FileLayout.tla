---------------------------- MODULE FileLayout ----------------------------
(***************************************************************************)
(* From a file to chunks and from chunks to memory: fastcdc_scan_buffer    *)
(* cuts the source file, and cmd_add or cmd_update opens the output file   *)
(* with SegmentWriter, gets the address of every chunk in it, and marks    *)
(* the chunks that the file holds, or that are copied from an old file.    *)
(* The task may be killed and added again, and the output file may be      *)
(* anything when it is.                                                    *)
(*                                                                         *)
(* Bytes are positions; of their contents only two things are kept: which  *)
(* positions the rolling hash matches at, any at all, and which bytes of   *)
(* the output file are the right ones.                                     *)
(***************************************************************************)
EXTENDS Integers, Sequences, FiniteSets

CONSTANTS
    FileSize,       \* size of the source file
    MinSize,        \* FastCDCConfig::min_size
    MaxSize,        \* FastCDCConfig::max_size
    MaxChunkSize,   \* MAX_CHUNK_SIZE
    SegmentSize,    \* what SegmentWriter::open is asked for
    MaxAdds         \* bound: times the task is added

ASSUME LayoutAssumption ==
    /\ FileSize \in Nat \ {0}
    /\ SegmentSize \in Nat \ {0}
    /\ MaxChunkSize \in Nat
    /\ MaxSize \in 1 .. MaxChunkSize
    /\ MinSize \in 1 .. MaxSize

VARIABLES
    scan,       \* fastcdc_scan_buffer: its i and offset_start
    chunks,     \* the ChunkEntries so far
    disk,       \* the output file: its size, and the positions that are right
    writer,     \* SegmentWriter
    bases,      \* the addresses the ChunkAssemblers hold
    have,       \* chunks known to be complete
    task,       \* how far cmd_add is
    adds        \* bound bookkeeping

vars == <<scan, chunks, disk, writer, bases, have, task, adds>>

NoSegment == -1
ClosedWriter == [open |-> FALSE, file_size |-> 0, segment_size |-> 0,
                 segment_count |-> 0, mapped_segments |-> <<>>, cached |-> NoSegment]

BytesOf(chunk) == chunk.offset .. chunk.offset + chunk.length - 1

\* What may be at save_path when a task is added: nothing, a file of another
\* size, or one of the right size with some right bytes in it.
Files == [size : {0, FileSize + 1}, right : {{}}]
             \union [size : {FileSize}, right : {{}, 0 .. FileSize - 1}]

Init ==
    /\ scan = [i |-> 0, offset_start |-> 0]
    /\ chunks = <<>>
    /\ disk \in Files
    /\ writer = ClosedWriter
    /\ bases = <<>>
    /\ have = {}
    /\ task = "none"
    /\ adds = 0

-----------------------------------------------------------------------------
(* fastcdc_scan_buffer.                                                     *)

\* Slip: the length at the last byte is not special and a short tail is left
\* to the next chunk, which never comes.
MutantCuts(pos, matched, last) == (pos >= MinSize /\ matched) \/ pos >= MaxSize

\* Slip: > for >=.
MutantCutsLate(pos, matched, last) == (pos >= MinSize /\ matched) \/ pos > MaxSize \/ last

\* Whether a chunk ends at its pos-th byte.
Cuts(pos, matched, last) == (pos >= MinSize /\ matched) \/ pos >= MaxSize \/ last

\* One iteration of the loop; the hash matches or does not.
ScanStep(matched) ==
    LET pos == scan.i - scan.offset_start + 1
        last == scan.i = FileSize - 1
        len == IF last THEN FileSize - scan.offset_start ELSE pos
    IN  /\ scan.i < FileSize
        /\ IF Cuts(pos, matched, last)
           THEN /\ chunks' = Append(chunks, [offset |-> scan.offset_start, length |-> len])
                /\ scan' = [i |-> scan.i + 1, offset_start |-> scan.i + 1]
           ELSE /\ scan' = [scan EXCEPT !.i = @ + 1]
                /\ UNCHANGED chunks
        /\ UNCHANGED <<disk, writer, bases, have, task, adds>>

Scanned == scan.i = FileSize

\* write_tseed: the file size of the seed.
SeedSize ==
    LET ends == {chunks[k].offset + chunks[k].length : k \in DOMAIN chunks} \union {0}
    IN CHOOSE e \in ends : \A d \in ends : d <= e

-----------------------------------------------------------------------------
(* SegmentWriter.                                                           *)

\* Slip: without the guard region behind the segment.
MutantMapSize(w, seg) ==
    IF w.segment_size < w.file_size - seg * w.segment_size
    THEN w.segment_size ELSE w.file_size - seg * w.segment_size

\* map_segment maps a segment and MAX_CHUNK_SIZE bytes more.
MapSize(w, seg) ==
    IF w.segment_size + MaxChunkSize < w.file_size - seg * w.segment_size
    THEN w.segment_size + MaxChunkSize ELSE w.file_size - seg * w.segment_size

\* Slip: O_TRUNC whatever the size.
MutantOpenWriter ==
    LET seg_size == IF SegmentSize < MaxChunkSize THEN MaxChunkSize ELSE SegmentSize
    IN  /\ writer' = [open |-> TRUE, file_size |-> SeedSize, segment_size |-> seg_size,
                      segment_count |-> (SeedSize + seg_size - 1) \div seg_size,
                      mapped_segments |-> <<>>, cached |-> NoSegment]
        /\ disk' = [size |-> SeedSize, right |-> {}]

\* open: the layout, and the file, kept when its size is right.
OpenWriter ==
    LET seg_size == IF SegmentSize < MaxChunkSize THEN MaxChunkSize ELSE SegmentSize
    IN  /\ writer' = [open |-> TRUE, file_size |-> SeedSize, segment_size |-> seg_size,
                      segment_count |-> (SeedSize + seg_size - 1) \div seg_size,
                      mapped_segments |-> <<>>, cached |-> NoSegment]
        /\ disk' = IF disk.size = SeedSize THEN disk ELSE [size |-> SeedSize, right |-> {}]

\* The checks of get_chunk_base before it maps anything.
Valid(w, c) ==
    /\ w.open
    /\ c.offset + c.length <= w.file_size
    /\ c.length <= MaxChunkSize
    /\ c.offset \div w.segment_size < w.segment_count

\* The segment get_chunk_base looks into: the cached one, or one it finds.
SegmentOf(w, c) == c.offset \div w.segment_size

\* Slip: a new segment takes the place of the one before.
MutantWithSegment(w, seg) == [s \in {seg} |-> MapSize(w, seg)]

\* mapped_segments_ once get_chunk_base has mapped segment seg, if it had to.
WithSegment(w, seg) ==
    IF seg \in DOMAIN w.mapped_segments THEN w.mapped_segments
    ELSE [s \in DOMAIN w.mapped_segments \union {seg} |->
             IF s = seg THEN MapSize(w, seg) ELSE w.mapped_segments[s]]

\* close(): unmap_all and close the descriptor.
Closed == writer' = ClosedWriter /\ bases' = <<>> /\ task' = "none"

-----------------------------------------------------------------------------
(* cmd_add.                                                                 *)

\* The task starts: writer->open.
Add ==
    /\ Scanned /\ task = "none" /\ adds < MaxAdds
    /\ adds' = adds + 1
    /\ OpenWriter
    /\ task' = "mapping"
    /\ bases' = <<>>
    /\ have' = {}
    /\ UNCHANGED <<scan, chunks>>

\* The next chunk gets its base: a segment and an offset in it.
GetChunkBase ==
    LET c == chunks[Len(bases) + 1]
        seg == SegmentOf(writer, c)
        mapped == WithSegment(writer, seg)
        offset_in_seg == c.offset - seg * writer.segment_size
    IN  /\ task = "mapping" /\ Len(bases) < Len(chunks)
        /\ IF Valid(writer, c) /\ offset_in_seg + c.length <= mapped[seg]
           THEN /\ writer' = [writer EXCEPT !.mapped_segments = mapped, !.cached = seg]
                /\ bases' = Append(bases, [segment |-> seg, at |-> offset_in_seg])
                /\ UNCHANGED task
           ELSE writer' = ClosedWriter /\ bases' = <<>> /\ task' = "error"
        /\ UNCHANGED <<scan, chunks, disk, have, adds>>

\* mmap fails: cmd_add gives up, and what it had built is destroyed.
MapFails ==
    /\ task = "mapping" /\ Len(bases) < Len(chunks)
    /\ SegmentOf(writer, chunks[Len(bases) + 1]) \notin DOMAIN writer.mapped_segments
    /\ Closed
    /\ UNCHANGED <<scan, chunks, disk, have, adds>>

\* fastcdc_scan_file on the output file and the comparison of SHA-256, offset
\* and length: chunks are found when the local cuts fall where they did.
Resume(found) ==
    /\ task = "mapping" /\ Len(bases) = Len(chunks)
    /\ \A k \in found : BytesOf(chunks[k]) \subseteq disk.right
    /\ have' = have \union found
    /\ task' = "downloading"
    /\ UNCHANGED <<scan, chunks, disk, writer, bases, adds>>

\* Slip: a chunk is marked whatever clone_range returned.
MutantReuse(copied, marked) ==
    /\ task = "mapping" /\ Len(bases) = Len(chunks)
    /\ disk' = [disk EXCEPT !.right = @ \union UNION {BytesOf(chunks[k]) : k \in marked}]
    /\ have' = copied
    /\ task' = "downloading"
    /\ UNCHANGED <<scan, chunks, writer, bases, adds>>

\* cmd_update: chunks that the old file holds, by SHA-256 and length, are
\* copied from there to their offset by clone_range, and marked when all of
\* it was copied.  What the output file held is not looked at.  The old file
\* is another file; a copy cut short is all or nothing here.
Reuse(copied, marked) ==
    /\ task = "mapping" /\ Len(bases) = Len(chunks)
    /\ disk' = [disk EXCEPT !.right = @ \union UNION {BytesOf(chunks[k]) : k \in copied}]
    /\ have' = marked
    /\ task' = "downloading"
    /\ UNCHANGED <<scan, chunks, writer, bases, adds>>

\* The bytes of the file that are behind a base.
Behind(k) ==
    LET first == bases[k].segment * writer.segment_size + bases[k].at
    IN first .. first + chunks[k].length - 1

\* Chunk k is downloaded through its base and verified; or it was verified
\* before, and put_sub_block, which does not ask, writes its bytes again.
WriteChunk(k) ==
    /\ task = "downloading" /\ k \in DOMAIN chunks
    /\ disk' = [disk EXCEPT !.right = @ \union Behind(k)]
    /\ have' = have \union {k}
    /\ UNCHANGED <<scan, chunks, writer, bases, task, adds>>

\* A piece of chunk k arrives that is not right.  on_piece copies it
\* before it looks at the bitmask: a late duplicate lands in the file even
\* when the chunk is verified, and nothing verifies the chunk again.
SpoilChunk(k) ==
    /\ task = "downloading" /\ k \in DOMAIN chunks
    /\ disk' = [disk EXCEPT !.right = @ \ Behind(k)]
    /\ UNCHANGED <<scan, chunks, writer, bases, have, task, adds>>

\* The task is removed or the daemon killed; mapped pages reach the file.
Stop ==
    /\ task \in {"mapping", "downloading"}
    /\ Closed
    /\ have' = {}
    /\ UNCHANGED <<scan, chunks, disk, adds>>

\* Meanwhile somebody puts another file there.
ReplaceFile ==
    /\ task = "none" /\ adds \in 1 .. MaxAdds - 1
    /\ disk' \in Files
    /\ UNCHANGED <<scan, chunks, writer, bases, have, task, adds>>

Next ==
    \/ \E matched \in BOOLEAN : ScanStep(matched)
    \/ Add \/ GetChunkBase \/ MapFails \/ Stop \/ ReplaceFile
    \/ \E found \in SUBSET DOMAIN chunks : Resume(found)
    \/ \E copied \in SUBSET DOMAIN chunks : \E marked \in SUBSET copied : Reuse(copied, marked)
    \/ \E k \in DOMAIN chunks : WriteChunk(k) \/ SpoilChunk(k)

Spec == Init /\ [][Next]_vars

-----------------------------------------------------------------------------
(* Properties.                                                              *)

\* The scan stays in the file, and chunks, bases and segments are well formed.
TypeOK ==
    /\ scan.i \in 0 .. FileSize /\ scan.offset_start \in 0 .. FileSize
    /\ \A k \in DOMAIN chunks : chunks[k].length \in 1 .. MaxSize
    /\ disk.size \in Nat /\ disk.right \subseteq 0 .. disk.size - 1
    /\ task \in {"none", "mapping", "downloading", "error"}
    /\ have \subseteq DOMAIN chunks
    /\ Len(bases) <= Len(chunks)

\* The chunks of a scanned file cover it in order, without gap or overlap, and
\* only the last may be shorter than min_size.
ChunksTile ==
    /\ Scanned => SeedSize = FileSize
    /\ \A k \in DOMAIN chunks :
          /\ chunks[k].offset =
                IF k = 1 THEN 0 ELSE chunks[k - 1].offset + chunks[k - 1].length
          /\ chunks[k].length < MinSize => k = Len(chunks) /\ Scanned

\* Every chunk the scan makes gets an address, across segment boundaries too:
\* cmd_add never answers "mmap chunk base failed" unless mmap itself failed.
EveryChunkPlaced == task # "error"

\* A chunk's base is backed by a mapping, and the bytes behind it are the ones
\* of the chunk, for as long as the task lives: later segments that are mapped
\* leave it where it is, and no two chunks share a byte.
BasesStayRight ==
    \A k \in DOMAIN bases :
        /\ bases[k].segment \in DOMAIN writer.mapped_segments
        /\ bases[k].at + chunks[k].length <= writer.mapped_segments[bases[k].segment]
        /\ Behind(k) = BytesOf(chunks[k])

OnDisk(k) == BytesOf(chunks[k]) \subseteq disk.right

\* A chunk is on disk when a task starts to take it for complete, downloaded,
\* copied or found by the resume scan: after a crash, on a file of another
\* size that open has cut, on one that was replaced, on one that a late wrong
\* piece had spoiled.  While it is taken for complete, a wrong piece of that
\* very chunk is the one thing that takes its bytes away.
CompleteIsOnDisk ==
    [][\A k \in have' :
          OnDisk(k)' \/ SpoilChunk(k) \/ (k \in have /\ ~OnDisk(k))]_vars

\* A file of the seed's size loses right bytes only when it is replaced, or to
\* a wrong piece of a chunk, verified or not, and then bytes of that chunk
\* only: a crash, a restart and the resume scan keep what was downloaded.
RestartKeepsData ==
    [][/\ disk.size = SeedSize /\ Scanned
       /\ ~(disk.right \subseteq disk'.right)
       => \/ ReplaceFile
          \/ \E k \in DOMAIN chunks :
                SpoilChunk(k) /\ disk.right \ disk'.right \subseteq BytesOf(chunks[k])]_vars
=============================================================================
