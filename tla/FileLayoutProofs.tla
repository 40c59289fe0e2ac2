-------------------------- MODULE FileLayoutProofs --------------------------
(* Proofs about FileLayout for every file size, chunk sizes and segment     *)
(* size, and whatever positions the rolling hash matches at.                *)
EXTENDS FileLayout, TLAPS

Chunk == [offset : Nat, length : 1 .. MaxSize]
EndOf(c) == c.offset + c.length

\* The loop of fastcdc_scan_buffer is never further than MaxSize behind.
ScanInv ==
    /\ scan \in [i : 0 .. FileSize, offset_start : 0 .. FileSize]
    /\ scan.offset_start <= scan.i
    /\ scan.i - scan.offset_start < MaxSize
    /\ Scanned => scan.offset_start = FileSize

\* The chunks so far end where the next one starts, and do not overlap.
ChunkInv ==
    /\ chunks \in Seq(Chunk)
    /\ Len(chunks) = 0 => scan.offset_start = 0
    /\ Len(chunks) # 0 => EndOf(chunks[Len(chunks)]) = scan.offset_start
    /\ \A k \in DOMAIN chunks : EndOf(chunks[k]) <= scan.offset_start
    /\ \A j, k \in DOMAIN chunks : j < k => EndOf(chunks[j]) <= chunks[k].offset
    /\ \A k \in DOMAIN chunks :
          /\ chunks[k].offset = IF k = 1 THEN 0 ELSE EndOf(chunks[k - 1])
          /\ chunks[k].length < MinSize => k = Len(chunks) /\ Scanned

\* The layout that open computes for a file that has been cut completely.
SegSize == IF SegmentSize < MaxChunkSize THEN MaxChunkSize ELSE SegmentSize
SegCount == (FileSize + SegSize - 1) \div SegSize
SizeOf(s) ==
    IF SegSize + MaxChunkSize < FileSize - s * SegSize
    THEN SegSize + MaxChunkSize ELSE FileSize - s * SegSize

\* The writer of a task: its layout, and segments mapped in their full size.
WriterInv ==
    /\ writer = [open |-> TRUE, file_size |-> FileSize, segment_size |-> SegSize,
                 segment_count |-> SegCount,
                 mapped_segments |-> writer.mapped_segments, cached |-> writer.cached]
    /\ \A s \in DOMAIN writer.mapped_segments : writer.mapped_segments[s] = SizeOf(s)

\* A base is the quotient and the remainder of its chunk's offset.
BaseOf(c) == [segment |-> c.offset \div SegSize,
              at |-> c.offset - (c.offset \div SegSize) * SegSize]
BaseInv ==
    /\ bases \in Seq([segment : Nat, at : Nat])
    /\ Len(bases) <= Len(chunks)
    /\ \A k \in DOMAIN bases :
          /\ bases[k] = BaseOf(chunks[k])
          /\ bases[k].segment \in DOMAIN writer.mapped_segments

\* How far cmd_add is, and what it has then.
TaskInv ==
    /\ task \in {"none", "mapping", "downloading"}
    /\ task = "none" => bases = <<>>
    /\ task # "none" => Scanned /\ disk.size = FileSize /\ WriterInv
    /\ task # "downloading" => have = {}
    /\ task = "downloading" => Len(bases) = Len(chunks)

DiskInv ==
    /\ disk \in [size : Nat, right : SUBSET Nat]
    /\ disk.right \subseteq 0 .. disk.size - 1
    /\ have \subseteq DOMAIN chunks

\* The inductive invariant.
LayoutInv == ScanInv /\ ChunkInv /\ BaseInv /\ TaskInv /\ DiskInv

-----------------------------------------------------------------------------
(* Arithmetic.                                                              *)

\* Quotient and remainder.
LEMMA Division ==
    ASSUME NEW a \in Nat, NEW b \in Nat \ {0}
    PROVE  /\ a \div b \in Nat
           /\ (a \div b) * b \in Nat
           /\ (a \div b) * b <= a
           /\ a < (a \div b) * b + b
OBVIOUS

\* Multiplication by a segment size keeps the order.
LEMMA Monotone ==
    ASSUME NEW a \in Nat, NEW b \in Nat, NEW s \in Nat \ {0}, a * s < b * s
    PROVE  a < b
<1> SUFFICES ASSUME b <= a PROVE b * s <= a * s
  OBVIOUS
<1>1. (a - b) * s \in Nat /\ (a - b) * s = a * s - b * s
  OBVIOUS
<1> QED  BY <1>1

\* The size of a segment that open settles on.
LEMMA SegSizeFacts ==
    /\ SegSize \in Nat \ {0} /\ SegSize >= MaxChunkSize
    /\ MaxChunkSize \in Nat \ {0} /\ MinSize \in Nat \ {0} /\ MaxSize \in Nat \ {0}
    /\ MaxSize <= MaxChunkSize /\ MinSize <= MaxSize
    /\ FileSize \in Nat \ {0}
BY LayoutAssumption DEF SegSize

\* A chunk that starts in a segment lies in the segment and the guard region
\* behind it, and so in what map_segment maps.
LEMMA Placed ==
    ASSUME NEW o \in Nat, NEW l \in 1 .. MaxSize, o + l <= FileSize
    PROVE  LET q == o \div SegSize IN
           /\ q \in Nat
           /\ q < SegCount
           /\ o - q * SegSize \in Nat
           /\ (o - q * SegSize) + l <= SizeOf(q)
           /\ q * SegSize + (o - q * SegSize) = o
<1> DEFINE q == o \div SegSize
           m == q * SegSize
<1>1. q \in Nat /\ m \in Nat /\ m <= o /\ o < m + SegSize
  BY Division, SegSizeFacts
<1>2. q < SegCount
  <2> DEFINE n == SegCount
  <2>1. FileSize + SegSize - 1 \in Nat
    BY SegSizeFacts
  <2>2. n \in Nat /\ n * SegSize \in Nat /\ FileSize + SegSize - 1 < n * SegSize + SegSize
    BY <2>1, Division, SegSizeFacts DEF SegCount
  <2> HIDE DEF n, q
  <2>3. m < n * SegSize
    BY <1>1, <2>2, SegSizeFacts DEF q
  <2>4. q < n
    BY <1>1, <2>2, <2>3, Monotone, SegSizeFacts
  <2> QED  BY <2>4 DEF n, q
<1>3. SizeOf(q) = IF SegSize + MaxChunkSize < FileSize - m
                  THEN SegSize + MaxChunkSize ELSE FileSize - m
  BY DEF SizeOf
<1> HIDE DEF m
<1>4. o - m \in Nat /\ (o - m) + l <= SizeOf(q) /\ m + (o - m) = o
  BY <1>1, <1>3, SegSizeFacts
<1> QED  BY <1>1, <1>2, <1>4 DEF m

-----------------------------------------------------------------------------
(* The scan.                                                                *)

\* The initial states satisfy the invariant.
LEMMA InitLayout == Init => LayoutInv
<1> SUFFICES ASSUME Init PROVE LayoutInv
  OBVIOUS
<1>1. ScanInv
  BY SegSizeFacts DEF Init, ScanInv, Scanned
<1>2. ChunkInv
  BY <1>1 DEF Init, ChunkInv
<1>3. BaseInv /\ TaskInv
  BY DEF Init, BaseInv, TaskInv
<1>4. DiskInv
  <2>1. disk \in [size : Nat, right : SUBSET Nat] /\ disk.right \subseteq 0 .. disk.size - 1
    BY SegSizeFacts DEF Init, Files
  <2> QED  BY <2>1 DEF Init, DiskInv
<1> QED  BY <1>1, <1>2, <1>3, <1>4 DEF LayoutInv

\* The facts of a scan that is not over.
LEMMA ScanFacts ==
    ASSUME ScanInv, scan.i < FileSize
    PROVE  /\ scan.i \in Nat /\ scan.offset_start \in Nat
           /\ scan.i - scan.offset_start + 1 \in 1 .. MaxSize
           /\ scan = [i |-> scan.i, offset_start |-> scan.offset_start]
           /\ ~Scanned
BY SegSizeFacts DEF ScanInv, Scanned

\* One byte more in the current chunk.
LEMMA NoCutStep ==
    ASSUME ScanInv, ChunkInv, scan.i < FileSize, NEW matched,
           ~Cuts(scan.i - scan.offset_start + 1, matched, scan.i = FileSize - 1),
           scan' = [scan EXCEPT !.i = scan.i + 1], chunks' = chunks
    PROVE  ScanInv' /\ ChunkInv'
<1>1. /\ scan.i \in Nat /\ scan.offset_start \in Nat
      /\ scan.i - scan.offset_start + 1 \in 1 .. MaxSize
      /\ scan = [i |-> scan.i, offset_start |-> scan.offset_start]
      /\ ~Scanned
  BY ScanFacts
<1>2. scan.i - scan.offset_start + 1 < MaxSize /\ scan.i + 1 < FileSize
  BY <1>1, SegSizeFacts DEF Cuts
<1>3. scan' = [i |-> scan.i + 1, offset_start |-> scan.offset_start]
  BY <1>1
<1>4. scan'.i = scan.i + 1 /\ scan'.offset_start = scan.offset_start
  BY <1>3
<1>5. ScanInv'
  BY <1>1, <1>2, <1>3, <1>4, SegSizeFacts DEF ScanInv, Scanned
<1>6. ChunkInv'
  BY <1>1, <1>4 DEF ChunkInv, Scanned
<1> QED  BY <1>5, <1>6

\* A chunk ends at the current byte.
LEMMA CutStep ==
    ASSUME ScanInv, ChunkInv, scan.i < FileSize, NEW matched,
           Cuts(scan.i - scan.offset_start + 1, matched, scan.i = FileSize - 1),
           NEW len \in Nat, len = scan.i - scan.offset_start + 1,
           chunks' = Append(chunks, [offset |-> scan.offset_start, length |-> len]),
           scan' = [i |-> scan.i + 1, offset_start |-> scan.i + 1]
    PROVE  ScanInv' /\ ChunkInv'
<1> DEFINE c == [offset |-> scan.offset_start, length |-> len]
<1>1. /\ scan.i \in Nat /\ scan.offset_start \in Nat
      /\ len \in 1 .. MaxSize /\ ~Scanned
  BY ScanFacts
<1>2. scan'.i = scan.i + 1 /\ scan'.offset_start = scan.i + 1
  OBVIOUS
<1>3. ScanInv'
  BY <1>1, <1>2, SegSizeFacts DEF ScanInv, Scanned
<1>4. c \in Chunk /\ EndOf(c) = scan.i + 1 /\ c.offset = scan.offset_start /\ c.length = len
  BY <1>1 DEF Chunk, EndOf
<1>5. len < MinSize => Scanned'
  BY <1>1, <1>2, SegSizeFacts DEF Cuts, Scanned
<1>6. PICK n \in Nat : chunks \in Seq(Chunk) /\ n = Len(chunks)
  BY DEF ChunkInv
<1>k. \A k \in 1 .. n + 1 : k = n + 1 \/ k \in 1 .. n
  OBVIOUS
<1> HIDE DEF c
<1>7. /\ chunks' \in Seq(Chunk) /\ Len(chunks') = n + 1
      /\ DOMAIN chunks' = 1 .. n + 1 /\ DOMAIN chunks = 1 .. n
      /\ chunks'[n + 1] = c
      /\ \A k \in 1 .. n : chunks'[k] = chunks[k]
  BY <1>4, <1>6 DEF c
<1>8. \A k \in 1 .. n : EndOf(chunks[k]) \in Nat
  <2>1. \A k \in 1 .. n : chunks[k] \in Chunk
    BY <1>6
  <2> QED  BY <2>1, SegSizeFacts DEF Chunk, EndOf
<1>9. \A k \in DOMAIN chunks' : EndOf(chunks'[k]) <= scan'.offset_start
  <2> SUFFICES ASSUME NEW k \in 1 .. n + 1 PROVE EndOf(chunks'[k]) <= scan.i + 1
    BY <1>2, <1>7
  <2>1. CASE k = n + 1
    BY <1>1, <1>4, <1>7, <2>1
  <2>2. CASE k \in 1 .. n
    <3>1. EndOf(chunks[k]) <= scan.offset_start
      BY <1>7, <2>2 DEF ChunkInv
    <3> QED  BY <1>1, <1>7, <1>8, <2>2, <3>1 DEF ScanInv
  <2> QED  BY <1>k, <2>1, <2>2
<1>10. \A j, k \in DOMAIN chunks' : j < k => EndOf(chunks'[j]) <= chunks'[k].offset
  <2> SUFFICES ASSUME NEW j \in 1 .. n + 1, NEW k \in 1 .. n + 1, j < k
               PROVE  EndOf(chunks'[j]) <= chunks'[k].offset
    BY <1>7
  <2>1. j \in 1 .. n
    BY <1>6
  <2>2. CASE k = n + 1
    <3>1. EndOf(chunks[j]) <= scan.offset_start
      BY <1>7, <2>1 DEF ChunkInv
    <3> QED  BY <1>4, <1>7, <2>1, <2>2, <3>1
  <2>3. CASE k \in 1 .. n
    BY <1>7, <2>1, <2>3 DEF ChunkInv
  <2> QED  BY <1>k, <2>2, <2>3
<1>11. \A k \in DOMAIN chunks' :
          /\ chunks'[k].offset = IF k = 1 THEN 0 ELSE EndOf(chunks'[k - 1])
          /\ chunks'[k].length < MinSize => k = Len(chunks') /\ Scanned'
  <2> SUFFICES ASSUME NEW k \in 1 .. n + 1
               PROVE  /\ chunks'[k].offset = IF k = 1 THEN 0 ELSE EndOf(chunks'[k - 1])
                      /\ chunks'[k].length < MinSize => k = n + 1 /\ Scanned'
    BY <1>7
  <2>1. CASE k \in 1 .. n
    <3>1. k # 1 => k - 1 \in 1 .. n
      BY <1>6, <2>1
    <3>2. /\ chunks[k].offset = IF k = 1 THEN 0 ELSE EndOf(chunks[k - 1])
          /\ ~(chunks[k].length < MinSize)
      BY <1>1, <1>7, <2>1 DEF ChunkInv
    <3> QED  BY <1>7, <2>1, <3>1, <3>2
  <2>2. CASE k = n + 1 /\ n = 0
    <3>1. scan.offset_start = 0
      BY <1>6, <2>2 DEF ChunkInv
    <3> QED  BY <1>4, <1>5, <1>7, <2>2, <3>1
  <2>3. CASE k = n + 1 /\ n # 0
    <3>1. Len(chunks) # 0 /\ n \in 1 .. n /\ k - 1 = n /\ k # 1
      BY <1>6, <2>3
    <3>2. EndOf(chunks[n]) = scan.offset_start
      BY <1>6, <3>1 DEF ChunkInv
    <3> QED  BY <1>4, <1>5, <1>7, <2>3, <3>1, <3>2
  <2> QED  BY <1>k, <2>1, <2>2, <2>3
<1>12. EndOf(chunks'[Len(chunks')]) = scan'.offset_start
  BY <1>2, <1>4, <1>7
<1> QED  BY <1>3, <1>7, <1>9, <1>10, <1>11, <1>12 DEF ChunkInv

\* The seed of a scanned file has its size.
LEMMA SeedSizeExact ==
    ASSUME ScanInv, ChunkInv, Scanned
    PROVE  SeedSize = FileSize
<1> DEFINE ends == {EndOf(chunks[k]) : k \in DOMAIN chunks} \union {0}
<1>1. scan.offset_start = FileSize
  BY DEF ScanInv
<1>2. chunks \in Seq(Chunk) /\ Len(chunks) \in Nat /\ DOMAIN chunks = 1 .. Len(chunks)
  BY DEF ChunkInv
<1>3. Len(chunks) # 0
  BY <1>1, SegSizeFacts DEF ChunkInv
<1>4. FileSize \in ends
  <2>1. EndOf(chunks[Len(chunks)]) = FileSize /\ Len(chunks) \in DOMAIN chunks
    BY <1>1, <1>2, <1>3 DEF ChunkInv
  <2> QED  BY <2>1
<1>5. \A d \in ends : d <= FileSize
  BY <1>1, SegSizeFacts DEF ChunkInv
<1>6. ends \subseteq Nat
  <2>1. \A k \in DOMAIN chunks : chunks[k] \in Chunk
    BY <1>2
  <2>2. \A k \in DOMAIN chunks : EndOf(chunks[k]) \in Nat
    BY <2>1, SegSizeFacts DEF Chunk, EndOf
  <2> QED  BY <2>2
<1>7. SeedSize = CHOOSE e \in ends : \A d \in ends : d <= e
  BY DEF SeedSize, EndOf
<1> HIDE DEF ends
<1>8. SeedSize \in ends /\ \A d \in ends : d <= SeedSize
  BY <1>4, <1>5, <1>7
<1>9. SeedSize <= FileSize /\ FileSize <= SeedSize /\ SeedSize \in Nat
  BY <1>4, <1>5, <1>6, <1>8
<1> QED  BY <1>9, SegSizeFacts

\* Before the scan is over nothing has been added.
LEMMA ScanLayout ==
    ASSUME LayoutInv, NEW matched \in BOOLEAN, ScanStep(matched)
    PROVE  LayoutInv'
<1> DEFINE pos == scan.i - scan.offset_start + 1
           last == scan.i = FileSize - 1
<1>1. ScanInv /\ ChunkInv /\ BaseInv /\ TaskInv /\ DiskInv /\ scan.i < FileSize
  BY DEF LayoutInv, ScanStep
<1>2. /\ scan.i \in Nat /\ scan.offset_start \in Nat /\ pos \in Nat /\ ~Scanned
  BY <1>1, ScanFacts, SegSizeFacts
<1>3. ScanInv' /\ ChunkInv'
  <2>1. CASE Cuts(pos, matched, last)
    <3>1. /\ chunks' = Append(chunks, [offset |-> scan.offset_start, length |-> pos])
          /\ scan' = [i |-> scan.i + 1, offset_start |-> scan.i + 1]
      <4>1. (IF last THEN FileSize - scan.offset_start ELSE pos) = pos
        BY <1>2, SegSizeFacts
      <4> QED  BY <2>1, <4>1 DEF ScanStep
    <3> QED  BY <1>1, <1>2, <2>1, <3>1, CutStep
  <2>2. CASE ~Cuts(pos, matched, last)
    <3>1. scan' = [scan EXCEPT !.i = scan.i + 1] /\ chunks' = chunks
      BY <2>2 DEF ScanStep
    <3> QED  BY <1>1, <2>2, <3>1, NoCutStep
  <2> QED  BY <2>1, <2>2
<1>4. task = "none" /\ bases = <<>> /\ have = {}
  BY <1>1, <1>2 DEF TaskInv
<1>5. UNCHANGED <<disk, writer, bases, have, task, adds>>
  BY DEF ScanStep
<1>6. BaseInv'
  <2>1. chunks' \in Seq(Chunk)
    BY <1>3 DEF ChunkInv
  <2> QED  BY <1>4, <1>5, <2>1 DEF BaseInv
<1>7. TaskInv'
  BY <1>4, <1>5 DEF TaskInv
<1>8. DiskInv'
  BY <1>1, <1>4, <1>5 DEF DiskInv
<1> QED  BY <1>3, <1>6, <1>7, <1>8 DEF LayoutInv

-----------------------------------------------------------------------------
(* cmd_add.                                                                 *)

\* A chunk of the file.
LEMMA ChunkFacts ==
    ASSUME ScanInv, ChunkInv, NEW k \in DOMAIN chunks
    PROVE  /\ chunks[k] \in Chunk
           /\ chunks[k].offset \in Nat /\ chunks[k].length \in 1 .. MaxSize
           /\ chunks[k].offset + chunks[k].length <= FileSize
<1>1. chunks[k] \in Chunk
  BY DEF ChunkInv
<1>2. chunks[k].offset \in Nat /\ chunks[k].length \in 1 .. MaxSize
  BY <1>1 DEF Chunk
<1>3. EndOf(chunks[k]) <= scan.offset_start /\ scan.offset_start \in 0 .. FileSize
  BY DEF ChunkInv, ScanInv
<1> QED  BY <1>1, <1>2, <1>3, SegSizeFacts DEF EndOf

\* A step of cmd_add or of the download leaves the seed alone.
LEMMA SeedStays ==
    ASSUME ScanInv, ChunkInv, scan' = scan, chunks' = chunks
    PROVE  ScanInv' /\ ChunkInv'
BY DEF ScanInv, ChunkInv, Scanned

\* The bytes behind the bases are those of their chunks, and mapped.
LEMMA BasesAreRight == LayoutInv => BasesStayRight
<1> SUFFICES ASSUME LayoutInv, NEW k \in DOMAIN bases
             PROVE  /\ bases[k].segment \in DOMAIN writer.mapped_segments
                    /\ bases[k].at + chunks[k].length
                          <= writer.mapped_segments[bases[k].segment]
                    /\ Behind(k) = BytesOf(chunks[k])
  BY DEF BasesStayRight
<1>1. ScanInv /\ ChunkInv /\ BaseInv /\ TaskInv
  BY DEF LayoutInv
<1>2. k \in DOMAIN chunks
  BY <1>1 DEF BaseInv, ChunkInv
<1>3. task # "none"
  BY <1>1 DEF TaskInv
<1>4. WriterInv
  BY <1>1, <1>3 DEF TaskInv
<1>5. writer.segment_size = SegSize
  BY <1>4 DEF WriterInv
<1>6. /\ chunks[k].offset \in Nat /\ chunks[k].length \in 1 .. MaxSize
      /\ chunks[k].offset + chunks[k].length <= FileSize
  BY <1>1, <1>2, ChunkFacts
<1> DEFINE o == chunks[k].offset
           l == chunks[k].length
           q == o \div SegSize
<1>7. /\ (o - q * SegSize) + l <= SizeOf(q)
      /\ q * SegSize + (o - q * SegSize) = o
  BY <1>6, Placed
<1>8. bases[k].segment = q /\ bases[k].at = o - q * SegSize
      /\ bases[k].segment \in DOMAIN writer.mapped_segments
  BY <1>1 DEF BaseInv, BaseOf
<1>9. writer.mapped_segments[q] = SizeOf(q)
  BY <1>4, <1>8 DEF WriterInv
<1>10. Behind(k) = o .. o + l - 1
  BY <1>5, <1>7, <1>8 DEF Behind
<1> QED  BY <1>7, <1>8, <1>9, <1>10 DEF BytesOf

\* writer->open.
LEMMA AddLayout ==
    ASSUME LayoutInv, Add
    PROVE  LayoutInv'
<1>1. ScanInv /\ ChunkInv /\ BaseInv /\ TaskInv /\ DiskInv /\ Scanned
  BY DEF LayoutInv, Add
<1>2. scan' = scan /\ chunks' = chunks /\ bases' = <<>> /\ have' = {} /\ task' = "mapping"
  BY DEF Add
<1>3. SeedSize = FileSize
  BY <1>1, SeedSizeExact
<1>4. /\ writer' = [open |-> TRUE, file_size |-> FileSize, segment_size |-> SegSize,
                    segment_count |-> SegCount,
                    mapped_segments |-> <<>>, cached |-> NoSegment]
      /\ disk' = IF disk.size = FileSize THEN disk ELSE [size |-> FileSize, right |-> {}]
  BY <1>3 DEF Add, OpenWriter, SegSize, SegCount
<1>5. ScanInv' /\ ChunkInv'
  BY <1>1, <1>2, SeedStays
<1>6. BaseInv'
  BY <1>1, <1>2 DEF BaseInv, ChunkInv
<1>7. /\ disk' \in [size : Nat, right : SUBSET Nat] /\ disk'.size = FileSize
      /\ disk'.right \subseteq 0 .. disk'.size - 1
  BY <1>1, <1>4, SegSizeFacts DEF DiskInv
<1>8. WriterInv'
  BY <1>4 DEF WriterInv
<1>9. Scanned'
  BY <1>1, <1>2 DEF Scanned
<1>10. TaskInv'
  BY <1>2, <1>7, <1>8, <1>9 DEF TaskInv
<1>11. DiskInv'
  BY <1>2, <1>7 DEF DiskInv
<1> QED  BY <1>5, <1>6, <1>10, <1>11 DEF LayoutInv

\* mapped_segments_ keeps every segment in its size and gains the new one.
LEMMA SegmentAdded ==
    ASSUME WriterInv, NEW seg
    PROVE  /\ DOMAIN WithSegment(writer, seg) = DOMAIN writer.mapped_segments \union {seg}
           /\ \A s \in DOMAIN WithSegment(writer, seg) :
                 WithSegment(writer, seg)[s] = SizeOf(s)
<1>1. writer.segment_size = SegSize /\ writer.file_size = FileSize
  BY DEF WriterInv
<1>2. MapSize(writer, seg) = SizeOf(seg)
  BY <1>1 DEF MapSize, SizeOf
<1>3. CASE seg \in DOMAIN writer.mapped_segments
  BY <1>3 DEF WithSegment, WriterInv
<1>4. CASE seg \notin DOMAIN writer.mapped_segments
  BY <1>2, <1>4 DEF WithSegment, WriterInv
<1> QED  BY <1>3, <1>4

\* The guards of get_chunk_base hold for every chunk of the seed.
LEMMA NeverRefused ==
    ASSUME ScanInv, ChunkInv, WriterInv, NEW k \in DOMAIN chunks
    PROVE  LET c == chunks[k]
               seg == SegmentOf(writer, c)
           IN  /\ Valid(writer, c)
               /\ seg = c.offset \div SegSize
               /\ BaseOf(c) \in [segment : Nat, at : Nat]
               /\ (c.offset - seg * writer.segment_size) + c.length
                     <= WithSegment(writer, seg)[seg]
<1> DEFINE c == chunks[k]
           o == c.offset
           l == c.length
           q == o \div SegSize
           seg == SegmentOf(writer, c)
<1>1. o \in Nat /\ l \in 1 .. MaxSize /\ o + l <= FileSize
  BY ChunkFacts
<1>2. /\ q \in Nat /\ q < SegCount /\ o - q * SegSize \in Nat
      /\ (o - q * SegSize) + l <= SizeOf(q)
  BY <1>1, Placed
<1>3. /\ writer.open /\ writer.segment_size = SegSize /\ writer.file_size = FileSize
      /\ writer.segment_count = SegCount
  BY DEF WriterInv
<1>4. seg = q
  BY <1>3 DEF SegmentOf
<1>5. WithSegment(writer, q)[q] = SizeOf(q)
  BY SegmentAdded
<1>6. Valid(writer, c)
  BY <1>1, <1>2, <1>3, SegSizeFacts DEF Valid
<1>7. BaseOf(c) \in [segment : Nat, at : Nat]
  BY <1>2 DEF BaseOf
<1> QED  BY <1>2, <1>3, <1>4, <1>5, <1>6, <1>7

\* The next chunk gets its base; the bases before it stay where they are.
LEMMA GetChunkBaseLayout ==
    ASSUME LayoutInv, GetChunkBase
    PROVE  LayoutInv'
<1>1. ScanInv /\ ChunkInv /\ BaseInv /\ TaskInv /\ DiskInv
  BY DEF LayoutInv
<1>2. task = "mapping" /\ Len(bases) < Len(chunks)
      /\ UNCHANGED <<scan, chunks, disk, have, adds>>
  BY DEF GetChunkBase
<1>3. WriterInv /\ have = {} /\ Scanned /\ disk.size = FileSize
  BY <1>1, <1>2 DEF TaskInv
<1>4. PICK n \in Nat : /\ n = Len(bases) /\ n + 1 \in DOMAIN chunks
                       /\ bases \in Seq([segment : Nat, at : Nat])
                       /\ n + 1 <= Len(chunks)
  <2>1. bases \in Seq([segment : Nat, at : Nat]) /\ Len(bases) \in Nat
    BY <1>1 DEF BaseInv
  <2>2. chunks \in Seq(Chunk) /\ Len(chunks) \in Nat /\ DOMAIN chunks = 1 .. Len(chunks)
    BY <1>1 DEF ChunkInv
  <2>3. Len(bases) + 1 \in 1 .. Len(chunks)
    BY <1>2, <2>1, <2>2
  <2> QED  BY <2>1, <2>2, <2>3
<1> DEFINE c == chunks[n + 1]
           seg == SegmentOf(writer, c)
           mapped == WithSegment(writer, seg)
<1>5. /\ Valid(writer, c) /\ seg = c.offset \div SegSize
      /\ BaseOf(c) \in [segment : Nat, at : Nat]
      /\ (c.offset - seg * writer.segment_size) + c.length <= mapped[seg]
  BY <1>1, <1>3, <1>4, NeverRefused
<1>6. writer.segment_size = SegSize
  BY <1>3 DEF WriterInv
<1>7. BaseOf(c) = [segment |-> seg, at |-> c.offset - seg * writer.segment_size]
  BY <1>5, <1>6 DEF BaseOf
<1>8. /\ writer' = [writer EXCEPT !.mapped_segments = mapped, !.cached = seg]
      /\ bases' = Append(bases, BaseOf(c))
      /\ task' = task
  BY <1>4, <1>5, <1>7 DEF GetChunkBase
<1>9. /\ DOMAIN mapped = DOMAIN writer.mapped_segments \union {seg}
      /\ \A s \in DOMAIN mapped : mapped[s] = SizeOf(s)
  BY <1>3, SegmentAdded
<1>10. BaseOf(c).segment = seg
  BY <1>7
<1> HIDE DEF c, seg, mapped
<1>11. writer' = [open |-> TRUE, file_size |-> FileSize, segment_size |-> SegSize,
                  segment_count |-> SegCount,
                  mapped_segments |-> mapped, cached |-> seg]
  <2>1. writer = [open |-> TRUE, file_size |-> FileSize, segment_size |-> SegSize,
                  segment_count |-> SegCount,
                  mapped_segments |-> writer.mapped_segments, cached |-> writer.cached]
    BY <1>3 DEF WriterInv
  <2>2. PICK m, k : writer = [open |-> TRUE, file_size |-> FileSize, segment_size |-> SegSize,
                              segment_count |-> SegCount, mapped_segments |-> m, cached |-> k]
    BY <2>1, Zenon
  <2> QED  BY <1>8, <2>2
<1>12. writer'.mapped_segments = mapped /\ writer'.cached = seg
  BY <1>11
<1>13. WriterInv'
  BY <1>9, <1>11, <1>12 DEF WriterInv
<1>14. BaseInv'
  <2>1. /\ bases' \in Seq([segment : Nat, at : Nat]) /\ Len(bases') = n + 1
        /\ DOMAIN bases' = 1 .. n + 1 /\ DOMAIN bases = 1 .. n
        /\ bases'[n + 1] = BaseOf(c)
        /\ \A k \in 1 .. n : bases'[k] = bases[k]
    BY <1>4, <1>5, <1>8
  <2>2. \A k \in 1 .. n + 1 : k = n + 1 \/ k \in 1 .. n
    OBVIOUS
  <2> SUFFICES ASSUME NEW k \in 1 .. n + 1
               PROVE  /\ bases'[k] = BaseOf(chunks[k])
                      /\ bases'[k].segment \in DOMAIN mapped
    BY <1>2, <1>4, <1>12, <2>1 DEF BaseInv
  <2>3. CASE k = n + 1
    BY <1>9, <1>10, <2>1, <2>3 DEF c
  <2>4. CASE k \in 1 .. n
    <3>1. bases[k] = BaseOf(chunks[k]) /\ bases[k].segment \in DOMAIN writer.mapped_segments
      BY <1>1, <2>1, <2>4 DEF BaseInv
    <3> QED  BY <1>9, <2>1, <2>4, <3>1
  <2> QED  BY <2>2, <2>3, <2>4
<1>15. TaskInv'
  BY <1>2, <1>3, <1>8, <1>13 DEF TaskInv, Scanned
<1>16. DiskInv'
  BY <1>1, <1>2 DEF DiskInv
<1>17. ScanInv' /\ ChunkInv'
  BY <1>1, <1>2, SeedStays
<1> QED  BY <1>14, <1>15, <1>16, <1>17 DEF LayoutInv

\* The task ends, by an mmap that fails or because it is stopped.
LEMMA ClosedLayout ==
    ASSUME LayoutInv, MapFails \/ Stop
    PROVE  LayoutInv'
<1>1. ScanInv /\ ChunkInv /\ BaseInv /\ TaskInv /\ DiskInv
  BY DEF LayoutInv
<1>2. /\ UNCHANGED <<scan, chunks, disk>>
      /\ bases' = <<>> /\ task' = "none" /\ have' = {}
  BY <1>1 DEF MapFails, Stop, Closed, TaskInv
<1>3. ScanInv' /\ ChunkInv'
  BY <1>1, <1>2, SeedStays
<1>4. BaseInv'
  BY <1>1, <1>2 DEF BaseInv, ChunkInv
<1>5. TaskInv'
  BY <1>2 DEF TaskInv
<1>6. DiskInv'
  BY <1>1, <1>2 DEF DiskInv
<1> QED  BY <1>3, <1>4, <1>5, <1>6 DEF LayoutInv

\* Another file at save_path, while no task has it open.
LEMMA ReplaceLayout ==
    ASSUME LayoutInv, ReplaceFile
    PROVE  LayoutInv'
<1>1. ScanInv /\ ChunkInv /\ BaseInv /\ TaskInv /\ DiskInv
  BY DEF LayoutInv
<1>2. /\ UNCHANGED <<scan, chunks, writer, bases, have, task>>
      /\ task = "none" /\ disk' \in Files
  BY DEF ReplaceFile
<1>3. disk' \in [size : Nat, right : SUBSET Nat] /\ disk'.right \subseteq 0 .. disk'.size - 1
  BY <1>2, SegSizeFacts DEF Files
<1>4. have = {}
  BY <1>1, <1>2 DEF TaskInv
<1>5. ScanInv' /\ ChunkInv'
  BY <1>1, <1>2, SeedStays
<1>6. BaseInv'
  BY <1>1, <1>2 DEF BaseInv
<1>7. TaskInv'
  BY <1>1, <1>2, <1>4 DEF TaskInv
<1>8. DiskInv'
  BY <1>2, <1>3, <1>4 DEF DiskInv
<1> QED  BY <1>5, <1>6, <1>7, <1>8 DEF LayoutInv

\* The resume scan, on a file that no one writes to.
LEMMA ResumeLayout ==
    ASSUME LayoutInv, NEW found \in SUBSET DOMAIN chunks, Resume(found)
    PROVE  LayoutInv'
<1>1. ScanInv /\ ChunkInv /\ BaseInv /\ TaskInv /\ DiskInv
  BY DEF LayoutInv
<1>2. /\ UNCHANGED <<scan, chunks, disk, writer, bases>>
      /\ task = "mapping" /\ Len(bases) = Len(chunks) /\ task' = "downloading"
      /\ \A k \in found : BytesOf(chunks[k]) \subseteq disk.right
      /\ have' = have \union found
  BY DEF Resume
<1>3. ScanInv' /\ ChunkInv'
  BY <1>1, <1>2, SeedStays
<1>4. BaseInv'
  BY <1>1, <1>2 DEF BaseInv
<1>5. TaskInv'
  BY <1>1, <1>2 DEF TaskInv, Scanned, WriterInv
<1>6. DiskInv'
  BY <1>1, <1>2 DEF DiskInv
<1> QED  BY <1>3, <1>4, <1>5, <1>6 DEF LayoutInv

\* cmd_update copies from the old file to the place of each chunk.
LEMMA ReuseLayout ==
    ASSUME LayoutInv, NEW copied \in SUBSET DOMAIN chunks, NEW marked \in SUBSET copied,
           Reuse(copied, marked)
    PROVE  LayoutInv'
<1> DEFINE new == UNION {BytesOf(chunks[k]) : k \in copied}
           right == disk.right \union new
<1>1. ScanInv /\ ChunkInv /\ BaseInv /\ TaskInv /\ DiskInv
  BY DEF LayoutInv
<1>2. /\ UNCHANGED <<scan, chunks, writer, bases>>
      /\ task = "mapping" /\ Len(bases) = Len(chunks) /\ task' = "downloading"
      /\ disk' = [disk EXCEPT !.right = right] /\ have' = marked
  BY DEF Reuse
<1>3. /\ disk \in [size : Nat, right : SUBSET Nat] /\ disk.size = FileSize
      /\ disk.right \subseteq 0 .. FileSize - 1
  BY <1>1, <1>2 DEF DiskInv, TaskInv
<1>4. \A k \in copied : BytesOf(chunks[k]) \subseteq 0 .. FileSize - 1
  <2> SUFFICES ASSUME NEW k \in copied PROVE BytesOf(chunks[k]) \subseteq 0 .. FileSize - 1
    OBVIOUS
  <2>1. /\ chunks[k].offset \in Nat /\ chunks[k].length \in 1 .. MaxSize
        /\ chunks[k].offset + chunks[k].length <= FileSize
    BY <1>1, ChunkFacts
  <2> QED  BY <2>1, SegSizeFacts DEF BytesOf
<1>5. right \subseteq 0 .. FileSize - 1
  BY <1>3, <1>4, Zenon
<1> HIDE DEF right
<1>7. right \in SUBSET Nat
  BY <1>5, SegSizeFacts
<1>8. /\ disk' \in [size : Nat, right : SUBSET Nat]
      /\ disk'.size = FileSize /\ disk'.right = right
  BY <1>2, <1>3, <1>7, Zenon
<1>9. ScanInv' /\ ChunkInv'
  BY <1>1, <1>2, SeedStays
<1>10. BaseInv'
  BY <1>1, <1>2 DEF BaseInv
<1>11. TaskInv'
  BY <1>1, <1>2, <1>8 DEF TaskInv, Scanned, WriterInv
<1>12. DiskInv'
  BY <1>2, <1>5, <1>8 DEF DiskInv
<1> QED  BY <1>9, <1>10, <1>11, <1>12 DEF LayoutInv

\* A step of the download through the base of chunk k.
LEMMA DownloadLayout ==
    ASSUME LayoutInv, NEW k \in DOMAIN chunks, task = "downloading",
           UNCHANGED <<scan, chunks, writer, bases, task>>,
           NEW right, right \subseteq 0 .. disk.size - 1,
           disk' = [disk EXCEPT !.right = right],
           have' \subseteq DOMAIN chunks
    PROVE  LayoutInv'
<1>1. ScanInv /\ ChunkInv /\ BaseInv /\ TaskInv /\ DiskInv
  BY DEF LayoutInv
<1>2. disk \in [size : Nat, right : SUBSET Nat]
  BY <1>1 DEF DiskInv
<1>3. right \subseteq Nat
  BY <1>2
<1>4. /\ disk' \in [size : Nat, right : SUBSET Nat]
      /\ disk'.size = disk.size /\ disk'.right = right
  BY <1>2, <1>3, Zenon
<1>5. ScanInv' /\ ChunkInv'
  BY <1>1, SeedStays
<1>6. BaseInv'
  BY <1>1 DEF BaseInv
<1>7. TaskInv'
  BY <1>1, <1>4 DEF TaskInv, Scanned, WriterInv
<1>8. DiskInv'
  BY <1>4 DEF DiskInv
<1> QED  BY <1>5, <1>6, <1>7, <1>8 DEF LayoutInv

\* Where a chunk is written during the download.
LEMMA BehindFacts ==
    ASSUME LayoutInv, task = "downloading", NEW k \in DOMAIN chunks
    PROVE  /\ Behind(k) = BytesOf(chunks[k])
           /\ BytesOf(chunks[k]) \subseteq 0 .. disk.size - 1
<1>1. ScanInv /\ ChunkInv /\ BaseInv /\ TaskInv
  BY DEF LayoutInv
<1>2. Len(bases) = Len(chunks) /\ disk.size = FileSize
  BY <1>1 DEF TaskInv
<1>3. k \in DOMAIN bases
  BY <1>1, <1>2 DEF BaseInv, ChunkInv
<1>4. Behind(k) = BytesOf(chunks[k])
  BY <1>3, BasesAreRight DEF BasesStayRight
<1>5. /\ chunks[k].offset \in Nat /\ chunks[k].length \in 1 .. MaxSize
      /\ chunks[k].offset + chunks[k].length <= FileSize
  BY <1>1, ChunkFacts
<1> QED  BY <1>2, <1>4, <1>5, SegSizeFacts DEF BytesOf

\* A chunk is written through its base.
LEMMA WriteLayout ==
    ASSUME LayoutInv, NEW k \in DOMAIN chunks, WriteChunk(k)
    PROVE  LayoutInv'
<1> DEFINE right == disk.right \union Behind(k)
<1>1. /\ task = "downloading" /\ UNCHANGED <<scan, chunks, writer, bases, task>>
      /\ disk' = [disk EXCEPT !.right = right] /\ have' = have \union {k}
  BY DEF WriteChunk
<1>2. /\ Behind(k) = BytesOf(chunks[k])
      /\ BytesOf(chunks[k]) \subseteq 0 .. disk.size - 1
  BY <1>1, BehindFacts
<1>3. disk.right \subseteq 0 .. disk.size - 1 /\ have \subseteq DOMAIN chunks
  BY DEF LayoutInv, DiskInv
<1>4. right \subseteq 0 .. disk.size - 1 /\ have' \subseteq DOMAIN chunks
  BY <1>1, <1>2, <1>3, Zenon
<1> HIDE DEF right
<1> QED  BY <1>1, <1>4, DownloadLayout

\* A wrong piece lands in the file.
LEMMA SpoilLayout ==
    ASSUME LayoutInv, NEW k \in DOMAIN chunks, SpoilChunk(k)
    PROVE  LayoutInv'
<1> DEFINE right == disk.right \ Behind(k)
<1>1. /\ task = "downloading" /\ UNCHANGED <<scan, chunks, writer, bases, task>>
      /\ disk' = [disk EXCEPT !.right = right] /\ have' = have
  BY DEF SpoilChunk
<1>2. disk.right \subseteq 0 .. disk.size - 1 /\ have \subseteq DOMAIN chunks
  BY DEF LayoutInv, DiskInv
<1>3. right \subseteq 0 .. disk.size - 1 /\ have' \subseteq DOMAIN chunks
  BY <1>1, <1>2, Zenon
<1> HIDE DEF right
<1> QED  BY <1>1, <1>3, DownloadLayout

\* Every step keeps the invariant.
LEMMA NextLayout ==
    ASSUME LayoutInv, [Next]_vars
    PROVE  LayoutInv'
<1>1. ASSUME NEW matched \in BOOLEAN, ScanStep(matched) PROVE LayoutInv'
  BY <1>1, ScanLayout
<1>2. CASE Add
  BY <1>2, AddLayout
<1>3. CASE GetChunkBase
  BY <1>3, GetChunkBaseLayout
<1>4. CASE MapFails \/ Stop
  BY <1>4, ClosedLayout
<1>5. CASE ReplaceFile
  BY <1>5, ReplaceLayout
<1>6. ASSUME NEW found \in SUBSET DOMAIN chunks, Resume(found) PROVE LayoutInv'
  BY <1>6, ResumeLayout
<1>7. ASSUME NEW k \in DOMAIN chunks, WriteChunk(k) \/ SpoilChunk(k) PROVE LayoutInv'
  BY <1>7, WriteLayout, SpoilLayout
<1>8. ASSUME NEW copied \in SUBSET DOMAIN chunks, NEW marked \in SUBSET copied,
             Reuse(copied, marked)
      PROVE  LayoutInv'
  BY <1>8, ReuseLayout
<1>9. CASE UNCHANGED vars
  <2>1. ScanInv' /\ ChunkInv'
    BY <1>9, SeedStays DEF vars, LayoutInv
  <2>2. BaseInv' /\ TaskInv' /\ DiskInv'
    BY <1>9 DEF vars, LayoutInv, BaseInv, TaskInv, DiskInv, Scanned, WriterInv
  <2> QED  BY <2>1, <2>2 DEF LayoutInv
<1> QED  BY <1>1, <1>2, <1>3, <1>4, <1>5, <1>6, <1>7, <1>8, <1>9 DEF Next

-----------------------------------------------------------------------------
\* The inductive invariant holds in every behaviour.
THEOREM LayoutInvariant == Spec => []LayoutInv
<1>1. LayoutInv /\ [Next]_vars => LayoutInv'
  BY NextLayout
<1> QED  BY <1>1, InitLayout, PTL DEF Spec

\* Types; in particular no chunk is longer than max_size, and no position
\* outside of the file is taken for right.
THEOREM TypeCorrect == Spec => []TypeOK
<1>1. LayoutInv => TypeOK
  <2> SUFFICES ASSUME LayoutInv PROVE TypeOK
    OBVIOUS
  <2>1. scan.i \in 0 .. FileSize /\ scan.offset_start \in 0 .. FileSize
    BY DEF LayoutInv, ScanInv
  <2>2. \A k \in DOMAIN chunks : chunks[k].length \in 1 .. MaxSize
    BY ChunkFacts DEF LayoutInv
  <2>3. /\ disk.size \in Nat /\ disk.right \subseteq 0 .. disk.size - 1
        /\ have \subseteq DOMAIN chunks
    BY DEF LayoutInv, DiskInv
  <2>4. task \in {"none", "mapping", "downloading", "error"} /\ Len(bases) <= Len(chunks)
    BY DEF LayoutInv, TaskInv, BaseInv
  <2> QED  BY <2>1, <2>2, <2>3, <2>4 DEF TypeOK
<1> QED  BY <1>1, LayoutInvariant, PTL

\* The chunks cover the file in order, without gap or overlap, wherever the
\* rolling hash matches.
THEOREM ScanTiles == Spec => []ChunksTile
<1>1. LayoutInv => ChunksTile
  BY SeedSizeExact DEF LayoutInv, ChunkInv, ChunksTile, EndOf
<1> QED  BY <1>1, LayoutInvariant, PTL

\* get_chunk_base refuses no chunk of the seed, for any segment size.
THEOREM AllPlaced == Spec => []EveryChunkPlaced
<1>1. LayoutInv => EveryChunkPlaced
  BY DEF LayoutInv, TaskInv, EveryChunkPlaced
<1> QED  BY <1>1, LayoutInvariant, PTL

\* Every base stays mapped, and the bytes behind it are the chunk's own.
THEOREM BasesAlwaysRight == Spec => []BasesStayRight
BY BasesAreRight, LayoutInvariant, PTL

\* Two chunks share no byte.
LEMMA ChunksDisjoint ==
    ASSUME ScanInv, ChunkInv, NEW j \in DOMAIN chunks, NEW k \in DOMAIN chunks, j # k
    PROVE  BytesOf(chunks[j]) \intersect BytesOf(chunks[k]) = {}
<1>1. /\ chunks[j].offset \in Nat /\ chunks[j].length \in 1 .. MaxSize
      /\ chunks[k].offset \in Nat /\ chunks[k].length \in 1 .. MaxSize
  BY ChunkFacts
<1>2. \/ chunks[j].offset + chunks[j].length <= chunks[k].offset
      \/ chunks[k].offset + chunks[k].length <= chunks[j].offset
  <2>1. j \in Nat /\ k \in Nat
    BY DEF ChunkInv
  <2>2. j < k \/ k < j
    BY <2>1
  <2>3. j < k => EndOf(chunks[j]) <= chunks[k].offset
    BY DEF ChunkInv
  <2>4. k < j => EndOf(chunks[k]) <= chunks[j].offset
    BY DEF ChunkInv
  <2> QED  BY <2>2, <2>3, <2>4 DEF EndOf
<1> QED  BY <1>1, <1>2, SegSizeFacts DEF BytesOf

\* What a step of the download does to the right bytes of the file.
LEMMA RightAfter ==
    ASSUME LayoutInv, NEW k \in DOMAIN chunks
    PROVE  /\ WriteChunk(k) => disk'.right = disk.right \union BytesOf(chunks[k])
           /\ SpoilChunk(k) => disk'.right = disk.right \ BytesOf(chunks[k])
<1>1. disk \in [size : Nat, right : SUBSET Nat]
  BY DEF LayoutInv, DiskInv
<1>2. ASSUME WriteChunk(k) PROVE disk'.right = disk.right \union BytesOf(chunks[k])
  <2>1. task = "downloading" /\ disk' = [disk EXCEPT !.right = disk.right \union Behind(k)]
    BY <1>2 DEF WriteChunk
  <2>2. Behind(k) = BytesOf(chunks[k])
    BY <2>1, BehindFacts
  <2> QED  BY <1>1, <2>1, <2>2, Zenon
<1>3. ASSUME SpoilChunk(k) PROVE disk'.right = disk.right \ BytesOf(chunks[k])
  <2>1. task = "downloading" /\ disk' = [disk EXCEPT !.right = disk.right \ Behind(k)]
    BY <1>3 DEF SpoilChunk
  <2>2. Behind(k) = BytesOf(chunks[k])
    BY <2>1, BehindFacts
  <2> QED  BY <1>1, <2>1, <2>2, Zenon
<1> QED  BY <1>2, <1>3

\* cmd_update only adds right bytes, those of the chunks it copies.
LEMMA RightCopied ==
    ASSUME LayoutInv, NEW copied, NEW marked, Reuse(copied, marked)
    PROVE  /\ disk.right \subseteq disk'.right
           /\ \A k \in copied : BytesOf(chunks[k]) \subseteq disk'.right
<1> DEFINE new == UNION {BytesOf(chunks[k]) : k \in copied}
<1>1. disk \in [size : Nat, right : SUBSET Nat]
  BY DEF LayoutInv, DiskInv
<1>2. disk' = [disk EXCEPT !.right = disk.right \union new]
  BY DEF Reuse
<1>3. \A k \in copied : BytesOf(chunks[k]) \subseteq new
  BY Zenon
<1> HIDE DEF new
<1>4. disk'.right = disk.right \union new
  BY <1>1, <1>2, Zenon
<1> QED  BY <1>3, <1>4, Zenon

\* A chunk is on disk when it is first taken for complete, and only a wrong
\* piece of that chunk takes it away again.
THEOREM OnlyWhatIsOnDisk == Spec => CompleteIsOnDisk
<1> DEFINE Believed ==
      \A k \in have' : OnDisk(k)' \/ SpoilChunk(k) \/ (k \in have /\ ~OnDisk(k))
<1>1. ASSUME LayoutInv, Next PROVE Believed
  <2> SUFFICES ASSUME NEW k \in have', ~SpoilChunk(k), k \in have => OnDisk(k)
               PROVE  OnDisk(k)'
    BY DEF Believed
  <2>0. have \subseteq DOMAIN chunks /\ (task # "downloading" => have = {})
    BY <1>1 DEF LayoutInv, DiskInv, TaskInv
  <2>1. CASE Add \/ Stop
    BY <2>1 DEF Add, Stop
  <2>2. CASE \E matched \in BOOLEAN : ScanStep(matched)
    <3>1. have = {}
      BY <1>1, <2>0, <2>2 DEF LayoutInv, TaskInv, ScanStep, Scanned, ScanInv
    <3>2. have' = have
      BY <2>2 DEF ScanStep
    <3> QED  BY <3>1, <3>2
  <2>3. CASE GetChunkBase \/ MapFails \/ ReplaceFile
    <3>1. have = {} /\ have' = have
      BY <2>0, <2>3 DEF GetChunkBase, MapFails, ReplaceFile
    <3> QED  BY <3>1
  <2>4. ASSUME NEW found \in SUBSET DOMAIN chunks, Resume(found) PROVE OnDisk(k)'
    <3>1. /\ chunks' = chunks /\ disk' = disk /\ k \in have \union found
          /\ \A j \in found : BytesOf(chunks[j]) \subseteq disk.right
      BY <2>4 DEF Resume
    <3> QED  BY <3>1 DEF OnDisk, BytesOf
  <2>5. ASSUME NEW copied \in SUBSET DOMAIN chunks, NEW marked \in SUBSET copied,
               Reuse(copied, marked)
        PROVE  OnDisk(k)'
    <3>1. chunks' = chunks /\ k \in copied
      BY <2>5 DEF Reuse
    <3>2. BytesOf(chunks[k]) \subseteq disk'.right
      BY <1>1, <2>5, <3>1, RightCopied
    <3> QED  BY <3>1, <3>2 DEF OnDisk, BytesOf
  <2>6. ASSUME NEW j \in DOMAIN chunks, WriteChunk(j) PROVE OnDisk(k)'
    <3>1. chunks' = chunks /\ k \in have \union {j}
      BY <2>6 DEF WriteChunk
    <3>2. disk'.right = disk.right \union BytesOf(chunks[j])
      BY <1>1, <2>6, RightAfter
    <3>3. BytesOf(chunks[k]) \subseteq disk'.right
      BY <3>1, <3>2 DEF OnDisk
    <3> QED  BY <3>1, <3>3 DEF OnDisk, BytesOf
  <2>7. ASSUME NEW j \in DOMAIN chunks, SpoilChunk(j) PROVE OnDisk(k)'
    <3>1. chunks' = chunks /\ k \in have /\ k # j
      BY <2>7 DEF SpoilChunk
    <3>2. disk'.right = disk.right \ BytesOf(chunks[j])
      BY <1>1, <2>7, RightAfter
    <3>3. k \in DOMAIN chunks
      BY <2>0, <3>1
    <3>4. BytesOf(chunks[k]) \intersect BytesOf(chunks[j]) = {}
      BY <1>1, <3>1, <3>3, ChunksDisjoint DEF LayoutInv
    <3>5. BytesOf(chunks[k]) \subseteq disk'.right
      BY <3>1, <3>2, <3>4 DEF OnDisk
    <3> QED  BY <3>1, <3>5 DEF OnDisk, BytesOf
  <2> QED  BY <1>1, <2>1, <2>2, <2>3, <2>4, <2>5, <2>6, <2>7 DEF Next
<1>2. LayoutInv /\ [Next]_vars => [Believed]_vars
  BY <1>1
<1> QED  BY <1>2, LayoutInvariant, PTL DEF Spec, CompleteIsOnDisk

\* A crash and a restart keep what was downloaded; a wrong piece costs the
\* bytes of its own chunk at most.
THEOREM DataSurvives == Spec => RestartKeepsData
<1> DEFINE Lost(k) == SpoilChunk(k) /\ disk.right \ disk'.right \subseteq BytesOf(chunks[k])
           Kept == /\ disk.size = SeedSize /\ Scanned
                   /\ ~(disk.right \subseteq disk'.right)
                   => ReplaceFile \/ \E k \in DOMAIN chunks : Lost(k)
<1>1. LayoutInv /\ [Next]_vars => [Kept]_vars
  <2> SUFFICES ASSUME LayoutInv, Next, ~ReplaceFile, disk.size = SeedSize,
                      ~ \E k \in DOMAIN chunks : Lost(k)
               PROVE  disk.right \subseteq disk'.right
    OBVIOUS
  <2>1. CASE Add
    BY <2>1 DEF Add, OpenWriter
  <2>2. ASSUME NEW k \in DOMAIN chunks, WriteChunk(k)
        PROVE  disk.right \subseteq disk'.right
    BY <2>2, RightAfter
  <2>3. ASSUME NEW k \in DOMAIN chunks, SpoilChunk(k)
        PROVE  FALSE
    <3>1. disk'.right = disk.right \ BytesOf(chunks[k])
      BY <2>3, RightAfter
    <3>2. disk.right \ disk'.right \subseteq BytesOf(chunks[k])
      BY <3>1
    <3> QED  BY <2>3, <3>2
  <2>4. CASE disk' = disk
    BY <2>4
  <2>5. ASSUME NEW copied, NEW marked, Reuse(copied, marked)
        PROVE  disk.right \subseteq disk'.right
    BY <2>5, RightCopied
  <2>6. \/ Add \/ disk' = disk
        \/ \E k \in DOMAIN chunks : WriteChunk(k) \/ SpoilChunk(k)
        \/ \E copied, marked : Reuse(copied, marked)
    BY DEF Next, ScanStep, GetChunkBase, MapFails, Stop, Resume
  <2> QED  BY <2>1, <2>2, <2>3, <2>4, <2>5, <2>6
<1> QED  BY <1>1, LayoutInvariant, PTL DEF Spec, RestartKeepsData
=============================================================================
