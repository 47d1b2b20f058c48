------------------------ MODULE LinearReaderProperties ------------------------
(***************************************************************************)
(* What the linear reader should make of a file of items, and that it does *)
(* so whatever the client's reads are.                                     *)
(***************************************************************************)
EXTENDS LinearReader, McapFile

Rec(op, from, to) == [ok |-> TRUE, is |-> [op |-> op, data |-> Positions(from, to)]]
Err(why) == [ok |-> FALSE, is |-> why]

TooLarge(len) == len > opts.record_length_limit

-------------------------------------------------------------------------------
(* What a file looks like, cell by cell, as far as it is there.            *)

Cell(f, p) == IF f.cells[p].k = "Compressed" THEN f.cells[p].plain ELSE f.cells[p]

IsHead(f, p) == p <= Len(f.cells) => Cell(f, p).k = "Head"

\* Records follow each other in the cells after s, up to e.
Tiled(f, s, e) ==
    /\ s < e => IsHead(f, s + 1)
    /\ \A p \in (s + 1)..e :
         p <= Len(f.cells) /\ Cell(f, p).k = "Head" =>
            /\ Cell(f, p).len \in Nat /\ p + Cell(f, p).len <= e
            /\ p + Cell(f, p).len < e => IsHead(f, p + Cell(f, p).len + 1)

\* The data of a chunk with header h after cell s: its records, and the end of
\* the frame if they are compressed.
DataOK(f, h, s) ==
    /\ h.compressed_size = h.uncompressed_size + (IF h.compression = "" THEN 0 ELSE 1)
    /\ Tiled(f, s, s + h.uncompressed_size)
    /\ h.compression # "" =>
         \A p \in (s + 1)..(s + h.compressed_size) :
            p <= Len(f.cells) => (Cell(f, p).k = "FrameEnd" <=> p = s + h.compressed_size)

SizesOK(h) ==
    h.compression_len \in Nat /\ h.compressed_size \in Nat /\ h.uncompressed_size \in Nat

Headed == {"Record", "Chunk", "DataEnd", "Footer"}

\* The first cell of an item in the cells a + 1 to b, and the header of a chunk.
\* The data of a chunk is not looked at if the chunk is too short for it.
ItemOK(f, it, a, b) ==
    /\ a \in Nat /\ b \in Nat /\ a <= b
    /\ it.k \in Headed =>
         /\ a < b
         /\ a + 1 <= Len(f.cells) =>
              /\ Cell(f, a + 1).k = "Head" /\ Cell(f, a + 1).len = b - a - 1
              /\ Cell(f, a + 1).op \notin {"Chunk", "DataEnd", "Footer"} <=> it.k = "Record"
              /\ it.k # "Record" => Cell(f, a + 1).op = it.k
    /\ it.k = "Chunk" /\ a + 2 <= Len(f.cells) =>
         LET h == Cell(f, a + 2) IN
         /\ SizesOK(h)
         /\ HeaderLen(h) + h.compressed_size <= b - a - 1 => DataOK(f, h, a + 1 + HeaderLen(h))
    /\ it.k = "Contents" =>
         LET h == f.chunk[1] IN
         SizesOK(h) /\ a = 0 /\ b = h.compressed_size /\ DataOK(f, h, 0)

\* After which items the reader looks for a record.
Leads(f, i) == f.items[i].k \in {"Record", "Chunk", "DataEnd", "Contents"} \/ i = 1

\* Items one after the other: the start magic, records and chunks, and whatever
\* follows a footer; or the data of a supported chunk by itself.
FileOK(f) ==
    LET n == Len(f.items) IN
    /\ Len(f.cells) \in Nat /\ n \in Nat /\ DOMAIN f.spans = 1..n
    /\ \A i \in 1..n : ItemOK(f, f.items[i], f.spans[i][1], f.spans[i][2])
    /\ \A i, j \in 1..n : i < j => f.spans[i][2] <= f.spans[j][1]
    /\ \A i \in 1..n : Leads(f, i) =>
         \/ f.spans[i][2] >= Len(f.cells)
         \/ i < n /\ f.items[i + 1].k \in Headed /\ f.spans[i + 1][1] = f.spans[i][2]
    /\ n >= 1
    /\ IF f.chunk = None
       THEN /\ f.spans[1] = <<0, 1>> /\ Len(f.cells) >= 1
            /\ \A i \in 1..n : f.items[i].k # "Contents"
       ELSE n = 1 /\ f.items[1].k = "Contents" /\ f.chunk[1].compression \in Supported \cup {""}

ASSUME FilesAssumption == \A f \in Files : FileOK(f)

-------------------------------------------------------------------------------
(* The records, and the error after them, that each item stands for.       *)

\* Where record j of a chunk's content starts, `first` being before all of it.
RecordStart(c, first, j) ==
    FoldLeft(LAMBDA n, r : n + 1 + r.len, first, SubSeq(c.records, 1, j - 1))

ContentSteps(c, at) ==
    LET first == at + 1 + ChunkHead(c) IN
    [j \in DOMAIN c.records |->
        LET from == RecordStart(c, first, j) + 1 IN
        IF TooLarge(c.records[j].len) THEN Err("RecordTooLarge")
        ELSE Rec(c.records[j].op, from, from + c.records[j].len)]

ChunkSteps(c, at) ==
    LET size  == Len(Content(c))
        early == opts.prevalidate_chunk_crcs /\ c.crc # "zero"
    IN CASE opts.emit_chunks ->
              IF TooLarge(ChunkLen(c)) THEN <<Err("RecordTooLarge")>>
              ELSE <<Rec("Chunk", at + 1, at + 1 + ChunkLen(c))>>
         [] c.compression \notin {"", "zstd", "lz4"} ->
              IF at + 1 + ChunkHead(c) + c.over > Len(file.cells) THEN <<Err("UnexpectedEof")>>
              ELSE <<Err("UnsupportedCompression")>>
         [] c.short -> <<Err("UnexpectedEoc")>>
         [] TooLarge(c.padding) \/ (early /\ TooLarge(size)) -> <<Err("ChunkTooLarge")>>
         [] early /\ c.crc = "bad" -> <<Err("BadChunkCrc")>>
         [] OTHER -> ContentSteps(c, at) \o
              IF opts.validate_chunk_crcs /\ ~opts.prevalidate_chunk_crcs /\ c.crc = "bad"
              THEN <<Err("BadChunkCrc")>> ELSE <<>>

ItemSteps(i) ==
    LET it == file.items[i]
        at == file.spans[i][1]
    IN CASE it.k = "Record" ->
              IF TooLarge(it.len) THEN <<Err("RecordTooLarge")>>
              ELSE <<Rec(it.op, at + 1, at + 1 + it.len)>>
         [] it.k = "Chunk" -> ChunkSteps(it, at)
         [] it.k = "Contents" ->
              ContentSteps(it.of, -1 - ChunkHead(it.of)) \o
                 IF it.of.crc = "bad" THEN <<Err("BadChunkCrc")>> ELSE <<>>
         [] it.k = "DataEnd" ->
              IF TooLarge(1) THEN <<Err("RecordTooLarge")>>
              ELSE IF opts.validate_data_section_crc /\ it.crc = "bad" THEN <<Err("BadDataCrc")>>
              ELSE <<Rec("DataEnd", at + 1, at + 2)>>
         [] it.k = "Footer" ->
              IF TooLarge(2) THEN <<Err("RecordTooLarge")>>
              ELSE IF opts.validate_summary_section_crc /\ it.crc = "bad"
              THEN <<Err("BadSummaryCrc")>>
              ELSE <<Rec("Footer", at + 1, at + 3)>>
         [] it.k = "Magic" ->
              IF it.ok \/ (i = 1 /\ opts.skip_start_magic) \/ (i > 1 /\ opts.skip_end_magic)
              THEN <<>> ELSE <<Err("BadMagic")>>
         [] it.k = "Extra" ->
              IF opts.skip_end_magic \/ ~opts.check_finishes_after_end_magic
              THEN <<>> ELSE <<Err("BytesAfterEndMagic")>>

\* The steps of the first n items, as far as the first error.
Steps(n) ==
    LET all == FoldLeft(LAMBDA acc, i : acc \o ItemSteps(i), <<>>, [i \in 1..n |-> i])
        bad == {j \in DOMAIN all : ~all[j].ok}
    IN IF bad = {} THEN all ELSE SubSeq(all, 1, Min(bad))

Records(steps) ==
    LET good == SelectSeq(steps, LAMBDA s : s.ok) IN [j \in DOMAIN good |-> good[j].is]

Failure(steps) == IF steps # <<>> /\ ~Last(steps).ok THEN Last(steps).is ELSE "none"

\* The items that lie within the cells of a file that may be cut short.
Present == Cardinality({i \in DOMAIN file.spans : file.spans[i][2] <= Len(file.cells)})

\* Where a file may end without an end magic: between items, or after a footer.
AtBoundary ==
    \/ \E i \in DOMAIN file.spans : file.spans[i][2] = Len(file.cells)
    \/ \E r \in ToSet(yielded) : r.op = "Footer"

\* The opcode and length of these are consumed before the rest is asked for.
AfterOpcode ==
    \E i \in DOMAIN file.spans :
        /\ file.items[i].k \in {"Chunk", "DataEnd", "Footer"}
        /\ file.spans[i][1] + 1 = Len(file.cells)

-------------------------------------------------------------------------------
TypeOK ==
    /\ currently_reading.at \in
         {"StartMagic", "FileRecord", "DataEnd", "Footer", "ChunkHeader",
          "ValidatingChunkCrc", "ChunkRecord", "PaddingAfterChunk", "EndMagic", "AfterEndMagic"}
    /\ file_data.start \in 0..file_data.end /\ file_data.end <= Len(file.cells)
    /\ chunk_state # None =>
         /\ chunk_state[1].compressed_remaining \in Nat
         /\ chunk_state[1].uncompressed_remaining \in Nat
    /\ event.kind \in {"Call", "ReadRequest", "Record", "None", "Err"}
    /\ event.kind = "ReadRequest" => event.n \in Nat \ {0}
    /\ at_eof \in BOOLEAN

\* However the client's reads cut up the file, next_event() yields the records
\* the file's items stand for, in order, and no other; the error it ends with is
\* the one the first bad item deserves, after all records before it; it reports
\* the end of the file only where a file may end, and an unexpected one only for
\* a file that was cut, when every item before the cut is out, or for a compression
\* string longer than the file.  Nothing is said of whether a file may end after a
\* lone opcode and length: EndsBetweenRecords is about that.
YieldsFile ==
    LET all  == Steps(Len(file.items))
        here == Steps(Present)
    IN /\ IsPrefix(yielded, Records(all))
       /\ event.kind = "None" =>
            /\ yielded = Records(here)
            /\ Failure(here) = "none"
            /\ ~AfterOpcode => AtBoundary
       /\ event.kind = "Err" =>
            IF event.why = "UnexpectedEof"
            THEN /\ Len(yielded) >= Len(Records(here))
                 /\ \/ Present < Len(file.items) /\ Failure(here) = "none"
                    \/ Failure(here) = "UnexpectedEof"
            ELSE event.why = Failure(all) /\ yielded = Records(all)

\* next_event() on the end of a file: "If the reader is not expecting end magic or
\* has already seen it, and it isn't in the middle of a record or chunk, this is OK."
EndsBetweenRecords == event.kind = "None" => AtBoundary

\* The end of the chunk at hand, from where it starts.
ChunkEnd ==
    file.spans[CHOOSE i \in DOMAIN file.spans :
                 \/ file.chunk # None
                 \/ file.spans[i][1] < file_data.start /\ file_data.start <= file.spans[i][2]][2]

\* While a chunk is read, what is consumed, what remains of the compressed bytes
\* and what is to be skipped after them add up to the chunk's record: the counts
\* that ChunkRecord, decompress_inner and the padding take turns to change never
\* lose the place where the next record starts.  An error loses it.
ChunkAccounting ==
    chunk_state # None /\ event.kind # "Err" =>
        LET state == chunk_state[1] IN
        file_data.start + state.compressed_remaining + state.padding_after_compressed_data
            = ChunkEnd

\* What the buffer may grow to.
Permitted(total) ==
    \/ total <= 2 * opts.record_length_limit + 2
    \/ /\ currently_reading.at = "ChunkHeader"
       /\ total = HeaderLen(Plain(file_data.start + 1))
    \/ /\ currently_reading.at \in {"ValidatingChunkCrc", "ChunkRecord"}
       /\ Compressed /\ total = chunk_state[1].decompressor[1].need

\* With a record_length_limit no request makes the buffer grow beyond the limit,
\* the opcode and length and, after a compressed chunk, what its frame left over,
\* with two exceptions: a chunk's compression string is asked for whatever length
\* it says it has, and a decompressor gets what it would like to have.  No other
\* length in a file decides how much is buffered.
RequestsBounded == event.kind = "ReadRequest" => Permitted(Have + event.n)

\* next_event() does not ask for ever: a client that answers every request, with
\* nothing once the file is at its end, gets to None or to an error.
Finishes == <>Stopped

\* The reader's buffers and counters fit what it is reading, and in a chunk
\* what it has consumed and what it still expects make up the chunk.
ChunkConsistent == TypeOK /\ ChunkAccounting
===============================================================================
