----------------------------- MODULE LinearReader -----------------------------
(***************************************************************************)
(* The sans-I/O linear reader of sans_io/linear_reader.rs: it goes through *)
(* an MCAP file from start to end and yields its records.  It never reads; *)
(* it asks its client for bytes, and the client answers with as many as it *)
(* likes.                                                                  *)
(*                                                                         *)
(* A file is a sequence of cells.  The nine bytes of opcode and length are *)
(* one cell, a magic is one and the fixed part of a chunk header is one;   *)
(* every other cell is a piece of a compression string or of a body.       *)
(* A buffered cell is known by its position in the file.  A CRC stands for *)
(* the positions it was computed over, <<>> for the value 0 in a file and  *)
(* for "no hasher" in the reader.                                          *)
(*                                                                         *)
(* next_event() loops until it has something to return.  An action here is *)
(* one turn of that loop; event = Call means that the loop goes on.        *)
(***************************************************************************)
EXTENDS Integers, Sequences, FiniteSetsExt

CONSTANTS Files,      \* the files considered
          Options,    \* the LinearReaderOptions considered
          Overread    \* bound: cells a client reads beyond what was asked for

VARIABLES file,                 \* the cells of the file
          opts,                 \* LinearReaderOptions
          currently_reading,
          chunk_state,          \* Option<ChunkState>
          file_data,            \* RwBuf of cells read from the file
          decompressed_content, \* RwBuf of cells decompressed from a chunk
          decompressors,        \* decompressors kept for the next chunk
          at_eof,
          event,                \* what the last turn returned
          yielded               \* history: the records yielded

reader == <<currently_reading, chunk_state, file_data, decompressed_content,
            decompressors, at_eof>>
vars == <<file, opts, reader, event, yielded>>

\* record_length_limit: None, a number no length reaches.
NoLimit == 1000

OptionType ==
    [skip_start_magic : BOOLEAN, skip_end_magic : BOOLEAN,
     check_finishes_after_end_magic : BOOLEAN, emit_chunks : BOOLEAN,
     validate_chunk_crcs : BOOLEAN, prevalidate_chunk_crcs : BOOLEAN,
     validate_data_section_crc : BOOLEAN,
     validate_summary_section_crc : BOOLEAN, record_length_limit : Nat]

ASSUME LinearReaderAssumption ==
    Options \subseteq OptionType /\ Overread \in Nat

-------------------------------------------------------------------------------
(* Cells, hashers and buffers.                                             *)

\* What a cell holds once it is decompressed.
Plain(i) == IF file.cells[i].k = "Compressed" THEN file.cells[i].plain
            ELSE file.cells[i]

None == <<>>
Some(x) == <<x>>

Hashed(hasher, cells) == IF hasher = None THEN None ELSE Some(hasher[1] \o cells)

Mismatch_SlipZero(saved, calculated) == calculated # None /\ saved # calculated

\* A saved CRC of 0 means that there is none to compare with.
Mismatch(saved, calculated) ==
    saved # None /\ calculated # None /\ saved # calculated

Have == file_data.end - file_data.start

Unread(n) == [i \in 1..n |-> file_data.start + i]

\* RwBuf::mark_read and consume.
MarkRead(buf, n) ==
    [buf EXCEPT !.start = @ + n,
                !.hasher = Hashed(@, [i \in 1..n |-> buf.start + i])]

ConsumeWithoutHashing(buf, n) == [buf EXCEPT !.start = @ + n]

WithinLimit_SlipUsize(len) == len >= 0

\* check_len.
WithinLimit(len) == len <= opts.record_length_limit

-------------------------------------------------------------------------------
(* Construction.                                                           *)

Call == [kind |-> "Call"]

At(where) == [at |-> where, len |-> 0, taken |-> None]

NewCurrentlyReading(o) == At(IF o.skip_start_magic THEN "FileRecord" ELSE "StartMagic")

NewFileData(o, from) ==
    [start |-> from, end |-> from,
     hasher |-> IF o.validate_data_section_crc THEN Some(<<>>) ELSE None]

NewDecompressedContent(o) ==
    [unread |-> <<>>,
     hasher |-> IF o.validate_chunk_crcs /\ ~o.prevalidate_chunk_crcs
                THEN Some(<<>>) ELSE None]

\* LinearReader::new_with_options: a reader over the cells after position `from`.
New(o, from) ==
    /\ opts = o
    /\ currently_reading = NewCurrentlyReading(o)
    /\ chunk_state = None
    /\ file_data = NewFileData(o, from)
    /\ decompressed_content = NewDecompressedContent(o)
    /\ decompressors = {}
    /\ at_eof = FALSE

\* The same in the place of another reader.
Renew(o, from) ==
    /\ opts' = o
    /\ currently_reading' = NewCurrentlyReading(o)
    /\ chunk_state' = None
    /\ file_data' = NewFileData(o, from)
    /\ decompressed_content' = NewDecompressedContent(o)
    /\ decompressors' = {}
    /\ at_eof' = FALSE

\* What a decoder that has taken in nothing would like to have: lz4 the least size
\* of a frame, zstd the start of one.
FirstHint(name) == IF name = "lz4" THEN 2 ELSE 1

NewDecompressor(name) == [name |-> name, need |-> FirstHint(name), held |-> <<>>]

\* LinearReader::for_chunk: a reader over the data of one chunk, without limits.
ForChunkOptions ==
    [skip_start_magic |-> TRUE, skip_end_magic |-> TRUE,
     check_finishes_after_end_magic |-> FALSE, emit_chunks |-> FALSE,
     validate_chunk_crcs |-> TRUE, prevalidate_chunk_crcs |-> FALSE,
     validate_data_section_crc |-> FALSE, validate_summary_section_crc |-> FALSE,
     record_length_limit |-> NoLimit]

ForChunk(h) ==
    /\ opts = ForChunkOptions
    /\ currently_reading = At("ChunkRecord")
    /\ chunk_state =
         Some([decompressor |-> IF h.compression = "" THEN None
                                ELSE Some(NewDecompressor(h.compression)),
               hasher |-> Some(<<>>),
               compressed_remaining   |-> h.compressed_size,
               uncompressed_remaining |-> h.uncompressed_size,
               uncompressed_len       |-> h.uncompressed_size,
               padding_after_compressed_data |-> 0,
               crc |-> h.crc])
    /\ file_data = [start |-> 0, end |-> 0, hasher |-> None]
    /\ decompressed_content = [unread |-> <<>>, hasher |-> Some(<<>>)]
    /\ decompressors = {}
    /\ at_eof = FALSE

\* file.chunk is the header of the chunk the file consists of, if it does.
Init ==
    /\ file \in Files
    /\ IF file.chunk # None
       THEN ForChunk(file.chunk[1])
       ELSE \E o \in Options : New(o, IF o.skip_start_magic THEN 1 ELSE 0)
    /\ event = Call
    /\ yielded = <<>>

-------------------------------------------------------------------------------
(* The client.                                                             *)

Stopped == event.kind \in {"None", "Err"}

Remaining == Len(file.cells) - file_data.end

NotifyRead_SlipNoEof(n) ==
    /\ file_data' = [file_data EXCEPT !.end = @ + n]
    /\ at_eof' = at_eof

NotifyRead(n) ==
    /\ file_data' = [file_data EXCEPT !.end = @ + n]
    /\ at_eof' = (at_eof \/ n = 0)

\* insert() and notify_read(): any number of cells, none only at the end.
Read(n) ==
    /\ event.kind = "ReadRequest"
    /\ n <= event.n + Overread
    /\ IF Remaining = 0 THEN n = 0 ELSE n \in 1..Remaining
    /\ NotifyRead(n)
    /\ event' = Call
    /\ UNCHANGED <<file, opts, currently_reading, chunk_state,
                   decompressed_content, decompressors, yielded>>

TakeRecord ==
    /\ event.kind = "Record"
    /\ yielded' = Append(yielded, [op |-> event.op, data |-> event.data])
    /\ event' = Call
    /\ UNCHANGED <<file, opts, reader>>

-------------------------------------------------------------------------------
(* What a turn of the loop returns.                                        *)

Reading(where) ==
    /\ event = Call
    /\ ~at_eof
    /\ currently_reading.at = where

Ask_SlipEqual(n) ==
    /\ Have <= n
    /\ event' = [kind |-> "ReadRequest", n |-> n - Have]
    /\ UNCHANGED <<file, opts, reader, yielded>>

\* load! and consume!: n cells must be there, or else the client is asked.
Ask(n) ==
    /\ Have < n
    /\ event' = [kind |-> "ReadRequest", n |-> n - Have]
    /\ UNCHANGED <<file, opts, reader, yielded>>

Fails(why) == event' = [kind |-> "Err", why |-> why] /\ UNCHANGED <<file, opts, yielded>>

\* An error that leaves the reader as it is: the next call returns it again.
Error(why) == Fails(why) /\ UNCHANGED reader

\* An error found when n cells are consumed; the next call consumes as many more.
ErrorAfter(n, why) ==
    /\ Fails(why)
    /\ file_data' = MarkRead(file_data, n)
    /\ UNCHANGED <<currently_reading, chunk_state, decompressed_content, decompressors, at_eof>>

Yield(op, data) == event' = [kind |-> "Record", op |-> op, data |-> data]

End ==
    /\ event' = [kind |-> "None"]
    /\ UNCHANGED <<file, opts, reader, yielded>>

Continue == event' = Call /\ UNCHANGED <<file, opts, yielded>>

Become(where) == currently_reading' = At(where)

\* The end of the file is where it may be.
AtEof ==
    /\ opts.skip_end_magic \/ currently_reading.at = "AfterEndMagic"
    /\ Have = 0
    /\ decompressed_content.unread = <<>>
    /\ chunk_state = None

Eof ==
    /\ event = Call
    /\ at_eof
    /\ IF AtEof THEN End ELSE Error("UnexpectedEof")

-------------------------------------------------------------------------------
(* Outside of chunks.                                                      *)

StartMagic ==
    /\ Reading("StartMagic")
    /\ \/ Ask(1)
       \/ /\ Have >= 1
          /\ IF Plain(file_data.start + 1).k # "Magic"
             THEN ErrorAfter(1, "BadMagic")
             ELSE /\ file_data' = MarkRead(file_data, 1)
                  /\ Become("FileRecord")
                  /\ Continue
                  /\ UNCHANGED <<chunk_state, decompressed_content, decompressors, at_eof>>

\* The opcode decides: DATA_END and FOOTER take the hasher with them, the one
\* before and the other after their own opcode and length are hashed.
EnterSpecial(head) ==
    LET f == MarkRead(file_data, 1) IN
    CASE head.op = "DataEnd" ->
           /\ file_data' = [f EXCEPT !.hasher = None]
           /\ currently_reading' =
                [at |-> "DataEnd", len |-> head.len, taken |-> file_data.hasher]
      [] head.op = "Footer" ->
           /\ file_data' = [f EXCEPT !.hasher = None]
           /\ currently_reading' = [at |-> "Footer", len |-> head.len, taken |-> f.hasher]
      [] OTHER ->
           /\ file_data' = f
           /\ currently_reading' = [At("ChunkHeader") EXCEPT !.len = head.len]

Special(head) == head.op \in {"DataEnd", "Footer"} \/ (head.op = "Chunk" /\ ~opts.emit_chunks)

FileRecord ==
    /\ Reading("FileRecord")
    /\ \/ Ask(1)
       \/ /\ Have >= 1
          /\ LET head == Plain(file_data.start + 1) IN
             \/ /\ Special(head)
                /\ EnterSpecial(head)
                /\ Continue
                /\ UNCHANGED <<chunk_state, decompressed_content, decompressors, at_eof>>
             \/ /\ ~Special(head)
                /\ ~WithinLimit(head.len)
                /\ Error("RecordTooLarge")
             \/ /\ ~Special(head)
                /\ WithinLimit(head.len)
                /\ Ask(1 + head.len)
             \/ /\ ~Special(head)
                /\ WithinLimit(head.len)
                /\ Have >= 1 + head.len
                /\ Yield(head.op, Tail(Unread(1 + head.len)))
                /\ file_data' = MarkRead(file_data, 1 + head.len)
                /\ UNCHANGED <<file, opts, currently_reading, chunk_state,
                               decompressed_content, decompressors, at_eof, yielded>>

DataEnd ==
    /\ Reading("DataEnd")
    /\ LET len == currently_reading.len IN
       \/ ~WithinLimit(len) /\ Error("RecordTooLarge")
       \/ WithinLimit(len) /\ Ask(len)
       \/ /\ WithinLimit(len) /\ Have >= len
          /\ IF Mismatch(Plain(file_data.start + 1).crc, currently_reading.taken)
             THEN Error("BadDataCrc")
             ELSE /\ Yield("DataEnd", Unread(len))
                  /\ file_data' =
                       [ConsumeWithoutHashing(file_data, len) EXCEPT
                          !.hasher = IF opts.validate_summary_section_crc
                                     THEN Some(<<>>) ELSE @]
                  /\ Become("FileRecord")
                  /\ UNCHANGED <<file, opts, chunk_state, decompressed_content,
                                 decompressors, at_eof, yielded>>

\* The first cell of the body is what the summary CRC covers of the footer.
Footer ==
    /\ Reading("Footer")
    /\ LET len == currently_reading.len IN
       \/ ~WithinLimit(len) /\ Error("RecordTooLarge")
       \/ WithinLimit(len) /\ Ask(len)
       \/ /\ WithinLimit(len) /\ Have >= len
          /\ IF Mismatch(Plain(file_data.start + 2).crc,
                         Hashed(currently_reading.taken, Unread(1)))
             THEN ErrorAfter(len, "BadSummaryCrc")
             ELSE /\ Yield("Footer", Unread(len))
                  /\ file_data' = MarkRead(file_data, len)
                  /\ Become("EndMagic")
                  /\ UNCHANGED <<file, opts, chunk_state, decompressed_content,
                                 decompressors, at_eof, yielded>>

EndMagic ==
    /\ Reading("EndMagic")
    /\ \/ opts.skip_end_magic /\ End
       \/ ~opts.skip_end_magic /\ Ask(1)
       \/ /\ ~opts.skip_end_magic /\ Have >= 1
          /\ IF Plain(file_data.start + 1).k # "Magic"
             THEN ErrorAfter(1, "BadMagic")
             ELSE /\ file_data' = MarkRead(file_data, 1)
                  /\ Become("AfterEndMagic")
                  /\ Continue
                  /\ UNCHANGED <<chunk_state, decompressed_content, decompressors, at_eof>>

AfterEndMagic ==
    /\ Reading("AfterEndMagic")
    /\ \/ ~opts.check_finishes_after_end_magic /\ End
       \/ opts.check_finishes_after_end_magic /\ Have > 0 /\ Error("BytesAfterEndMagic")
       \/ opts.check_finishes_after_end_magic /\ Ask(1)

-------------------------------------------------------------------------------
(* Decompression.                                                          *)

\* The lz4 and zstd decoders behind the Decompressor trait: they take in cells
\* and give them out decompressed, holding back the mark at the end of the
\* frame until all else is out.  next_read_size is 0 after that mark and else
\* whatever the library makes of it, but never beyond the frame; a reset does not
\* touch it.
Reset(d) == [d EXCEPT !.held = <<>>]

Decoded(d, src, dst, hint) ==
    LET marks == {i \in DOMAIN src : Plain(src[i]).k = "FrameEnd"}
        input == IF marks = {} THEN src ELSE SubSeq(src, 1, Min(marks) - 1)
        held  == d.held \o input
        n     == Min({dst, Len(held)})
        rest  == SubSeq(held, n + 1, Len(held))
        ends  == rest = <<>> /\ marks # {}
    IN [consumed |-> Len(input) + (IF ends THEN 1 ELSE 0),
        wrote    |-> SubSeq(held, 1, n),
        next     |-> [d EXCEPT !.held = rest, !.need = IF ends THEN 0 ELSE hint]]

Supported == {"zstd", "lz4"}

\* get_decompressor: one kept from an earlier chunk is used again.
GetDecompressor(name) ==
    LET kept == {d \in decompressors : d.name = name} IN
    CASE name = "" -> None
      [] name # "" /\ kept # {} -> Some(CHOOSE d \in kept : TRUE)
      [] OTHER -> Some(NewDecompressor(name))

\* One turn of the loop in decompress_inner, for n decompressed cells.  The next
\* turn asks for what the decoder would like to have before it looks whether
\* there is anything left to do.
Decompress(n) ==
    LET state == chunk_state[1]
        d     == state.decompressor[1]
        src   == Unread(Min({Have, state.compressed_remaining}))
    IN \/ Ask(d.need)
       \/ /\ Have >= d.need
          /\ state.uncompressed_remaining = 0
          /\ Error("UnexpectedEoc")
       \/ /\ Have >= d.need
          /\ state.uncompressed_remaining > 0
          /\ \E hint \in 1..state.compressed_remaining :
               LET res  == Decoded(d, src, n - Len(decompressed_content.unread), hint)
                   have == Have - res.consumed
               IN /\ res.next.need <= state.compressed_remaining - res.consumed
                  /\ file_data' = MarkRead(file_data, res.consumed)
                  /\ decompressed_content' =
                       [decompressed_content EXCEPT !.unread = @ \o res.wrote]
                  /\ chunk_state' =
                       Some([state EXCEPT !.decompressor = Some(res.next),
                                          !.compressed_remaining = @ - res.consumed,
                                          !.uncompressed_remaining = @ - Len(res.wrote)])
                  /\ event' = IF have < res.next.need
                              THEN [kind |-> "ReadRequest", n |-> res.next.need - have] ELSE Call
          /\ UNCHANGED <<file, opts, currently_reading, decompressors, at_eof, yielded>>

-------------------------------------------------------------------------------
(* Chunks.                                                                 *)

\* The fixed part of the header, and a compression string as long as it says.
HeaderLen(h) == 1 + h.compression_len

ChunkError(h, len) ==
    IF h.compression \notin Supported \cup {""} THEN "UnsupportedCompression"
    ELSE IF len < HeaderLen(h) + h.compressed_size THEN "UnexpectedEoc"
    ELSE IF ~WithinLimit(len - HeaderLen(h) - h.compressed_size) THEN "ChunkTooLarge"
    ELSE "none"

Validating == opts.validate_chunk_crcs /\ ~opts.prevalidate_chunk_crcs

NewChunkState(h, len) ==
    [decompressor |-> GetDecompressor(h.compression),
     hasher |-> IF Validating /\ h.crc # None /\ h.compression = ""
                THEN Some(<<>>) ELSE None,
     compressed_remaining   |-> h.compressed_size,
     uncompressed_remaining |-> h.uncompressed_size,
     uncompressed_len       |-> h.uncompressed_size,
     padding_after_compressed_data |-> len - HeaderLen(h) - h.compressed_size,
     crc |-> h.crc]

ChunkHeader ==
    /\ Reading("ChunkHeader")
    /\ \/ Ask(1)
       \/ /\ Have >= 1
          /\ LET h   == Plain(file_data.start + 1)
                 len == currently_reading.len
             IN \/ Ask(HeaderLen(h))
                \/ /\ Have >= HeaderLen(h)
                   /\ ChunkError(h, len) # "none"
                   /\ Fails(ChunkError(h, len))
                   /\ file_data' = MarkRead(file_data, HeaderLen(h))
                   /\ decompressors' = {d \in decompressors : d.name # h.compression}
                   /\ UNCHANGED <<currently_reading, chunk_state, decompressed_content, at_eof>>
                \/ /\ Have >= HeaderLen(h)
                   /\ ChunkError(h, len) = "none"
                   /\ file_data' = MarkRead(file_data, HeaderLen(h))
                   /\ chunk_state' = Some(NewChunkState(h, len))
                   /\ decompressors' = {d \in decompressors : d.name # h.compression}
                   /\ decompressed_content' =
                        [unread |-> <<>>,
                         hasher |-> IF Validating /\ h.crc # None /\ h.compression # ""
                                    THEN Some(<<>>) ELSE None]
                   /\ Become(IF opts.prevalidate_chunk_crcs /\ h.crc # None
                             THEN "ValidatingChunkCrc" ELSE "ChunkRecord")
                   /\ Continue
                   /\ UNCHANGED at_eof

Compressed == chunk_state[1].decompressor # None

\* The CRC of all records of a chunk, before any of them is yielded.
Validate(cells) ==
    IF chunk_state[1].crc # Some(cells) THEN Error("BadChunkCrc")
    ELSE /\ Become("ChunkRecord")
         /\ Continue
         /\ UNCHANGED <<chunk_state, file_data, decompressed_content,
                        decompressors, at_eof>>

ValidatingUncompressed ==
    /\ Reading("ValidatingChunkCrc") /\ ~Compressed
    /\ LET n == chunk_state[1].compressed_remaining IN
       \/ ~WithinLimit(n) /\ Error("ChunkTooLarge")
       \/ WithinLimit(n) /\ Ask(n)
       \/ WithinLimit(n) /\ Have >= n /\ Validate(Unread(n))

ValidatingCompressed ==
    /\ Reading("ValidatingChunkCrc") /\ Compressed
    /\ LET n == chunk_state[1].uncompressed_len IN
       \/ ~WithinLimit(n) /\ Error("ChunkTooLarge")
       \/ /\ WithinLimit(n)
          /\ IF Len(decompressed_content.unread) >= n
             THEN Validate(decompressed_content.unread)
             ELSE Decompress(n)

\* All records of the chunk are out.
LeaveChunk(padding) ==
    /\ chunk_state' = Some([chunk_state[1] EXCEPT !.padding_after_compressed_data = padding,
                                                  !.compressed_remaining = 0])
    /\ Become("PaddingAfterChunk")
    /\ Continue
    /\ UNCHANGED <<file_data, decompressed_content, decompressors, at_eof>>

UncompressedRecord ==
    /\ Reading("ChunkRecord") /\ ~Compressed
    /\ LET state == chunk_state[1] IN
       IF state.compressed_remaining = 0
       THEN LeaveChunk(state.padding_after_compressed_data)
       ELSE \/ Ask(1)
            \/ /\ Have >= 1
               /\ LET head == Plain(file_data.start + 1)
                      n    == 1 + head.len
                  IN \/ ~WithinLimit(head.len) /\ Error("RecordTooLarge")
                     \/ WithinLimit(head.len) /\ Ask(n)
                     \/ /\ WithinLimit(head.len) /\ Have >= n
                        /\ Yield(head.op, Tail(Unread(n)))
                        /\ file_data' = MarkRead(file_data, n)
                        /\ chunk_state' =
                             Some([state EXCEPT !.compressed_remaining = @ - n,
                                                !.hasher = Hashed(@, Unread(n))])
                        /\ UNCHANGED <<file, opts, currently_reading,
                                       decompressed_content, decompressors, at_eof, yielded>>

Padding_SlipLeftover(state) == state.padding_after_compressed_data

\* Compressed bytes that no record needed count as padding.
Padding(state) == state.padding_after_compressed_data + state.compressed_remaining

CompressedRecord ==
    /\ Reading("ChunkRecord") /\ Compressed
    /\ LET state  == chunk_state[1]
           unread == decompressed_content.unread
       IN CASE unread = <<>> /\ state.uncompressed_remaining = 0 ->
                 IF WithinLimit(state.compressed_remaining)
                 THEN LeaveChunk(Padding(state)) ELSE Error("ChunkTooLarge")
            [] unread = <<>> /\ state.uncompressed_remaining > 0 -> Decompress(1)
            [] unread # <<>> ->
                 LET head == Plain(unread[1])
                     n    == 1 + head.len
                 IN \/ ~WithinLimit(head.len) /\ Error("RecordTooLarge")
                    \/ WithinLimit(head.len) /\ Len(unread) < n /\ Decompress(n)
                    \/ /\ WithinLimit(head.len) /\ Len(unread) >= n
                       /\ Yield(head.op, SubSeq(unread, 2, n))
                       /\ decompressed_content' =
                            [unread |-> SubSeq(unread, n + 1, Len(unread)),
                             hasher |-> Hashed(decompressed_content.hasher, SubSeq(unread, 1, n))]
                       /\ UNCHANGED <<file, opts, currently_reading, chunk_state,
                                      file_data, decompressors, at_eof, yielded>>

\* The hasher of the chunk's records, wherever they were.
ChunkHasher == IF Compressed THEN decompressed_content.hasher ELSE chunk_state[1].hasher

\* The padding stays to be consumed, and one more hasher to be looked at, if the
\* CRC is wrong and the client goes on.
PaddingAfterChunk ==
    /\ Reading("PaddingAfterChunk")
    /\ LET state == chunk_state[1]
           n     == state.padding_after_compressed_data
       IN \/ Ask(n)
          \/ /\ Have >= n
             /\ file_data' = MarkRead(file_data, n)
             /\ decompressors' = decompressors \cup
                  (IF Compressed THEN {Reset(state.decompressor[1])} ELSE {})
             /\ decompressed_content' =
                  [decompressed_content EXCEPT !.hasher = IF Compressed THEN None ELSE @]
             /\ UNCHANGED at_eof
             /\ IF Mismatch(state.crc, ChunkHasher)
                THEN /\ chunk_state' = Some([state EXCEPT !.decompressor = None,
                                              !.hasher = IF Compressed THEN @ ELSE None])
                     /\ Fails("BadChunkCrc")
                     /\ UNCHANGED currently_reading
                ELSE /\ chunk_state' = None
                     /\ Become("FileRecord")
                     /\ Continue

-------------------------------------------------------------------------------
NextEvent ==
    \/ Eof \/ StartMagic \/ FileRecord \/ DataEnd \/ Footer \/ EndMagic \/ AfterEndMagic
    \/ ChunkHeader \/ ValidatingUncompressed \/ ValidatingCompressed
    \/ UncompressedRecord \/ CompressedRecord \/ PaddingAfterChunk

Next == NextEvent \/ TakeRecord \/ \E n \in 0..(Len(file.cells) + 1) : Read(n)

\* A client that goes on until the reader is done.
Spec == Init /\ [][Next]_vars /\ WF_vars(Next)

===============================================================================
