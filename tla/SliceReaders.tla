----------------------------- MODULE SliceReaders -----------------------------
(***************************************************************************)
(* The readers of read.rs over a whole file in memory: MessageStream and   *)
(* RawMessageStream from start to end, and the ways into the middle of the *)
(* file that a summary opens: attachment, metadata, Summary::stream_chunk, *)
(* Summary::seek_message and Summary::read_message_indexes.  All of them   *)
(* run a sans-I/O LinearReader over a slice; a behaviour here is one call  *)
(* of one of them (for the iterators: call after call of next() until they *)
(* are exhausted, whatever they return before that).                       *)
(***************************************************************************)
EXTENDS LinearReader, ChannelAccumulator

CONSTANTS Mcaps,       \* the files considered
          Calls(_),    \* the calls considered for a file
          U64,         \* bound: offsets and lengths in an index are below it
          MaxErrors    \* bound: errors that are written down, of all that come

VARIABLES mcap,        \* the file
          call,        \* the function called and its arguments
          channeler,   \* ChannelAccumulator of a stream
          done,        \* the call, or the iterator, is finished
          held,        \* records read so far by a call that reads more than one
          out          \* the messages, records and errors given to the caller

sliceVars == <<mcap, call, channeler, done, held, out>>
allVars == <<vars, sliceVars>>

Ok(x) == [ok |-> TRUE, is |-> x]
Fail(why) == [ok |-> FALSE, is |-> why]

ASSUME SliceAssumption == U64 \in Nat \ {0} /\ MaxErrors \in Nat \ {0}

Options0 ==
    [skip_start_magic |-> FALSE, skip_end_magic |-> FALSE,
     check_finishes_after_end_magic |-> FALSE, emit_chunks |-> FALSE,
     validate_chunk_crcs |-> FALSE, prevalidate_chunk_crcs |-> FALSE,
     validate_data_section_crc |-> FALSE, validate_summary_section_crc |-> FALSE,
     record_length_limit |-> NoLimit]

\* ChunkFlattener, LinearReader::new and LinearReader::sans_magic.
Flattening(ignore_end_magic) ==
    [Options0 EXCEPT !.skip_end_magic = ignore_end_magic, !.validate_chunk_crcs = TRUE]
Linear(ignore_end_magic, len) ==
    [Flattening(ignore_end_magic) EXCEPT !.emit_chunks = TRUE, !.record_length_limit = len]
SansMagic(len) ==
    [Options0 EXCEPT !.skip_start_magic = TRUE, !.skip_end_magic = TRUE,
                     !.record_length_limit = len]

Slice(from, to) == [cells |-> SubSeq(mcap.cells, from + 1, to), chunk |-> None]

\* The record at `from` taken for a chunk: its header and its data.  The cells
\* of the slice count from 1, those its CRC stands for with them.
ChunkAt(from, to) ==
    LET h    == mcap.cells[from + 2]
        skip == from + 1 + HeaderLen(h)
        crc  == IF h.crc = None THEN None
                ELSE Some([i \in DOMAIN h.crc[1] |-> h.crc[1][i] - skip])
    IN [header |-> [h EXCEPT !.crc = crc], data |-> SubSeq(mcap.cells, skip + 1, to)]

-------------------------------------------------------------------------------
(* Parsing.                                                                *)

\* What parse_record makes of a record.  A length that does not fit, or an
\* attachment whose CRC is not the saved one, is an error the record's own cells
\* stand for.
ParseRecord(op, data) ==
    LET first == Plain(data[1]) IN
    CASE op = "Chunk" ->
           IF first.compressed_size > Len(data) - HeaderLen(first)
           THEN Fail("BadChunkLength") ELSE Ok(op)
      [] op \in {"DataEnd", "Footer", "Private"} -> Ok(op)
      [] op \in {"Schema", "Attachment"} /\ first.val.bad # "none" -> Fail(first.val.bad)
      [] OTHER -> Ok(first.val.val)

Here == ParseRecord(event.op, event.data)

\* footer(): the body is taken from where a footer at the end would have it.
FooterOf(f) ==
    LET n == Len(f.cells) IN
    CASE n < 5 -> Fail("UnexpectedEof")
      [] n >= 5 /\ (f.cells[1].k # "Magic" \/ f.cells[n].k # "Magic") -> Fail("BadMagic")
      [] OTHER -> Ok(f.cells[n - 2])

-------------------------------------------------------------------------------
(* The start of a call.                                                    *)

\* Without an answer yet: a reader over the slice.
Open(slice, o, from) ==
    /\ file = slice
    /\ New(o, from)
    /\ done = FALSE
    /\ out = <<>>

Closed(answer) ==
    /\ file = [cells |-> <<>>, chunk |-> None]
    /\ New(Options0, 0)
    /\ done = TRUE
    /\ out = <<answer>>

OpenStream == Open(Slice(0, Len(mcap.cells)), Flattening(call.ignore_end_magic), 0)

OpenLinear ==
    Open(Slice(0, Len(mcap.cells)), Linear(call.ignore_end_magic, Len(mcap.cells)), 0)

\* What an index spans.  The end is an unchecked sum of 64 bits: a build with
\* overflow checks panics where another wraps around.
End64(index) == (index.offset + index.length) % U64

Overflows(index) == index.offset + index.length >= U64

Panic == Fail("panic")

OpenIndexed_SlipToEnd ==
    IF Len(mcap.cells) < End64(call.index) THEN Closed(Fail("BadIndex"))
    ELSE Open(Slice(call.index.offset, Len(mcap.cells)), SansMagic(Len(mcap.cells)), 0)

\* attachment() and metadata().
OpenIndexed ==
    LET end == End64(call.index) IN
    \/ Overflows(call.index) /\ Closed(Panic)
    \/ CASE Len(mcap.cells) < end -> Closed(Fail("BadIndex"))
         [] Len(mcap.cells) >= end /\ end < call.index.offset -> Closed(Panic)
         [] OTHER -> Open(Slice(call.index.offset, end), SansMagic(end - call.index.offset), 0)

\* What parse_record makes of the cells after the opcode and length at `from`.
ChunkRecordError(from, to) ==
    CASE to < from + 2 -> "Parse"
      [] to >= from + 2 /\ to < from + 1 + HeaderLen(mcap.cells[from + 2]) -> "Parse"
      [] OTHER -> LET c == ChunkAt(from, to) IN
                  CASE c.header.compressed_size > Len(c.data) -> "BadChunkLength"
                    [] c.header.compressed_size <= Len(c.data)
                         /\ c.header.compression \notin Supported \cup {""} -> "UnsupportedCompression"
                    [] OTHER -> "none"

\* stream_chunk() and seek_message(): the opcode is skipped without a look, a slice
\* too short for it panics.
OpenChunk ==
    LET from == call.index.offset
        end  == End64(call.index)
    IN \/ Overflows(call.index) /\ Closed(Panic)
       \/ CASE Len(mcap.cells) < end -> Closed(Fail("BadIndex"))
            [] Len(mcap.cells) >= end /\ end < (from + 1) % U64 -> Closed(Panic)
            [] Len(mcap.cells) >= end /\ end >= (from + 1) % U64
                 /\ ChunkRecordError(from, end) # "none" ->
                 Closed(Fail(ChunkRecordError(from, end)))
            [] OTHER ->
                 LET c == ChunkAt(from, end) IN
                 /\ file = [cells |-> SubSeq(c.data, 1, c.header.compressed_size), chunk |-> None]
                 /\ ForChunk(c.header)
                 /\ done = FALSE
                 /\ out = <<>>

\* Whether there is room for a message index, MIN_MESSAGE_INDEX_BYTES being a cell.
OffsetError(offset) ==
    CASE offset + 1 >= U64 -> "panic"
      [] offset + 1 < U64 /\ Len(mcap.cells) < offset + 1 -> "BadIndex"
      [] OTHER -> "none"

\* The first of the message indexes.
OpenMessageIndexes ==
    LET first == call.offsets[1].offset IN
    CASE call.offsets = <<>> -> Closed(Fail("BadIndex"))
      [] call.offsets # <<>> /\ OffsetError(first) # "none" -> Closed(Fail(OffsetError(first)))
      [] OTHER ->
           Open(Slice(first, Len(mcap.cells)), SansMagic(Len(mcap.cells) - first), 0)

SliceInit ==
    /\ mcap \in Mcaps
    /\ call \in Calls(mcap)
    /\ CASE call.fn \in {"RawMessageStream", "MessageStream"} -> OpenStream
         [] call.fn = "LinearReader" -> OpenLinear
         [] call.fn \in {"attachment", "metadata"} -> OpenIndexed
         [] call.fn \in {"stream_chunk", "seek_message"} -> OpenChunk
         [] call.fn = "read_message_indexes" -> OpenMessageIndexes
         [] call.fn = "footer" -> Closed(FooterOf(mcap))
    /\ event = Call
    /\ yielded = <<>>
    /\ channeler = NoChannels
    /\ held = <<>>

-------------------------------------------------------------------------------
(* InnerReader::next: the loop around the sans-I/O reader.                 *)

Turn ==
    /\ ~done
    /\ NextEvent
    /\ UNCHANGED sliceVars

\* As much as is asked for and there; nothing at the end of the slice.
Fill ==
    /\ ~done
    /\ event.kind = "ReadRequest"
    /\ NotifyRead(Min({Remaining, event.n}))
    /\ event' = Call
    /\ UNCHANGED <<file, opts, currently_reading, chunk_state, decompressed_content,
                   decompressors, yielded, sliceVars>>

Got(fns) == ~done /\ call.fn \in fns /\ event.kind \in {"Record", "None", "Err"}

Give(x, finished) ==
    /\ out' = out \o x
    /\ done' = finished
    /\ event' = Call
    /\ UNCHANGED <<file, opts, reader, yielded, mcap, call, held>>

Skip == Give(<<>>, FALSE) /\ UNCHANGED channeler

\* The error of the reader, or nothing at its end.
Ending == IF event.kind = "Err" THEN <<Fail(event.why)>> ELSE <<>>

\* InnerReader::next returns an error and looks for the next event when it is called
\* again.
GiveError(x) ==
    Give(IF Len(SelectSeq(out, LAMBDA y : ~y.ok)) < MaxErrors THEN <<x>> ELSE <<>>, FALSE)

-------------------------------------------------------------------------------
(* Streams.                                                                *)

\* LinearReader::next yields every record, and every error.
LinearRecord ==
    /\ Got({"LinearReader"})
    /\ CASE event.kind = "None" -> Give(<<>>, TRUE)
         [] event.kind = "Err" -> GiveError(Fail(event.why))
         [] event.kind = "Record" /\ ~Here.ok -> GiveError(Here)
         [] event.kind = "Record" /\ Here.ok ->
              Give(<<Ok([op |-> event.op, val |-> Here.is])>>, FALSE)
    /\ UNCHANGED channeler

Added(res) ==
    /\ channeler' = res.acc
    /\ IF res.error = "none" THEN Give(<<>>, FALSE) ELSE Give(<<Fail(res.error)>>, TRUE)

\* MessageStream gives a message its channel; without one it reports so and can
\* go on, since RawMessageStream under it has not failed.
WithChannel(m, channels) ==
    IF m.channel_id \in DOMAIN channels
    THEN Ok([channel |-> channels[m.channel_id], seq |-> m.seq]) ELSE Fail("UnknownChannel")

StreamRecord ==
    /\ Got({"RawMessageStream", "MessageStream"})
    /\ \/ /\ event.kind # "Record"
          /\ Give(Ending, TRUE)
          /\ UNCHANGED channeler
       \/ /\ event.kind = "Record" /\ ~Here.ok
          /\ Give(<<Here>>, TRUE)
          /\ UNCHANGED channeler
       \/ /\ event.kind = "Record" /\ Here.ok
          /\ \/ event.op = "Schema" /\ Added(AddSchema(channeler, Here.is))
             \/ event.op = "Channel" /\ Added(AddChannel(channeler, Here.is))
             \/ /\ event.op = "Message"
                /\ Give(<<IF call.fn = "MessageStream"
                          THEN WithChannel(Here.is, channeler.channels) ELSE Ok(Here.is)>>, FALSE)
                /\ UNCHANGED channeler
             \/ event.op \notin {"Schema", "Channel", "Message"} /\ Skip

\* Summary::stream_chunk takes the channels from the summary.
ChunkMessage ==
    /\ Got({"stream_chunk"})
    /\ CASE event.kind = "None" -> Give(<<>>, TRUE)
         [] event.kind = "Err" -> GiveError(Fail(event.why))
         [] event.kind = "Record" /\ ~Here.ok -> GiveError(Here)
         [] event.kind = "Record" /\ Here.ok ->
              Give(IF event.op = "Message" THEN <<WithChannel(Here.is, call.channels)>>
                   ELSE <<>>, FALSE)
    /\ UNCHANGED channeler

-------------------------------------------------------------------------------
(* Single records.                                                         *)

Hold(x) ==
    /\ held' = Append(held, x)
    /\ event' = Call
    /\ UNCHANGED <<file, opts, reader, yielded, mcap, call, channeler, done, out>>

Wanted == IF call.fn = "attachment" THEN "Attachment" ELSE "Metadata"

\* One record of the kind, and after it the end of the slice.
IndexedRecord ==
    /\ Got({"attachment", "metadata"})
    /\ \/ /\ held = <<>> /\ event.kind = "Record" /\ Here.ok /\ event.op = Wanted
          /\ Hold(Here.is)
       \/ /\ held = <<>> /\ ~(event.kind = "Record" /\ Here.ok /\ event.op = Wanted)
          /\ Give(<<CASE event.kind = "Err" -> Fail(event.why)
                      [] event.kind = "Record" /\ ~Here.ok -> Here
                      [] OTHER -> Fail("BadIndex")>>, TRUE)
          /\ UNCHANGED channeler
       \/ /\ held # <<>>
          /\ Give(<<IF event.kind = "None" THEN Ok(held[1]) ELSE Fail("BadIndex")>>, TRUE)
          /\ UNCHANGED channeler

\* seek_message: records before the offset are counted, with their opcode and
\* length; held has one element for every cell counted.
SeekRecord ==
    /\ Got({"seek_message"})
    /\ \/ /\ event.kind = "Record" /\ Len(held) < call.offset
          /\ held' = held \o [i \in 1..(1 + Len(event.data)) |-> "cell"]
          /\ event' = Call
          /\ UNCHANGED <<file, opts, reader, yielded, mcap, call, channeler, done, out>>
       \/ /\ ~(event.kind = "Record" /\ Len(held) < call.offset)
          /\ Give(<<CASE event.kind = "Err" -> Fail(event.why)
                      [] event.kind = "Record" /\ Len(held) = call.offset /\ ~Here.ok -> Here
                      [] event.kind = "Record" /\ Len(held) = call.offset /\ Here.ok
                           /\ event.op = "Message" -> WithChannel(Here.is, call.channels)
                      [] OTHER -> Fail("BadIndex")>>, TRUE)
          /\ UNCHANGED channeler

\* The index record for the channel that the chunk index says it is for.
IndexError(entry) ==
    CASE event.kind = "Err" -> event.why
      [] event.kind = "None" -> "BadIndex"
      [] event.kind = "Record" /\ event.op # "MessageIndex" ->
           IF Here.ok THEN "BadIndex" ELSE Here.is
      [] event.kind = "Record" /\ event.op = "MessageIndex" ->
           CASE Here.is.channel_id # entry.channel_id -> "BadIndex"
             [] Here.is.channel_id = entry.channel_id
                  /\ entry.channel_id \notin DOMAIN call.channels -> "UnknownChannel"
             [] OTHER -> "none"

\* Each offset in turn, with a reader of its own from there to the end of the file.
MessageIndexRecord ==
    /\ Got({"read_message_indexes"})
    /\ LET i    == Len(held) + 1
           why  == IndexError(call.offsets[i])
           next == call.offsets[i + 1].offset
       IN \/ /\ why # "none"
             /\ Give(<<Fail(why)>>, TRUE)
             /\ UNCHANGED channeler
          \/ /\ why = "none" /\ i = Len(call.offsets)
             /\ Give(<<Ok(Append(held, Here.is))>>, TRUE)
             /\ UNCHANGED channeler
          \/ /\ why = "none" /\ i < Len(call.offsets)
             /\ OffsetError(next) # "none"
             /\ Give(<<Fail(OffsetError(next))>>, TRUE)
             /\ UNCHANGED channeler
          \/ /\ why = "none" /\ i < Len(call.offsets)
             /\ OffsetError(next) = "none"
             /\ held' = Append(held, Here.is)
             /\ file' = Slice(next, Len(mcap.cells))
             /\ Renew(SansMagic(Len(mcap.cells) - next), 0)
             /\ event' = Call
             /\ UNCHANGED <<yielded, mcap, call, channeler, done, out>>

-------------------------------------------------------------------------------
SliceNext ==
    \/ Turn \/ Fill \/ LinearRecord \/ StreamRecord \/ ChunkMessage
    \/ IndexedRecord \/ SeekRecord \/ MessageIndexRecord

SliceSpec == SliceInit /\ [][SliceNext]_allVars /\ WF_allVars(SliceNext)
===============================================================================
