-------------------------------- MODULE Writer --------------------------------
(***************************************************************************)
(* mcap::Writer (rust/mcap/src/write.rs): the calls of its public API, the *)
(* records they put into the file, the bookkeeping behind the summary      *)
(* section, and what an I/O error at any point leaves behind.              *)
(*                                                                         *)
(* The file is the sequence of its records; an offset is a position in     *)
(* that sequence, and the offset of a message inside a chunk is its        *)
(* position among the records of the chunk.  A write that fails leaves     *)
(* nothing or a Torn record.  The writer is used through &mut self: calls  *)
(* do not overlap, so each call is one action; the I/O errors it may meet  *)
(* are the nondeterminism inside it.                                       *)
(*                                                                         *)
(* A definition named X_Slip... is X with a plausible slip; it is not part *)
(* of the specification.  It documents what the properties are sensitive   *)
(* to: with the slip in place of X some property fails.                    *)
(***************************************************************************)
EXTENDS IdRegistry, Sequences, SequencesExt, Sorting

CONSTANTS SchemaContents, \* (name, encoding, data) of a schema
          Topics,         \* (topic, message encoding, metadata) of a channel
          NoSchema,       \* a channel without schema
          CallerIds,      \* ids a caller brings along in write()
          Times,          \* log times
          Options,        \* the WriteOptions a writer may be created with
          Api,            \* the calls the client of this instance makes
          MaxRecords,     \* bound: records in the file before finish()
          MaxFaults,      \* bound: I/O errors in one life of the writer
          MaxMessages,    \* bound: messages counted on one channel
          MaxAttachment   \* bound: declared length of an attachment

Unlimited == -1      \* chunk_size: None

\* WriteOptions.
OptionType ==
    [use_chunks : BOOLEAN, disable_seeking : BOOLEAN,
     chunk_size : Nat \cup {Unlimited},
     emit_statistics : BOOLEAN, emit_summary_offsets : BOOLEAN,
     emit_message_indexes : BOOLEAN, emit_chunk_indexes : BOOLEAN,
     emit_attachment_indexes : BOOLEAN, emit_metadata_indexes : BOOLEAN,
     repeat_channels : BOOLEAN, repeat_schemas : BOOLEAN,
     calculate_chunk_crcs : BOOLEAN, calculate_data_section_crc : BOOLEAN]

ASSUME WriterAssumption ==
    /\ Options \subseteq OptionType
    /\ NoSchema \notin SchemaContents
    /\ CallerIds \subseteq Ids
    /\ Times \subseteq Nat
    /\ MaxRecords \in Nat /\ MaxFaults \in Nat
    /\ MaxMessages \in Nat /\ MaxAttachment \in Nat

VARIABLES opts,      \* options: fixed when the writer is created
          out,       \* writer, chunk_mode and the indexes collected so far
          schemas,   \* canonical_schemas, all_schema_ids, next_schema_id
          channels,  \* canonical_channels, all_channel_ids, next_channel_id
          book,      \* message_bounds, channel_message_counts
          finished,  \* finished_summary.is_some()
          result     \* the last call and what it returned

vars == <<opts, out, schemas, channels, book, finished, result>>

Panics == {"panic_overflow", "panic_insert", "panic_occupied",
           "panic_finished", "panic_writer_none", "panic_summary"}

-------------------------------------------------------------------------------
(* Records.                                                                *)

Torn == [op |-> "Torn"]
HeaderRec == [op |-> "Header"]
PrivateRec == [op |-> "Private"]
MetadataRec == [op |-> "Metadata"]
SchemaRec(id, content) == [op |-> "Schema", id |-> id, content |-> content]
ChannelRec(id, content) == [op |-> "Channel", id |-> id, content |-> content]
MessageRec(id, t) == [op |-> "Message", channel |-> id, time |-> t]
ChannelContent(schemaId, topic) == [schema |-> schemaId, topic |-> topic]

\* message_bounds: <<>> is None.
Extend_SlipMin(bounds, t) ==
    IF bounds = <<>> THEN <<t, t>> ELSE <<bounds[1], Max({bounds[2], t})>>

Extend(bounds, t) ==
    IF bounds = <<>> THEN <<t, t>>
    ELSE <<Min({bounds[1], t}), Max({bounds[2], t})>>

BoundsOrZero(bounds) == IF bounds = <<>> THEN <<0, 0>> ELSE bounds

CountOf(counts, id) == IF id \in DOMAIN counts THEN counts[id] ELSE 0

-------------------------------------------------------------------------------
(* The outcome of a fallible call is [out, res].  Then is Rust's `?`: go   *)
(* on from every outcome that is Ok, return the others.                    *)

Ok(o) == {[out |-> o, res |-> "Ok"]}
Fails(o, why) == {[out |-> o, res |-> why]}
Then(outcomes, Step(_)) ==
    {x \in outcomes : x.res # "Ok"}
        \cup UNION {Step(x.out) : x \in {y \in outcomes : y.res = "Ok"}}

\* An I/O error, allowed while the budget lasts; each state of `after` is
\* one the failed operation can leave.
IoError(o, after) ==
    IF o.faults < MaxFaults
    THEN {[out |-> [a EXCEPT !.faults = @ + 1], res |-> "Io"] : a \in after}
    ELSE {}

\* The stream got records rs, and they went through the data-section hasher.
Appended(o, rs) ==
    [o EXCEPT !.file = @ \o rs,
              !.hashed = @ \cup (Len(o.file) + 1)..(Len(o.file) + Len(rs))]

TornOr(o) == {o, Appended(o, <<Torn>>)}

NoChunk == [offset |-> 0, recs |-> <<>>, bounds |-> <<>>,
            index |-> [i \in {} |-> <<>>], buffered |-> FALSE]
NoAttachment == [length |-> 0, position |-> 0]

-------------------------------------------------------------------------------
(* ChunkWriter and AttachmentWriter.                                       *)

\* ChunkWriter::finish: the chunk record with its true header, then one
\* message index per channel in id order.
IndexChannels(c) == SortedSet(DOMAIN c.index, <)

MessageIndexes(c) ==
    [k \in DOMAIN IndexChannels(c) |->
        [op |-> "MessageIndex", channel |-> IndexChannels(c)[k],
         entries |-> c.index[IndexChannels(c)[k]]]]

ChunkRec(c) == [op |-> "Chunk", recs |-> c.recs,
                bounds |-> BoundsOrZero(c.bounds)]

\* The data-section hasher covers the chunk's data only by combining it with
\* the hasher of the compressed data, which exists when chunk CRCs are on.
ChunkHashed_SlipCombine(c) == {}

ChunkHashed(c) ==
    IF opts.calculate_chunk_crcs THEN {c.offset} ELSE {}

ModeAfter_SlipLost(c) == "Direct"

ModeAfter(c) == IF c.buffered THEN "Buffered" ELSE "Direct"

ChunkDone(o) ==
    LET c == o.chunk
        mi == MessageIndexes(c)
        data_end == Len(o.file) + 1
    IN [o EXCEPT
          !.mode = "Raw",
          !.file = @ \o <<ChunkRec(c)>> \o mi,
          !.hashed = @ \cup ChunkHashed(c)
                       \cup (data_end + 1)..(data_end + Len(mi)),
          !.chunk_mode = ModeAfter(c),
          !.chunk = NoChunk,
          !.chunk_indexes = Append(@,
              [op |-> "ChunkIndex", offset |-> c.offset,
               bounds |-> BoundsOrZero(c.bounds),
               message_index_offsets |->
                 [i \in DOMAIN c.index |-> data_end +
                    (CHOOSE k \in DOMAIN mi : mi[k].channel = i)]])]

\* What an I/O error in ChunkWriter::finish can leave: a torn chunk (nothing,
\* if the chunk was still in the buffer), or the chunk and some of its
\* message indexes.  The stream is kept, in WriteMode::Failed.
ChunkBroken(o) ==
    LET mi == MessageIndexes(o.chunk)
        files == {Append(o.file, Torn)}
                   \cup (IF o.chunk.buffered THEN {o.file} ELSE {})
                   \cup {o.file \o <<ChunkRec(o.chunk)>> \o SubSeq(mi, 1, k) :
                           k \in 0..Len(mi)}
    IN {[o EXCEPT !.mode = "Failed", !.file = f, !.chunk = NoChunk] :
          f \in files}

\* assert_not_finished, and the modes in which start_chunk and finish_chunk
\* refuse; otherwise the mode is Raw or Chunk.
ModeRefusal_SlipAttachment(mode) ==
    CASE mode = "None"       -> "panic_writer_none"
      [] mode = "Failed"     -> "AttemptedWriteAfterFailure"
      [] OTHER               -> "none"

ModeRefusal_SlipFailed(mode) ==
    CASE mode = "Attachment" -> "AttachmentNotInProgress"
      [] mode = "None"       -> "panic_writer_none"
      [] OTHER               -> "none"

ModeRefusal(mode) ==
    CASE mode = "Attachment" -> "AttachmentNotInProgress"
      [] mode = "None"       -> "panic_writer_none"
      [] mode = "Failed"     -> "AttemptedWriteAfterFailure"
      [] OTHER               -> "none"

Refusal_SlipFinished(o) == ModeRefusal(o.mode)

Refusal(o) == IF finished THEN "panic_finished" ELSE ModeRefusal(o.mode)

\* Writer::finish_chunk.
FinishChunk(o) ==
    CASE Refusal(o) # "none" -> Fails(o, Refusal(o))
      [] Refusal(o) = "none" /\ o.mode = "Chunk" ->
           Ok(ChunkDone(o)) \cup IoError(o, ChunkBroken(o))
      [] OTHER -> Ok(o)

\* ChunkWriter::new takes the stream: an error drops it and leaves None.
ChunkOpened_SlipOffset(o) ==
    [o EXCEPT !.mode = "Chunk", !.chunk_mode = "Direct",
              !.chunk = [NoChunk EXCEPT !.offset = Len(o.file),
                                        !.buffered = o.chunk_mode = "Buffered"]]

ChunkOpened(o) ==
    [o EXCEPT !.mode = "Chunk", !.chunk_mode = "Direct",
              !.chunk = [NoChunk EXCEPT !.offset = Len(o.file) + 1,
                                        !.buffered = o.chunk_mode = "Buffered"]]

\* Writer::start_chunk.
StartChunk_SlipReopens(o) ==
    IF Refusal(o) # "none" THEN Fails(o, Refusal(o)) ELSE Ok(ChunkOpened(o))

StartChunk(o) ==
    CASE Refusal(o) # "none" -> Fails(o, Refusal(o))
      [] Refusal(o) = "none" /\ o.mode = "Raw" ->
           Ok(ChunkOpened(o))
             \cup IoError(o, {[a EXCEPT !.mode = "None"] : a \in
                              IF o.chunk_mode = "Buffered" THEN {o} ELSE TornOr(o)})
      [] OTHER -> Ok(o)

\* write_record on the raw stream, and on the open chunk.  An error leaves
\* the mode alone; a buffered chunk does no I/O here.
AppendRaw(o, r) == Ok(Appended(o, <<r>>)) \cup IoError(o, TornOr(o))

AppendChunk(o, r) ==
    Ok([o EXCEPT !.chunk.recs = Append(@, r)])
      \cup (IF o.chunk.buffered THEN {}
            ELSE IoError(o, {o, [o EXCEPT !.chunk.recs = Append(@, Torn)]}))

\* write_schema, write_channel.
WriteRecord(o, r) ==
    IF opts.use_chunks
    THEN Then(StartChunk(o), LAMBDA x : AppendChunk(x, r))
    ELSE Then(FinishChunk(o), LAMBDA x : AppendRaw(x, r))

\* ChunkWriter::write_message: bounds and index first, then the record.
IndexEntry_SlipAfter(o, t) == [time |-> t, at |-> Len(o.chunk.recs) + 2]

IndexEntry(o, t) == [time |-> t, at |-> Len(o.chunk.recs) + 1]

IndexMessage(o, id, t) ==
    LET entry == IndexEntry(o, t)
        index == o.chunk.index
        entries == IF id \in DOMAIN index THEN index[id] ELSE <<>>
    IN [o EXCEPT !.chunk.bounds = Extend(@, t),
                 !.chunk.index = IF opts.emit_message_indexes
                                 THEN Put(@, id, Append(entries, entry)) ELSE @]

\* The part of write_to_known_channel that touches the stream.
TargetReached(o) ==
    /\ o.mode = "Chunk"
    /\ opts.chunk_size # Unlimited
    /\ Len(o.chunk.recs) > opts.chunk_size

WriteMessage_SlipRollover(o, id, t) ==
    LET r == MessageRec(id, t)
    IN IF TargetReached(o) THEN FinishChunk(o)
       ELSE IF opts.use_chunks
            THEN Then(StartChunk(o),
                      LAMBDA y : AppendChunk(IndexMessage(y, id, t), r))
            ELSE Then(FinishChunk(o), LAMBDA y : AppendRaw(y, r))

WriteMessage(o, id, t) ==
    LET r == MessageRec(id, t)
    IN Then(IF TargetReached(o) THEN FinishChunk(o) ELSE Ok(o),
            LAMBDA x :
              IF opts.use_chunks
              THEN Then(StartChunk(x),
                        LAMBDA y : AppendChunk(IndexMessage(y, id, t), r))
              ELSE Then(FinishChunk(x), LAMBDA y : AppendRaw(y, r)))

\* start_attachment: AttachmentWriter::new takes the stream.
BeginAttachment(o, length) ==
    Then(FinishChunk(o),
         LAMBDA x :
           Ok([x EXCEPT !.mode = "Attachment",
                        !.att = [length |-> length, position |-> 0]])
             \cup IoError(x, {[a EXCEPT !.mode = "None"] : a \in TornOr(x)}))

\* put_attachment_bytes: n bytes, or on an error the first k of them.
NoSpace_SlipPosition(att, n) == n > att.length

NoSpace(att, n) == n > att.length - att.position

PutBytes(o, n) ==
    CASE o.mode # "Attachment" -> Fails(o, "AttachmentNotInProgress")
      [] o.mode = "Attachment" /\ NoSpace(o.att, n) ->
           Fails(o, "AttachmentTooLarge")
      [] OTHER ->
           Ok([o EXCEPT !.att.position = @ + n])
             \cup IoError(o, {[o EXCEPT !.att.position = @ + k] : k \in 0..n})

\* finish_attachment: the stream is taken before the length is checked.
EndAttachment(o) ==
    LET rec == [op |-> "Attachment", length |-> o.att.length]
        lost(r) == [Appended(o, <<r>>) EXCEPT !.mode = "None",
                                              !.att = NoAttachment]
        done == [Appended(o, <<rec>>) EXCEPT
                   !.mode = "Raw", !.att = NoAttachment,
                   !.attachment_count = @ + 1,
                   !.attachment_indexes =
                      IF opts.emit_attachment_indexes
                      THEN Append(@, [op |-> "AttachmentIndex",
                                      offset |-> Len(o.file) + 1,
                                      length |-> o.att.length])
                      ELSE @]
    IN CASE o.mode # "Attachment" -> Fails(o, "AttachmentNotInProgress")
         [] o.mode = "Attachment" /\ o.att.position # o.att.length ->
              Fails(lost(Torn), "AttachmentIncomplete")
         [] OTHER -> Ok(done) \cup IoError(o, {lost(Torn), lost(rec)})

\* write_metadata: an error after the record was written leaves it uncounted.
PutMetadata(o) ==
    Then(FinishChunk(o),
         LAMBDA x :
           LET written == Appended(x, <<MetadataRec>>)
           IN Ok([written EXCEPT
                    !.metadata_count = @ + 1,
                    !.metadata_indexes =
                       IF opts.emit_metadata_indexes
                       THEN Append(@, [op |-> "MetadataIndex",
                                       offset |-> Len(x.file) + 1])
                       ELSE @])
                \cup IoError(x, TornOr(x) \cup {written}))

-------------------------------------------------------------------------------
(* The summary section.                                                    *)

\* take_summary: the expect() on the canonical id of every written id.
SummaryPanics ==
    \/ \E i \in DOMAIN schemas.all : schemas.all[i] \notin CanonicalIds(schemas)
    \/ \E i \in DOMAIN channels.all : channels.all[i] \notin CanonicalIds(channels)

Statistics(o) ==
    [op |-> "Statistics",
     message_count |-> 
       MapThenSumSet(LAMBDA i : book.counts[i], DOMAIN book.counts),
     schema_count |-> Cardinality(DOMAIN schemas.all) % (MaxId + 1),
     channel_count |-> Cardinality(DOMAIN channels.all),
     attachment_count |-> o.attachment_count,
     metadata_count |-> o.metadata_count,
     chunk_count |-> Len(o.chunk_indexes),
     bounds |-> BoundsOrZero(book.bounds),
     channel_message_counts |-> book.counts]

\* The hash maps of the summary are written in an arbitrary order.
SummarySchemas ==
    SetToSeq({SchemaRec(i, ContentFor(schemas, i)) : i \in DOMAIN schemas.all})

SummaryChannels ==
    LET content(i) == ContentFor(channels, i)
        schema(i) == IF content(i).schema \in DOMAIN schemas.all
                     THEN content(i).schema ELSE 0
    IN SetToSeq({ChannelRec(i, ChannelContent(schema(i), content(i).topic)) :
                   i \in DOMAIN channels.all})

SummaryGroups(o) ==
    << IF opts.repeat_schemas THEN SummarySchemas ELSE <<>>,
       IF opts.repeat_channels THEN SummaryChannels ELSE <<>>,
       IF opts.emit_statistics THEN <<Statistics(o)>> ELSE <<>>,
       IF opts.emit_chunk_indexes THEN o.chunk_indexes ELSE <<>>,
       IF opts.emit_attachment_indexes THEN o.attachment_indexes ELSE <<>>,
       IF opts.emit_metadata_indexes THEN o.metadata_indexes ELSE <<>> >>

\* write_summary_and_footer_magic, preceded by the DataEnd record of finish().
\* summary_end moves past each group that is written; its offset record
\* covers what lies between the previous value and the new one.
GroupOffset_SlipStart(acc, g) ==
    [op |-> "SummaryOffset", group |-> g[1].op,
     start |-> acc.start + Len(acc.offsets), length |-> Len(g)]

GroupOffset(acc, g) ==
    [op |-> "SummaryOffset", group |-> g[1].op,
     start |-> acc.start + Len(acc.recs), length |-> Len(g)]

Place(acc, g) ==
    IF g = <<>> THEN acc
    ELSE [acc EXCEPT !.recs = @ \o g,
                     !.offsets = Append(@, GroupOffset(acc, g))]

FileTail(o) ==
    LET summary_start == Len(o.file) + 2
        laid == FoldLeft(Place,
                         [start |-> summary_start, recs |-> <<>>, offsets |-> <<>>],
                         SummaryGroups(o))
        summary_end == summary_start + Len(laid.recs)
        footer == [op |-> "Footer",
                   summary_start |->
                     IF summary_end > summary_start THEN summary_start ELSE 0,
                   summary_offset_start |->
                     IF opts.emit_summary_offsets THEN summary_end ELSE 0]
    IN <<[op |-> "DataEnd",
          crc |-> IF opts.calculate_data_section_crc THEN o.hashed ELSE {}]>>
         \o laid.recs
         \o (IF opts.emit_summary_offsets THEN laid.offsets ELSE <<>>)
         \o <<footer>>

\* The indexes move into the summary.
Taken(o) == [o EXCEPT !.chunk_indexes = <<>>, !.attachment_indexes = <<>>,
                      !.metadata_indexes = <<>>]

Sealed(o, tail) == [Taken(o) EXCEPT !.file = @ \o tail]

\* What an I/O error may leave of the tail.
PartsOf(tail) ==
    {SubSeq(tail, 1, k) \o end : k \in 0..(Len(tail) - 1), end \in {<<>>, <<Torn>>}}
      \cup {tail}

Close(o) ==
    Ok(Sealed(o, FileTail(o)))
      \cup IoError(o, {Sealed(o, part) : part \in PartsOf(FileTail(o))})

\* finish(): [out, finished, res].  finished_summary is set before DataEnd and
\* the summary are written, so an I/O error leaves a finished writer and any
\* part of the tail in the file.
FinishOutcomes ==
    LET outcome(x, done, res) == [out |-> x.out, finished |-> done, res |-> res]
        ended == FinishChunk(out)
        whole == {x \in ended : x.res = "Ok"}
    IN IF finished
       THEN {[out |-> out, finished |-> TRUE, res |-> "Ok"]}
       ELSE {outcome(x, FALSE, x.res) : x \in ended \ whole}
              \cup (IF SummaryPanics
                    THEN {outcome(x, FALSE, "panic_summary") : x \in whole}
                    ELSE {outcome(y, TRUE, y.res) :
                            y \in UNION {Close(x.out) : x \in whole}})

-------------------------------------------------------------------------------
(* The API.  After a panic the caller can only drop the writer.            *)

AttachmentCalls == {"put_attachment_bytes", "finish_attachment"}

\* "interrupt" in Api: a client that makes other calls between
\* start_attachment and finish_attachment.
Calls(call) ==
    /\ call \in Api
    /\ out.mode # "Dropped"
    /\ result.res \notin Panics
    /\ out.mode = "Attachment" =>
         call \in AttachmentCalls \/ "interrupt" \in Api

Room == finished \/ Len(out.file) + Len(out.chunk.recs) < MaxRecords

Returns(call, res) == result' = [call |-> call, res |-> res]

\* add_schema.
AddSchema(content) ==
    LET a == Add(schemas, content)
    IN /\ Calls("add_schema") /\ Room
       /\ schemas' = a.reg
       /\ \/ /\ a.verdict # "new"
             /\ Returns("add_schema",
                        IF a.verdict = "known" THEN "Ok" ELSE a.verdict)
             /\ UNCHANGED out
          \/ /\ a.verdict = "new"
             /\ \E x \in WriteRecord(out, SchemaRec(a.id, content)) :
                  out' = x.out /\ Returns("add_schema", x.res)
       /\ UNCHANGED <<opts, channels, book, finished>>

\* add_channel.
AddChannel(schemaId, topic) ==
    LET content == ChannelContent(schemaId, topic)
        a == Add(channels, content)
        unknownSchema == /\ content \notin DOMAIN channels.canonical
                         /\ schemaId # 0
                         /\ schemaId \notin DOMAIN schemas.all
    IN /\ Calls("add_channel") /\ Room
       /\ \/ /\ unknownSchema
             /\ Returns("add_channel", "UnknownSchema")
             /\ UNCHANGED <<out, channels>>
          \/ /\ ~unknownSchema /\ a.verdict # "new"
             /\ channels' = a.reg
             /\ Returns("add_channel",
                        IF a.verdict = "known" THEN "Ok" ELSE a.verdict)
             /\ UNCHANGED out
          \/ /\ ~unknownSchema /\ a.verdict = "new"
             /\ channels' = a.reg
             /\ \E x \in WriteRecord(out, ChannelRec(a.id, content)) :
                  out' = x.out /\ Returns("add_channel", x.res)
       /\ UNCHANGED <<opts, schemas, book, finished>>

\* The bookkeeping and the stream half of write_to_known_channel, for a
\* channel that is known.
Counted_SlipReset(id, t) ==
    [bounds |-> Extend(book.bounds, t), counts |-> Put(book.counts, id, 1)]

Counted(id, t) ==
    [bounds |-> Extend(book.bounds, t),
     counts |-> Put(book.counts, id, CountOf(book.counts, id) + 1)]

CountAndWrite(call, o, id, t) ==
    /\ book' = Counted(id, t)
    /\ \E x \in WriteMessage(o, id, t) : out' = x.out /\ Returns(call, x.res)

WriteToKnownChannel(id, t) ==
    /\ Calls("write_to_known_channel") /\ Room
    /\ CountOf(book.counts, id) < MaxMessages
    /\ \/ /\ id \notin DOMAIN channels.all
          /\ Returns("write_to_known_channel", "UnknownChannel")
          /\ UNCHANGED <<out, book>>
       \/ /\ id \in DOMAIN channels.all
          /\ CountAndWrite("write_to_known_channel", out, id, t)
    /\ UNCHANGED <<opts, schemas, channels, finished>>

\* write(): the message brings its channel and schema, ids included.  r is
\* the registry's verdict; a record is written only for a new id.
Writes_SlipDedup(o, r, rec) ==
    IF r.verdict = "new" /\ r.id \in CanonicalIds(r.reg)
    THEN WriteRecord(o, rec) ELSE Ok(o)

Writes(o, r, rec) == IF r.verdict = "new" THEN WriteRecord(o, rec) ELSE Ok(o)

Accepted(r) == r.verdict \in {"known", "new"}

WriteChannelAndMessage(o, id, content, t) ==
    LET c == RegisterAs(channels, id, content)
    IN \/ /\ ~Accepted(c)
          /\ out' = o /\ Returns("write", c.verdict)
          /\ UNCHANGED <<channels, book>>
       \/ /\ Accepted(c)
          /\ channels' = c.reg
          /\ \E x \in Writes(o, c, ChannelRec(id, content)) :
               \/ /\ x.res # "Ok"
                  /\ out' = x.out /\ Returns("write", x.res)
                  /\ UNCHANGED book
               \/ /\ x.res = "Ok"
                  /\ CountAndWrite("write", x.out, id, t)

Write(id, topic, schemaId, schema, t) ==
    LET s == IF schema = NoSchema
             THEN [reg |-> schemas, verdict |-> "known", id |-> 0]
             ELSE RegisterAs(schemas, schemaId, schema)
        content == ChannelContent(IF schema = NoSchema THEN 0 ELSE schemaId, topic)
    IN /\ Calls("write") /\ Room
       /\ CountOf(book.counts, id) < MaxMessages
       /\ schemas' = s.reg
       /\ \/ /\ ~Accepted(s)
             /\ Returns("write", s.verdict)
             /\ UNCHANGED <<out, channels, book>>
          \/ /\ Accepted(s)
             /\ \E x \in Writes(out, s, SchemaRec(schemaId, schema)) :
                  \/ /\ x.res # "Ok"
                     /\ out' = x.out /\ Returns("write", x.res)
                     /\ UNCHANGED <<channels, book>>
                  \/ /\ x.res = "Ok"
                     /\ WriteChannelAndMessage(x.out, id, content, t)
       /\ UNCHANGED <<opts, finished>>

\* The calls that only touch the stream and its indexes.
StreamCall(call, outcomes) ==
    /\ Calls(call)
    /\ \E x \in outcomes : out' = x.out /\ Returns(call, x.res)
    /\ UNCHANGED <<opts, schemas, channels, book, finished>>

WritePrivateRecord(reserved, inChunks) ==
    /\ Room
    /\ StreamCall("write_private_record",
         CASE reserved -> Fails(out, "PrivateRecordOpcodeIsReserved")
           [] ~reserved /\ opts.use_chunks /\ inChunks ->
                Then(StartChunk(out), LAMBDA x : AppendChunk(x, PrivateRec))
           [] OTHER -> Then(FinishChunk(out), LAMBDA x : AppendRaw(x, PrivateRec)))

StartAttachment(length) ==
    Room /\ StreamCall("start_attachment", BeginAttachment(out, length))

PutAttachmentBytes(n) == StreamCall("put_attachment_bytes", PutBytes(out, n))

FinishAttachment == StreamCall("finish_attachment", EndAttachment(out))

Attach(length) ==
    Room /\ StreamCall("attach",
              Then(BeginAttachment(out, length),
                   LAMBDA x : Then(PutBytes(x, length),
                                   LAMBDA y : EndAttachment(y))))

WriteMetadata == Room /\ StreamCall("write_metadata", PutMetadata(out))

Flush == StreamCall("flush",
           Then(FinishChunk(out), LAMBDA x : Ok(x) \cup IoError(x, {x})))

\* take_summary also empties channel_message_counts.
TakeCounts == book' = [book EXCEPT !.counts = [i \in {} |-> 0]]

Finish ==
    /\ Calls("finish")
    /\ \E f \in FinishOutcomes :
         /\ out' = f.out /\ finished' = f.finished /\ Returns("finish", f.res)
         /\ IF f.finished THEN TakeCounts ELSE UNCHANGED book
    /\ UNCHANGED <<opts, schemas, channels>>

\* into_inner: what the open chunk or attachment had put into the stream stays.
IntoInner ==
    LET unfinishedTail == \/ out.mode = "Attachment"
                          \/ out.mode = "Chunk" /\ ~out.chunk.buffered
        panic == CASE ~finished /\ SummaryPanics -> "panic_summary"
                   [] out.mode = "None" -> "panic_writer_none"
                   [] OTHER -> "Ok"
    IN /\ Calls("into_inner")
       /\ out' = [Taken(IF unfinishedTail THEN Appended(out, <<Torn>>) ELSE out)
                    EXCEPT !.mode = "Dropped", !.chunk = NoChunk,
                           !.att = NoAttachment]
       /\ finished' = TRUE
       /\ TakeCounts
       /\ Returns("into_inner", panic)
       /\ UNCHANGED <<opts, schemas, channels>>

\* Drop: finish(), its error ignored; what is left of an open attachment or a
\* stream already lost stays as it is.
Drop ==
    /\ out.mode # "Dropped"
    /\ \E f \in FinishOutcomes :
         /\ out' = [IF f.out.mode = "Attachment"
                    THEN Appended(f.out, <<Torn>>) ELSE f.out
                      EXCEPT !.mode = "Dropped", !.att = NoAttachment]
         /\ finished' = f.finished
         /\ Returns("drop", IF f.res \in Panics THEN f.res ELSE "Ok")
         /\ IF f.finished THEN TakeCounts ELSE UNCHANGED book
    /\ UNCHANGED <<opts, schemas, channels>>

-------------------------------------------------------------------------------
Init ==
    /\ opts \in Options
    /\ out = [mode |-> "Raw", file |-> <<HeaderRec>>, hashed |-> {1},
              chunk_mode |-> IF opts.use_chunks /\ opts.disable_seeking
                             THEN "Buffered" ELSE "Direct",
              chunk |-> NoChunk, att |-> NoAttachment, chunk_indexes |-> <<>>,
              attachment_count |-> 0, attachment_indexes |-> <<>>,
              metadata_count |-> 0, metadata_indexes |-> <<>>, faults |-> 0]
    /\ schemas = EmptyRegistry
    /\ channels = EmptyRegistry
    /\ book = [bounds |-> <<>>, counts |-> [i \in {} |-> 0]]
    /\ finished = FALSE
    /\ result = [call |-> "with_options", res |-> "Ok"]

Next ==
    \/ \E c \in SchemaContents : AddSchema(c)
    \/ \E s \in CallerIds \cup {0}, p \in Topics : AddChannel(s, p)
    \/ \E i \in CallerIds, t \in Times : WriteToKnownChannel(i, t)
    \/ \E i, s \in CallerIds, p \in Topics,
          c \in SchemaContents \cup {NoSchema}, t \in Times :
             Write(i, p, s, c, t)
    \/ \E reserved, inChunks \in BOOLEAN : WritePrivateRecord(reserved, inChunks)
    \/ \E n \in 0..MaxAttachment : StartAttachment(n)
    \/ \E n \in 1..MaxAttachment : PutAttachmentBytes(n)
    \/ FinishAttachment
    \/ \E n \in 0..MaxAttachment : Attach(n)
    \/ WriteMetadata
    \/ Flush
    \/ Finish
    \/ IntoInner
    \/ Drop

Spec == Init /\ [][Next]_vars

===============================================================================
