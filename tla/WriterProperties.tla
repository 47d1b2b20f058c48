--------------------------- MODULE WriterProperties ---------------------------
(***************************************************************************)
(* What makes the writer correct: facts about the file it leaves, about    *)
(* the bookkeeping the summary is made of, and about what a failed or      *)
(* misplaced call may never do.                                            *)
(***************************************************************************)
EXTENDS Writer

-------------------------------------------------------------------------------
(* Reading the file back.                                                  *)

Positions(f, op) == {p \in DOMAIN f : f[p].op = op}

\* The file is a whole MCAP: the footer has been written.
Complete == Last(out.file).op = "Footer"

\* The records before DataEnd; chunks expanded to what they contain.
DataSection ==
    LET ends == Positions(out.file, "DataEnd")
    IN IF ends = {} THEN out.file ELSE SubSeq(out.file, 1, Min(ends) - 1)

Flat(f) ==
    FlattenSeq([p \in DOMAIN f |->
                  IF f[p].op = "Chunk" THEN f[p].recs ELSE <<f[p]>>])

\* Everything put into the file so far, the open chunk included.
Written == Flat(DataSection) \o out.chunk.recs

Only(s, op) ==
    FlattenSeq([p \in DOMAIN s |-> IF s[p].op = op THEN <<s[p]>> ELSE <<>>])

\* A reader gets no further than a record that was written in part.
Readable(s) ==
    LET torn == Positions(s, "Torn")
    IN IF torn = {} THEN s ELSE SubSeq(s, 1, Min(torn) - 1)

Streaming == out.mode \in {"Raw", "Chunk", "Attachment"} /\ ~finished

-------------------------------------------------------------------------------
(* Types.                                                                  *)

Modes == {"Raw", "Chunk", "Attachment", "Failed", "None", "Dropped"}

ChannelContents == [schema : Ids, topic : Topics]

\* Every part of the writer's state has the type of the field it models, and
\* a chunk or an attachment is open only in the mode that owns it.
TypeOK ==
    /\ opts \in OptionType
    /\ out.mode \in Modes
    /\ out.chunk_mode \in {"Direct", "Buffered"}
    /\ out.att \in [length : Nat, position : Nat]
    /\ out.mode # "Chunk" => out.chunk = NoChunk
    /\ out.mode # "Attachment" => out.att = NoAttachment
    /\ RegistryType(schemas, SchemaContents)
    /\ RegistryType(channels, ChannelContents)
    /\ finished \in BOOLEAN

-------------------------------------------------------------------------------
(* Ids.                                                                    *)

\* Every registered channel names schema 0 or a registered schema id.
ChannelSchemasKnown ==
    \A c \in DOMAIN channels.canonical :
        c.schema = 0 \/ c.schema \in DOMAIN schemas.all

\* The facts that the expect() calls of write.rs assert about the id maps:
\* content and canonical id determine each other, a canonical id is its own
\* alias, and every written id resolves to some content.
RegistriesConsistent ==
    /\ RegistryConsistent(schemas)
    /\ RegistryConsistent(channels)
    /\ ChannelSchemasKnown

\* An id that is taken by other content.
Clashes(reg, id, content) == id \in DOMAIN reg.all /\ ContentFor(reg, id) # content

Unseen(reg, content) == content \notin DOMAIN reg.canonical

\* What write() may return for a message with these ids and contents.
Judged(id, topic, sid, s) ==
    LET c == ChannelContent(IF s = NoSchema THEN 0 ELSE sid, topic)
        badSchema  == s # NoSchema /\ Clashes(schemas, sid, s)
        badChannel == Clashes(channels, id, c)
    IN /\ result'.res = "Ok" => ~badSchema /\ ~badChannel
       /\ result'.res = "Conflict" => badSchema \/ badChannel
       /\ result'.res = "panic_occupied" =>
            (badSchema /\ Unseen(schemas, s)) \/ (badChannel /\ Unseen(channels, c))

Refusing ==
    /\ result'.res \notin {"panic_insert", "panic_summary"}
    /\ \A id \in CallerIds, topic \in Topics, sid \in CallerIds,
          s \in SchemaContents \cup {NoSchema}, t \in Times :
         Write(id, topic, sid, s, t) => Judged(id, topic, sid, s)

\* write() gives a message that brings its channel and schema along Ok only if
\* neither of their ids is taken by other content, and Conflict only if one is.  The
\* expect() on an id in use fires only then, and only for content that was never
\* seen; those of insert_no_overwrite and of take_summary never fire, whatever mix
\* of writer-chosen and caller-chosen ids came before.
ClashesRefused == [][Refusing]_vars

\* "Any two schema records sharing a common ID must be identical", and the
\* same for channels: across the data section, the open chunk and the
\* summary, also after failed calls and with ids that alias one content.
IdsUnambiguous ==
    LET all == Flat(out.file) \o out.chunk.recs
    IN \A op \in {"Schema", "Channel"} :
         \A p, q \in Positions(all, op) :
            all[p].id = all[q].id => all[p].content = all[q].content

\* The writer refuses a message whose channel or schema id is taken by other
\* content with an error; it does not panic.
ConflictIsAnError == result.res # "panic_occupied"

-------------------------------------------------------------------------------
(* The data section.                                                       *)

\* Without I/O errors every message follows a record of its channel, and
\* every channel a record of its schema.
DeclaredBeforeUse ==
    out.faults = 0 =>
      \A p \in DOMAIN Written :
        LET r == Written[p]
            before(op, id) == \E q \in 1..(p - 1) :
                                Written[q].op = op /\ Written[q].id = id
        IN /\ r.op = "Message" => before("Channel", r.channel)
           /\ (r.op = "Channel" /\ r.content.schema # 0)
                => before("Schema", r.content.schema)

\* As long as the writer is usable, the chunk indexes it has collected (or
\* written to the summary) list exactly the chunks of the file, in order,
\* with their message indexes.
ChunkIndexes == IF finished THEN Only(out.file, "ChunkIndex")
                ELSE out.chunk_indexes

ChunkIndexesExact ==
    Streaming \/ (Complete /\ opts.emit_chunk_indexes) =>
      LET idx == ChunkIndexes
          chunkAt == SetToSortSeq(Positions(out.file, "Chunk"), <)
      IN /\ Len(idx) = Len(chunkAt)
         /\ \A k \in DOMAIN idx :
              LET offs == idx[k].message_index_offsets
              IN /\ idx[k].offset = chunkAt[k]
                 /\ idx[k].bounds = out.file[chunkAt[k]].bounds
                 /\ \A c \in DOMAIN offs :
                      /\ out.file[offs[c]].op = "MessageIndex"
                      /\ out.file[offs[c]].channel = c
                      /\ offs[c] \in (chunkAt[k] + 1)..(chunkAt[k] + Cardinality(DOMAIN offs))

\* Without I/O errors the message indexes after a chunk list, channel by
\* channel, the place and the time of every message in the chunk, and the
\* chunk header bounds their times.
MessageIndexesExact ==
    out.faults = 0 /\ opts.emit_message_indexes =>
      \A p \in Positions(out.file, "Chunk") :
        LET recs == out.file[p].recs
            at(c) == {q \in Positions(recs, "Message") : recs[q].channel = c}
            used == {recs[q].channel : q \in Positions(recs, "Message")}
            times == {recs[q].time : q \in Positions(recs, "Message")}
            order == SetToSortSeq(used, <)
        IN /\ out.file[p].bounds =
                IF times = {} THEN <<0, 0>> ELSE <<Min(times), Max(times)>>
           /\ \A k \in DOMAIN order :
                LET ix == out.file[p + k]
                    msgs == SetToSortSeq(at(order[k]), <)
                IN /\ ix.op = "MessageIndex" /\ ix.channel = order[k]
                   /\ ix.entries = [j \in DOMAIN msgs |->
                        [time |-> recs[msgs[j]].time, at |-> msgs[j]]]

\* The CRC in DataEnd covers every byte before it.
DataCrcCovers ==
    opts.calculate_data_section_crc =>
      \A p \in Positions(out.file, "DataEnd") : out.file[p].crc = 1..(p - 1)

\* The CRC in DataEnd covers every byte before it.  Nothing is said of a file with
\* chunks whose own CRCs are not calculated: their data is left out (write.rs:1589).
DataCrcExact == opts.calculate_chunk_crcs \/ ~opts.use_chunks => DataCrcCovers

\* With seeking disabled every chunk is assembled in the buffer: the stream
\* itself is never rewound to patch a chunk header.
NoSeekWhenDisabled ==
    opts.disable_seeking /\ out.mode = "Chunk" => out.chunk.buffered

-------------------------------------------------------------------------------
(* Attachments.                                                            *)

\* The attachment indexes and the count describe exactly the attachments that
\* are complete in the file, and no attachment outgrows its declared length.
AttachmentsExact ==
    Streaming =>
      LET at == SortedSet(Positions(out.file, "Attachment"), <)
      IN /\ out.attachment_count = Len(at)
         /\ opts.emit_attachment_indexes =>
              out.attachment_indexes =
                [k \in DOMAIN at |-> [op |-> "AttachmentIndex", offset |-> at[k],
                                      length |-> out.file[at[k]].length]]
         /\ out.att.position <= out.att.length

-------------------------------------------------------------------------------
(* The summary.                                                            *)

\* Without I/O errors the statistics describe the data section: messages in
\* total and per channel, their time bounds, and the numbers of schemas,
\* channels, attachments, metadata records and chunks.
StatisticsExact ==
    out.faults = 0 /\ Complete =>
      \A p \in Positions(out.file, "Statistics") :
        LET st == out.file[p]
            msgs == Only(Written, "Message")
            times == {msgs[k].time : k \in DOMAIN msgs}
            on(c) == Cardinality({k \in DOMAIN msgs : msgs[k].channel = c})
            ids(op) == {Written[q].id : q \in Positions(Written, op)}
        IN /\ st.message_count = Len(msgs)
           /\ st.channel_message_counts =
                [c \in {msgs[k].channel : k \in DOMAIN msgs} |-> on(c)]
           /\ st.bounds =
                IF times = {} THEN <<0, 0>> ELSE <<Min(times), Max(times)>>
           /\ st.schema_count = Cardinality(ids("Schema"))
           /\ st.channel_count = Cardinality(ids("Channel"))
           /\ st.attachment_count = Len(Only(DataSection, "Attachment"))
           /\ st.metadata_count = Len(Only(DataSection, "Metadata"))
           /\ st.chunk_count = Len(Only(DataSection, "Chunk"))

\* Even when calls fail, no message is in the file that the bookkeeping for
\* the statistics has missed, and none lies outside the recorded time bounds.
NothingUncounted ==
    ~finished =>
      LET msgs == Positions(Written, "Message")
      IN \A p \in msgs :
           LET m == Written[p]
           IN /\ CountOf(book.counts, m.channel) >=
                   Cardinality({q \in msgs : Written[q].channel = m.channel})
              /\ book.bounds[1] <= m.time /\ m.time <= book.bounds[2]

\* Every summary offset record spans exactly the records of its kind in the
\* summary section, the groups cover the section without gaps, and the footer
\* points at its start (0 if it is empty) and at the first of those records.
\* Nothing is said of what it points at if they are enabled and there are none.
SummaryOffsetsExact ==
    Complete =>
      LET f == out.file
          footer == Last(f)
          start == Min(Positions(f, "DataEnd")) + 1
          offs == Positions(f, "SummaryOffset")
          end == IF offs = {} THEN Len(f) ELSE Min(offs)
          span(o) == f[o].start..(f[o].start + f[o].length - 1)
      IN /\ footer.summary_start =
              IF opts.emit_summary_offsets
              THEN IF offs = {} THEN 0 ELSE start
              ELSE IF start = end THEN 0 ELSE start
         /\ ~opts.emit_summary_offsets => offs = {} /\ footer.summary_offset_start = 0
         /\ opts.emit_summary_offsets =>
              /\ offs # {} => footer.summary_offset_start = end
              /\ UNION {span(o) : o \in offs} = start..(end - 1)
              /\ \A o \in offs : \A p \in start..(end - 1) :
                   p \in span(o) <=> f[p].op = f[o].group

\* The footer's summary_offset_start is 0 in a file without summary offset records.
NoOffsetsNoStart ==
    Complete /\ Positions(out.file, "SummaryOffset") = {} =>
        Last(out.file).summary_offset_start = 0

-------------------------------------------------------------------------------
(* Steps.                                                                  *)

\* An id once registered keeps its content, whatever mix of writer-chosen and
\* caller-chosen ids follows: the records already written stay valid.
IdsKeepMeaning ==
    [][MeaningKept(schemas, schemas') /\ MeaningKept(channels, channels')]_vars

\* Once the writer has failed, or lost its stream, no later call (finish and
\* drop included) adds to the file.
FailedIsFinal ==
    [][out.mode \in {"Failed", "None"} => out'.file = out.file]_vars

\* A complete file is never written to again, whatever is called after
\* finish().
CompleteIsFinal == [][Complete => out'.file = out.file]_vars

\* Between start_attachment and finish_attachment no other call reaches the
\* stream: the file and the bytes of the attachment stay as they are.
AttachmentUndisturbed ==
    [][out.mode = "Attachment"
         /\ result'.call \notin AttachmentCalls \cup {"into_inner", "drop"}
       => out' = out]_vars

\* The internal invariant `self.writer should never be None`.
WriterNeverNone == result.res # "panic_writer_none"

-------------------------------------------------------------------------------
(* The writer implements a message log.                                    *)

AllMessages == [op : {"Message"}, channel : Ids, time : Times]

\* (The singleton sets make TLC evaluate the sequences once.)
MessagesIn(s) ==
    CHOOSE m \in {Only(Readable(t), "Message") : t \in {s}} : TRUE

LogStatus == IF Complete THEN "closed"
             ELSE IF Streaming THEN "open" ELSE "failed"

Log == INSTANCE MessageLog WITH
         Message <- AllMessages,
         log     <- MessagesIn(Written),
         durable <- Len(MessagesIn(Flat(DataSection))),
         status  <- LogStatus

\* Messages are appended in call order, chunk boundaries and flushes do not
\* move them, and only a fatal error loses any, of the open chunk alone.
ImplementsLog == Log!Spec

\* Without I/O errors a write call that returns Ok has appended its message,
\* and any other call has not.
OkMeansWritten ==
    [][out'.faults = 0 /\ result'.call \in {"write", "write_to_known_channel"}
       => Cardinality(Positions(Written', "Message")) =
            Cardinality(Positions(Written, "Message"))
              + IF result'.res = "Ok" THEN 1 ELSE 0]_vars

\* What a complete file says of itself is true: its statistics, its chunk and
\* message indexes, the data section CRC and the summary offsets that the
\* writer collected while it wrote (write.rs:1033-1323).
FileDescribesItself ==
    /\ StatisticsExact
    /\ ChunkIndexesExact
    /\ MessageIndexesExact
    /\ DataCrcExact
    /\ SummaryOffsetsExact

\* An id in the file means one thing, and is declared before it is used,
\* whether the writer picked it or a message brought it along.
IdsResolve == IdsUnambiguous /\ DeclaredBeforeUse
===============================================================================
