-------------------------- MODULE CommandsProperties --------------------------
(***************************************************************************)
(* What the commands promise, stated over the whole input and output.      *)
(* Messages are told apart by seq, which grows along every input.          *)
(***************************************************************************)
EXTENDS Commands

-------------------------------------------------------------------------------
(* Reference definitions.                                                  *)

Positions(records, op) == {i \in DOMAIN records : records[i].op = op}
SeqsOf(records) == [i \in DOMAIN OfKind(records, "Message") |-> OfKind(records, "Message")[i].v.seq]
Increasing(s) == \A i, j \in DOMAIN s : i < j => s[i] < s[j]
TimesInOrder(records) ==
    LET ms == OfKind(records, "Message") IN
    \A i, j \in DOMAIN ms : i < j => ms[i].v.log_time <= ms[j].v.log_time

\* What the channel of record k stands for when record i is reached.
SchemaSeen(records, id, i) == \E j \in Positions(records, "Schema") : j < i /\ records[j].v.id = id
Resolves(records, k, i) ==
    LET id == records[k].v.schema_id IN id = 0 \/ SchemaSeen(records, id, i)

\* The channel records that message i may belong to.
Candidates(records, i) ==
    {k \in Positions(records, "Channel") :
        k < i /\ records[k].v.id = records[i].v.channel_id /\ Resolves(records, k, i)}

\* Whether every definition of this id, and of the schemas it names, agrees.
Consistent(records, id) ==
    LET named == {k \in Positions(records, "Channel") : records[k].v.id = id} IN
    /\ \A k, l \in named : records[k].v = records[l].v
    /\ \A k \in named : \A i, j \in Positions(records, "Schema") :
         records[i].v.id = records[k].v.schema_id /\ records[j].v.id = records[k].v.schema_id
         => records[i].v = records[j].v

\* Topic and schema, which is all that a channel record says besides its ids.
Meaning(topic, schemas) == [topic |-> topic, schemas |-> {SchemaContent(s) : s \in schemas}]

MeaningIn(records, k) ==
    Meaning(records[k].v.topic,
            {records[j].v : j \in {n \in Positions(records, "Schema") :
                                     records[n].v.id = records[k].v.schema_id
                                     /\ records[k].v.schema_id # 0}})

Written(seq) == CHOOSE i \in Positions(writer.out, "Message") : writer.out[i].v.seq = seq

\* Message i of the input came out as a message of the same channel.
KeptMeaning(records, i) ==
    LET o == Written(records[i].v.seq)
        k == CHOOSE k \in Candidates(writer.out, o) : TRUE
    IN /\ Candidates(writer.out, o) # {}
       /\ writer.out[o].v.log_time = records[i].v.log_time
       /\ \E c \in Candidates(records, i) : MeaningIn(writer.out, k) = MeaningIn(records, c)

\* sure: those that have to be written; possible: those that may be.
WroteMessages(records, sure, possible) ==
    LET out == SeqsOf(writer.out)
        Seqs(is) == {records[i].v.seq : i \in is} IN
    /\ Seqs(sure) \subseteq ToSet(out) /\ ToSet(out) \subseteq Seqs(possible)
    /\ Len(out) = Cardinality(ToSet(out))
    /\ \A i \in sure : KeptMeaning(records, i)

Succeeded(fn) == stage = "ended" /\ result = "Ok" /\ command.fn = fn

\* Every record, those in and after damaged chunks included.
Opened(f) == FlattenSeq([i \in DOMAIN f |-> IF f[i].op = "Chunk" THEN f[i].v.records ELSE <<f[i]>>])

\* A summary that says what is there.
SummaryRight(f) ==
    LET s == ReadSummary(f)
        records == Opened(f)
        Of(op) == Values(OfKind(s.records, op))
        Points(op, to) == /\ {Of(op)[i].offset : i \in DOMAIN Of(op)} = Positions(f, to)
                          /\ Len(Of(op)) = Cardinality(Positions(f, to))
    IN /\ Points("ChunkIndex", "Chunk") /\ Points("AttachmentIndex", "Attachment")
       /\ Points("MetadataIndex", "Metadata")
       /\ \A i \in DOMAIN Of("ChunkIndex") :
            LET index == Of("ChunkIndex")[i] IN
            /\ index = IndexFor(f, index.offset)[1].v
            /\ \A t \in Times(f[index.offset].v.records) : t \in index.start..index.end
       /\ ToSet(Of("Channel")) = ToSet(Values(OfKind(records, "Channel")))
       /\ \A i \in Positions(records, "Channel") : Consistent(records, records[i].v.id)

IsIndexed == ChunkIndexes(ReadSummary(input)) # <<>>

-------------------------------------------------------------------------------
Kinds == {"NextToken", "ParseRecord", "DuplicateChunkIndex", "MultipleStatistics", "NoDataEnd",
          "NoFooter", "SchemaEncoding", "SchemaIdZero", "SchemaConflict", "SchemaNotInData",
          "ChannelConflict", "ChannelNotInData", "UnknownSchema", "NoChannel", "TopLevelOrder",
          "NestedRecord", "Order", "IllegalInChunk", "ChunkStart", "ChunkEnd", "ReadChunk",
          "ChannelNotInSummary", "SchemaNotInSummary", "IndexNotChunk", "IndexLength", "IndexParse",
          "IndexMismatch", "IndexRead", "StatsStart", "StatsEnd", "StatsCount"}

\* The writer's registries are well formed, every message it was given is of
\* a channel it knows (write_to_known_channel, write.rs), and the doctor
\* reports only what it can report.
CommandsTypeOK ==
    /\ input \in Inputs /\ command \in Commands
    /\ RegistryConsistent(writer.schemas) /\ RegistryConsistent(writer.channels)
    /\ \A i \in Positions(writer.out, "Message") :
         writer.out[i].v.channel_id \in DOMAIN writer.channels.all
    /\ \A i \in Positions(writer.out, "Channel") :
         writer.out[i].v.schema_id \in {0} \cup DOMAIN writer.schemas.all
    /\ exam \in {"off", "scan", "chunk", "validate", "done"}
    /\ doctor.errors \subseteq Kinds
    /\ exam = "chunk" => at \in DOMAIN file /\ chunk.offset = at

\* recover gives up only on a file of which nothing can be read.  Of any
\* other it writes, in their order, every message up to the first break whose
\* channel and schema were defined before it, however late the schema came,
\* under a channel with the same topic and schema; and every attachment and
\* metadata record.  Where definitions contradict each other the message may
\* be left out, or be given to any of them, but to no other channel.
RecoverExact ==
    LET records == Flattened(input, FALSE)
        readable == {i \in Positions(records, "Message") : Candidates(records, i) # {}}
        sure == {i \in readable : Consistent(records, records[i].v.channel_id)}
    IN stage = "ended" /\ command.fn = "recover" =>
       /\ result = "Ok" <=> Head(records).op \notin {"Broken", "BadMagic"}
       /\ result = "Ok" =>
            /\ WroteMessages(records, sure, readable)
            /\ Increasing(SeqsOf(writer.out))
            /\ OfKind(writer.out, "Attachment") = OfKind(records, "Attachment")
            /\ OfKind(writer.out, "Metadata") = OfKind(records, "Metadata")
            /\ writer.header = HeaderOf(input)

-------------------------------------------------------------------------------
\* The time range asked for; a file that is not indexed, and attachments,
\* lose what was logged at the last possible time.
Asked(t) == t >= command.start /\ (command.end \in {0, MaxTime} \/ t < command.end)
Lost(t) == t = MaxTime /\ command.end \in {0, MaxTime}

TopicAsked(topic) ==
    (command.include # {} => topic \in command.include) /\ topic \notin command.exclude

\* filter (and compress, decompress) writes exactly the messages in the time
\* range on the topics asked for, under the same channels, in the order of
\* the file or, if it has an index, of log time; before them, for the topics
\* asked for so, the latest earlier message of each channel; and the
\* attachments in the time range and the metadata, when asked to.  From a
\* file with an index this is about the messages in chunks.
FilterExact ==
    LET records == IF IsIndexed THEN Opened(SelectSeq(input, LAMBDA r : r.op # "Message"))
                   ELSE Flattened(input, FALSE)
        others == IF IsIndexed THEN input ELSE records
        messages == Positions(records, "Message")
        On(i, P(_)) == \E k \in Candidates(records, i) : P(records[k].v.topic)
        Early(i) == records[i].v.log_time < command.start /\ IsIndexed
                    /\ On(i, LAMBDA t : t \in command.last /\ TopicAsked(t))
                    /\ \A j \in messages :
                         records[j].v.channel_id = records[i].v.channel_id
                         /\ records[j].v.log_time < command.start
                         => records[j].v.log_time <= records[i].v.log_time
        InRange(i) == /\ Asked(records[i].v.log_time) /\ On(i, TopicAsked)
                      /\ IsIndexed \/ ~Lost(records[i].v.log_time)
        early == {i \in messages : Early(i)}
        wanted == {i \in messages : InRange(i)}
        Wrote(i) == records[i].v.seq \in ToSet(SeqsOf(writer.out))
    IN Succeeded("filter") /\ (IsIndexed => SummaryRight(input)) =>
       /\ WroteMessages(records, {i \in wanted : Consistent(records, records[i].v.channel_id)},
                        wanted \cup early)
       /\ \A i \in early : \E j \in early :
            Wrote(j) /\ records[j].v.channel_id = records[i].v.channel_id
       /\ \A i, j \in early : Wrote(i) /\ Wrote(j) /\ i # j
                              => records[j].v.channel_id # records[i].v.channel_id
       /\ IF IsIndexed THEN TimesInOrder(writer.out) ELSE Increasing(SeqsOf(writer.out))
       /\ OfKind(writer.out, "Attachment") =
            IF command.attachments
            THEN SelectSeq(OfKind(others, "Attachment"),
                           LAMBDA r : Asked(r.v.log_time) /\ ~Lost(r.v.log_time)) ELSE <<>>
       /\ OfKind(writer.out, "Metadata") = IF command.metadata THEN OfKind(others, "Metadata") ELSE <<>>
       /\ writer.header = HeaderOf(input)

\* sort writes every message of the chunks once, in the order of log time and
\* under the same channel, and every attachment and metadata record.  A file
\* whose messages it cannot find through an index is refused, not emptied.
SortExact ==
    LET records == Flattened(input, FALSE)
        chunked == {seq \in ToSet(SeqsOf(records)) :
                      \E i \in Positions(input, "Chunk") : seq \in ToSet(SeqsOf(input[i].v.records))}
        messages == {i \in Positions(records, "Message") : records[i].v.seq \in chunked}
    IN Succeeded("sort") =>
       /\ ~IsIndexed => Positions(records, "Message") = {}
       /\ IsIndexed /\ SummaryRight(input) => WroteMessages(records, messages, messages)
       /\ TimesInOrder(writer.out)
       /\ ~ReadSummary(input).present \/ SummaryRight(input) =>
            /\ OfKind(writer.out, "Attachment") = OfKind(input, "Attachment")
            /\ OfKind(writer.out, "Metadata") = OfKind(input, "Metadata")
       /\ writer.header = HeaderOf(input)

-------------------------------------------------------------------------------
\* What the doctor should find nothing wrong with.
Sound(f, strictly) ==
    LET all == Flattened(f, TRUE)
        end == SelectInSeq(all, LAMBDA r : r.op = "DataEnd")
        data == SubSeq(all, 1, end - 1)
        summary == SubSeq(all, end + 1, Len(all))
        IdsIn(records, op) == {records[i].v.id : i \in Positions(records, op)}
        indexes == Values(OfKind(f, "ChunkIndex"))
        statistics == OfKind(f, "Statistics")
        chunks == Positions(f, "Chunk")
        InChunk(i) == OfKind(f[i].v.records, "Message")
        Needed(i) == {InChunk(i)[j].v.channel_id : j \in DOMAIN InChunk(i)}
        NeededSchemas(i) == {data[k].v.schema_id : k \in {n \in Positions(data, "Channel") :
                                                            data[n].v.id \in Needed(i)}} \ {0}
    IN /\ \A i \in DOMAIN all : all[i].op \notin {"Broken", "BadMagic", "Unparsable"}
       /\ end # 0 /\ Last(f).op = "Footer" /\ Last(f).v.sound /\ all[end].v.sound
       /\ \A op \in {"Schema", "Channel"} :
            /\ \A i, j \in Positions(all, op) : all[i].v.id = all[j].v.id => all[i].v = all[j].v
            /\ IdsIn(summary, op) \subseteq IdsIn(data, op)
       /\ \A i \in Positions(all, "Schema") :
            all[i].v.id # 0 /\ (all[i].v.encoding = "" => all[i].v.data = "")
       /\ \A i \in Positions(all, "Channel") : Resolves(all, i, i)
       /\ \A i \in Positions(all, "Message") :
            \E k \in Positions(all, "Channel") : k < i /\ all[k].v.id = all[i].v.channel_id
       /\ TimesInOrder(f)
       /\ strictly => \A i \in chunks : \A j \in DOMAIN InChunk(i) : \A n \in Positions(all, "Message") :
            all[n].v.seq < InChunk(i)[j].v.seq => all[n].v.log_time <= InChunk(i)[j].v.log_time
       /\ \A i \in chunks :
            /\ \A j \in DOMAIN f[i].v.records : Chunked(f[i].v.records[j])
            /\ InChunk(i) # <<>> => /\ f[i].v.start = Earliest(Times(f[i].v.records))
                                    /\ f[i].v.end = Latest(Times(f[i].v.records))
       /\ \A k \in DOMAIN indexes :
            /\ \A l \in DOMAIN indexes : indexes[k].offset = indexes[l].offset => k = l
            /\ indexes[k].offset \in chunks
            /\ \A x \in {"length", "start", "end", "form"} : f[indexes[k].offset].v[x] = indexes[k][x]
            /\ Needed(indexes[k].offset) \subseteq IdsIn(summary, "Channel")
            /\ NeededSchemas(indexes[k].offset) \subseteq IdsIn(summary, "Schema")
       /\ Len(statistics) <= 1
       /\ statistics # <<>> =>
            LET s == StatisticsOf(all).v IN
            /\ statistics[1].v.count = s.count
            /\ s.count > 0 => statistics[1].v = s

\* doctor reports an error exactly for the files in which something is wrong.
DoctorExact == exam = "done" => (doctor.errors = {} <=> Sound(file, strict))

\* What any of the commands writes passes the doctor, also what is left by
\* one that failed (Drop for Writer, write.rs).  Without chunks
\* (compress --unchunked) messages are out of order if they were before, and
\* recover copies schemas as they are.  Only a command that failed because the
\* first record of its input cannot be read leaves an output without a header,
\* which the doctor reports: the output is created first.
OutputHealthy ==
    LET records == Flattened(input, FALSE)
        unreadable == Head(records).op \in {"Broken", "BadMagic", "Unparsable"}
    IN exam = "done" /\ command.fn # "doctor" =>
       \/ /\ writer.output = "empty" /\ unreadable
          /\ result # "Ok" /\ doctor.errors # {}
       \/ /\ writer.output = "mcap"
          /\ doctor.errors \subseteq
               When(~writer.chunked /\ ~TimesInOrder(records), "TopLevelOrder")
               \cup When(\E i \in Positions(records, "Schema") :
                           records[i].v.encoding = "" /\ records[i].v.data # "", "SchemaEncoding")

-------------------------------------------------------------------------------
\* The chunks open at time t, each from its start to its end.
OpenAt(chunks, t) == {k \in DOMAIN chunks : chunks[k].start <= t /\ t <= chunks[k].end}
SizeOf(chunks, ks) == FoldSet(LAMBDA k, n : n + chunks[k].length, 0, ks)

OverlapsRight(chunks, o) ==
    LET most == Max({Cardinality(OpenAt(chunks, t)) : t \in 0..MaxTime})
        when == {t \in 0..MaxTime : Cardinality(OpenAt(chunks, t)) = most}
    IN /\ o.count = most /\ o.overlaps <=> most > 1
       /\ o.size = Max({SizeOf(chunks, OpenAt(chunks, t)) : t \in when})

\* info works on every file that the doctor accepts.  Whether it takes the
\* summary or the whole file it shows the same: every index, every
\* definition, none of two that differ, and how many chunks overlap.
InfoExact ==
    LET s == ReadSummary(input)
        all == Flattened(input, TRUE)
        p == local.parsed
        IdsOf1(op) == {all[i].v.id : i \in Positions(all, op)}
        Right(map, op) ==
            /\ \A id \in DOMAIN map : \A i \in Positions(IF s.present THEN s.records ELSE all, op) :
                 (IF s.present THEN s.records ELSE all)[i].v.id = id
                 => (IF s.present THEN s.records ELSE all)[i].v = map[id]
            /\ ~s.present \/ SummaryRight(input) => DOMAIN map = IdsOf1(op)
    IN stage = "ended" /\ command.fn = "info" =>
       /\ Sound(input, FALSE) => result = "Ok"
       /\ result = "Ok" =>
            /\ Right(p.channels, "Channel") /\ Right(p.schemas, "Schema")
            /\ p.chunk_indexes = Values(OfKind(input, "ChunkIndex"))
            /\ p.attachment_indexes = Values(OfKind(input, "AttachmentIndex"))
            /\ p.metadata_indexes = Values(OfKind(input, "MetadataIndex"))
            /\ OverlapsRight(p.chunk_indexes, local.overlaps)

\* cat prints no message twice, each with its own topic and schema, in the
\* order of the file or, if it has an index, of log time; when it ends
\* without an error and its reader has not gone away, all of them; and it ends
\* so on every file that the doctor accepts.
CatExact ==
    LET records == IF IsIndexed THEN Opened(SelectSeq(input, LAMBDA r : r.op # "Message"))
                   ELSE Flattened(input, FALSE)
        printed == local.printed
        Source(x) == {i \in Positions(records, "Message") : records[i].v.seq = x.seq}
    IN command.fn = "cat" /\ stage # "start" /\ local # <<>> /\ (IsIndexed => SummaryRight(input)) =>
       /\ \A n \in DOMAIN printed : \E i \in Source(printed[n]) :
            /\ records[i].v.log_time = printed[n].log_time
            /\ \E k \in Candidates(records, i) :
                 MeaningIn(records, k) = [topic |-> printed[n].topic, schemas |-> printed[n].schema]
       /\ \A m, n \in DOMAIN printed : m < n =>
            /\ printed[m].seq # printed[n].seq
            /\ IF IsIndexed THEN printed[m].log_time <= printed[n].log_time
               ELSE printed[m].seq < printed[n].seq
       /\ stage = "ended" /\ result = "Ok" =>
            {printed[n].seq : n \in DOMAIN printed} = ToSet(SeqsOf(records))
       /\ stage = "ended" /\ Sound(input, FALSE) => result \in {"Ok", "BrokenPipe"}

-------------------------------------------------------------------------------
Finished == exam = "done" \/ (stage = "ended" /\ writer.output = "none")

\* A chunk that ends in the middle of a record, see NestedAgain.
HasCutChunk == \E i \in Positions(input, "Chunk") : input[i].v.damage = "cut"


\* doctor.rs:128-132 leaves the loop over its reader at the first error, since
\* going on is not reliable: then doctor ends on every file.
DoctorFinishes == <>Finished

-------------------------------------------------------------------------------
\* The commands that copy messages copy exactly those they should.
CopiesExact == FilterExact /\ SortExact

\* The commands that show a file show what it holds.
ShownExact == InfoExact /\ CatExact

\* Every output, that of a failed command too, is well formed and passes the
\* doctor, unless it is the empty one of a command that could not read a header.
OutputsHealthy == CommandsTypeOK /\ OutputHealthy
===============================================================================
