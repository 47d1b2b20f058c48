------------------------------- MODULE Transcode -------------------------------
(***************************************************************************)
(* What the commands of mcap_cli that read a file and write another one    *)
(* have in common: the file as its readers give it, and the writer.        *)
(*                                                                         *)
(* A file is the sequence of its records, as far as they can be read; an   *)
(* offset is a position in it.  "Broken" stands where the stream cannot be *)
(* read on, in place of the footer of a file that was cut off too;         *)
(* "Unparsable" is a record whose body cannot be parsed.  A chunk has its  *)
(* records, the times, the form (compression and sizes) and the length     *)
(* that it claims, and its damage: "cut" when the last record is longer    *)
(* than what is left of the (compressed) chunk, "crc" when only the CRC is *)
(* wrong.                                                                  *)
(***************************************************************************)
EXTENDS IdRegistry, Sequences, SequencesExt, ChannelAccumulator

CONSTANTS Inputs,     \* the files considered
          Commands,   \* the commands considered
          MaxTime     \* u64::MAX

VARIABLES input,      \* the file that is read
          command,    \* the command and its options
          stage,      \* where it is
          todo,       \* what its reader has still to give
          local,      \* its own state
          writer,     \* the writer of its output
          result      \* how it ended

vars == <<input, command, stage, todo, local, writer, result>>

\* A fold that evaluates every intermediate value once.
Through(Op(_, _), base, s) ==
    LET f[i \in 0..Len(s)] ==
            IF i = 0 THEN base ELSE CHOOSE y \in {Op(x, s[i]) : x \in {f[i - 1]}} : TRUE
    IN f[Len(s)]

Rec(op, v) == [op |-> op, v |-> v]
Broken == Rec("Broken", [none |-> 0])
\* sound: whether the CRC in it is right.
DataEnd == Rec("DataEnd", [sound |-> TRUE])
Footer(start) == Rec("Footer", [summary_start |-> start, sound |-> TRUE])

-------------------------------------------------------------------------------
(* Readers.                                                                *)

\* Up to the place where the stream breaks off, that place included.
UpToBreak(records) ==
    LET at == SelectInSeq(records, LAMBDA r : r.op \in {"Broken", "BadMagic"}) IN
    IF at = 0 THEN records ELSE SubSeq(records, 1, at)

Inside(chunk, validate_crc) ==
    CASE chunk.form = "unknown" -> <<Broken>>
      [] chunk.form # "unknown" /\ (chunk.damage = "cut" \/ (validate_crc /\ chunk.damage = "crc")) ->
           Append(chunk.records, Broken)
      [] OTHER -> chunk.records

\* A LinearReader that opens the chunks, see LinearReader.
Flattened(f, validate_crc) ==
    UpToBreak(FlattenSeq([i \in DOMAIN f |->
        CASE f[i].op = "Chunk" -> Inside(f[i].v, validate_crc)
          [] f[i].op = "Unparsable" /\ f[i].v.opcode = "Chunk" -> <<Broken>>
          [] OTHER -> <<f[i]>>]))

OfKind(records, op) == SelectSeq(records, LAMBDA r : r.op = op)
Values(records) == [i \in DOMAIN records |-> records[i].v]

\* read_header: the error, or "none".  It reads no further than the first record.
HeaderError(f) ==
    CASE f[1].op = "BadMagic" -> "BadMagic"
      [] f[1].op \in {"Broken", "Unparsable"} -> "Unreadable"
      [] OTHER -> "none"

NoHeader == [profile |-> "", library |-> "mcap-rust"]
HeaderOf(f) == IF f[1].op = "Header" THEN f[1].v ELSE NoHeader

\* Definitions into a ChannelAccumulator, until something is wrong.
Accumulate(s, r) ==
    CASE s.error # "none" -> s
      [] s.error = "none" /\ r.op = "Schema" ->
           LET a == AddSchema(s.acc, r.v) IN [s EXCEPT !.acc = a.acc, !.error = a.error]
      [] s.error = "none" /\ r.op = "Channel" ->
           LET a == AddChannel(s.acc, r.v) IN [s EXCEPT !.acc = a.acc, !.error = a.error]
      [] s.error = "none" /\ r.op \in {"Broken", "BadMagic", "Unparsable"} ->
           [s EXCEPT !.error = "Unreadable"]
      [] OTHER -> s

\* Summary::read, see SummaryReader.
ReadSummary(f) ==
    LET start == Last(f).v.summary_start
        tail == SubSeq(f, start, Len(f))
        none == [present |-> FALSE, error |-> "none", acc |-> NoChannels, records |-> <<>>]
    IN CASE Last(f).op # "Footer" -> [none EXCEPT !.error = "BadFooter"]
         [] Last(f).op = "Footer" /\ start = 0 -> none
         [] OTHER -> Through(Accumulate,
                              [none EXCEPT !.present = TRUE, !.records = tail], tail)

ChunkIndexes(s) == Values(OfKind(s.records, "ChunkIndex"))

\* Indexes in the order of their offsets.
ByOffset(s, op) ==
    SortSeq(Values(OfKind(s.records, op)), LAMBDA a, b : a.offset < b.offset)

\* An IndexedReader, see IndexedReader, for messages from start on, before end
\* (a set, empty for no end) and of the channels ids (all, if empty).
WantsChunk(i, q) ==
    /\ i.end >= q.start /\ \A e \in q.end : i.start < e
    /\ q.ids = {} \/ i.channels = {} \/ i.channels \cap q.ids # {}

WantsMessage(m, q) ==
    m.log_time >= q.start /\ (\A e \in q.end : m.log_time < e) /\ (q.ids = {} \/ m.channel_id \in q.ids)

\* It checks no CRC.
Loads(f, i) == /\ i.offset \in DOMAIN f /\ f[i.offset].op = "Chunk"
               /\ f[i.offset].v.damage # "cut" /\ f[i.offset].v.form = i.form /\ i.form # "unknown"

Wanted(s, q) == {k \in DOMAIN ChunkIndexes(s) : WantsChunk(ChunkIndexes(s)[k], q)}

\* The messages it gives, each with its place.
Indexed(f, s, q) ==
    UNION {LET records == f[ChunkIndexes(s)[k].offset].v.records IN
           {[at |-> <<k, j>>, m |-> records[j].v] :
              j \in {n \in DOMAIN records : records[n].op = "Message" /\ WantsMessage(records[n].v, q)}} :
           k \in {n \in Wanted(s, q) : Loads(f, ChunkIndexes(s)[n])}}

IndexedFails(f, s, q) == \E k \in Wanted(s, q) : ~Loads(f, ChunkIndexes(s)[k])

Everything == [start |-> 0, end |-> {}, ids |-> {}]

-------------------------------------------------------------------------------
(* The writer: its registries and the records it has written, see Writer.  *)
(* output: "none" before the output is opened, "empty" when it is created   *)
(* and there is no writer yet, and "mcap" once there is one.                *)

NewWriter(chunked, header) ==
    [schemas |-> EmptyRegistry, channels |-> EmptyRegistry, out |-> <<>>, chunked |-> chunked,
     header |-> header, output |-> "mcap"]

NoWriter == [NewWriter(TRUE, NoHeader) EXCEPT !.output = "none"]

\* File::create has emptied the output.
EmptyOutput == [NoWriter EXCEPT !.output = "empty"]

Emit(w, r) == [w EXCEPT !.out = Append(@, r)]

SchemaContent(s) == [name |-> s.name, encoding |-> s.encoding, data |-> s.data]
ChannelContent(schema_id, c) == [schema_id |-> schema_id, topic |-> c.topic]

SchemaRec(id, content) == Rec("Schema", [id |-> id] @@ content)
ChannelRec(id, content) == Rec("Channel", [id |-> id] @@ content)

\* add_schema and add_channel: [w, id, res].
WriterAddSchema(w, content) ==
    LET a == Add(w.schemas, content)
        w1 == [w EXCEPT !.schemas = a.reg] IN
    [w |-> IF a.verdict = "new" THEN Emit(w1, SchemaRec(a.id, content)) ELSE w1,
     id |-> a.id, res |-> IF a.verdict \in {"new", "known"} THEN "Ok" ELSE a.verdict]

WriterAddChannel(w, content) ==
    LET a == Add(w.channels, content)
        w1 == [w EXCEPT !.channels = a.reg] IN
    [w |-> IF a.verdict = "new" THEN Emit(w1, ChannelRec(a.id, content)) ELSE w1,
     id |-> a.id, res |-> IF a.verdict \in {"new", "known"} THEN "Ok" ELSE a.verdict]

\* write: the message brings its channel c and its schema s (<<>>: none) along.
WriterWrite(w, c, s, m) ==
    LET rs == IF s = <<>> THEN [reg |-> w.schemas, verdict |-> "known"]
              ELSE RegisterAs(w.schemas, s[1].id, SchemaContent(s[1]))
        w1 == [w EXCEPT !.schemas = rs.reg]
        w2 == IF rs.verdict = "new" THEN Emit(w1, Rec("Schema", s[1])) ELSE w1
        content == ChannelContent(IF s = <<>> THEN 0 ELSE s[1].id, c)
        rc == RegisterAs(w2.channels, c.id, content)
        w3 == [w2 EXCEPT !.channels = rc.reg]
        w4 == IF rc.verdict = "new" THEN Emit(w3, ChannelRec(c.id, content)) ELSE w3
    IN CASE rs.verdict \notin {"known", "new"} -> [w |-> w1, res |-> rs.verdict]
         [] rs.verdict \in {"known", "new"} /\ rc.verdict \notin {"known", "new"} ->
              [w |-> w3, res |-> rc.verdict]
         [] OTHER -> [w |-> Emit(w4, Rec("Message", m)), res |-> "Ok"]

-------------------------------------------------------------------------------
(* finish: the file that comes out.  Attachments and metadata end a chunk. *)
(* A writer that is dropped finishes its file too, so that a command that  *)
(* fails leaves a finished file with what it had written.                  *)

Chunked(r) == r.op \in {"Schema", "Channel", "Message"}

Times(records) == {m.log_time : m \in ToSet(Values(OfKind(records, "Message")))}
Earliest(times) == IF times = {} THEN 0 ELSE Min(times)
Latest(times) == IF times = {} THEN 0 ELSE Max(times)

ChunkOf_SlipStartsAtZero(records) ==
    Rec("Chunk", [records |-> records, damage |-> "none", form |-> "zstd", length |-> Len(records),
                  start |-> 0, end |-> Latest(Times(records))])

ChunkOf(records) ==
    Rec("Chunk", [records |-> records, damage |-> "none", form |-> "zstd", length |-> Len(records),
                  start |-> Earliest(Times(records)), end |-> Latest(Times(records))])

PutIntoChunk(f, r) ==
    CASE ~Chunked(r) -> Append(f, r)
      [] Chunked(r) /\ Last(f).op = "Chunk" ->
           Append(Front(f), ChunkOf(Append(Last(f).v.records, r)))
      [] OTHER -> Append(f, ChunkOf(<<r>>))

IndexFor(f, i) ==
    CASE f[i].op = "Chunk" ->
           <<Rec("ChunkIndex", [offset |-> i, length |-> f[i].v.length, start |-> f[i].v.start,
                                end |-> f[i].v.end, form |-> f[i].v.form,
                                channels |-> {m.channel_id : m \in
                                    ToSet(Values(OfKind(f[i].v.records, "Message")))}])>>
      [] f[i].op = "Attachment" -> <<Rec("AttachmentIndex", [offset |-> i, of |-> f[i].v])>>
      [] f[i].op = "Metadata" -> <<Rec("MetadataIndex", [offset |-> i, of |-> f[i].v])>>
      [] OTHER -> <<>>

StatisticsOf(records) ==
    LET times == Times(records) IN
    Rec("Statistics", [count |-> Len(OfKind(records, "Message")),
                       start |-> Earliest(times), end |-> Latest(times)])

FinishedFile(w) ==
    LET header == <<Rec("Header", w.header)>>
        data == IF w.chunked THEN Through(PutIntoChunk, header, w.out) ELSE header \o w.out
        definitions == OfKind(w.out, "Schema") \o OfKind(w.out, "Channel")
        indexes == FlattenSeq([i \in DOMAIN data |-> IndexFor(data, i)])
    IN Append(data, DataEnd) \o definitions \o <<StatisticsOf(w.out)>> \o indexes
       \o <<Footer(Len(data) + 2)>>

-------------------------------------------------------------------------------
Ends(res) == stage' = "ended" /\ result' = res
===============================================================================
