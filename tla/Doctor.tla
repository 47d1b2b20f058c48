-------------------------------- MODULE Doctor --------------------------------
(***************************************************************************)
(* `mcap doctor` (doctor.rs): one pass over a file record by record, chunk *)
(* records as they come, then cross-checks.  What it reports is a set of   *)
(* kinds of errors and warnings.  The times seen are kept as sets; the     *)
(* code keeps the least and the greatest of them.                          *)
(***************************************************************************)
EXTENDS Transcode

VARIABLES file,      \* the file examined
          strict,    \* --strict-message-order
          at,        \* the next top-level record
          chunk,     \* the chunk being examined, or NoChunk
          doctor,    \* struct Doctor
          exam       \* "off", "scan", "chunk", "validate", "done"

doctorVars == <<file, strict, at, chunk, doctor, exam>>

NewDoctor ==
    [errors |-> {}, warnings |-> {}, schemas |-> <<>>, channels |-> <<>>,
     referenced |-> <<>>, summary_channels |-> {}, summary_schemas |-> {},
     chunk_indexes |-> <<>>, in_summary |-> FALSE, saw_data_end |-> FALSE,
     saw_footer |-> FALSE, saw_message |-> FALSE, last_top_level |-> {},
     times |-> {}, count |-> 0, statistics |-> <<>>]

NoChunk == [offset |-> 0, records |-> <<>>, channels |-> {}, times |-> {}, asked |-> FALSE]

When(condition, kind) == IF condition THEN {kind} ELSE {}

Report(d, errors, warnings) ==
    [d EXCEPT !.errors = @ \cup errors, !.warnings = @ \cup warnings]

-------------------------------------------------------------------------------
\* examine_schema
ExamineSchema(d, s) ==
    LET known == Known(d.schemas, s.id)
        e == Report(d, When(s.encoding = "" /\ s.data # "", "SchemaEncoding")
                       \cup When(s.id = 0, "SchemaIdZero")
                       \cup When(known /\ d.schemas[s.id] # s, "SchemaConflict")
                       \cup When(d.in_summary /\ ~known, "SchemaNotInData"),
                    When(s.encoding = "" /\ s.data = "", "EmptySchema")
                       \cup When(~d.in_summary /\ known, "DuplicateSchema"))
    IN IF d.in_summary THEN [e EXCEPT !.summary_schemas = @ \cup {s.id}]
       ELSE [e EXCEPT !.schemas = With(@, s.id, s)]

\* examine_channel
ExamineChannel(d, c) ==
    LET known == Known(d.channels, c.id)
        e == Report(d, When(known /\ d.channels[c.id] # c, "ChannelConflict")
                       \cup When(d.in_summary /\ ~known, "ChannelNotInData")
                       \cup When(c.schema_id # 0 /\ ~Known(d.schemas, c.schema_id), "UnknownSchema"),
                    When(~d.in_summary /\ known, "DuplicateChannel"))
    IN IF d.in_summary THEN [e EXCEPT !.summary_channels = @ \cup {c.id}]
       ELSE [e EXCEPT !.channels = With(@, c.id, c)]

\* observe_message_time
ObserveMessageTime(d, t) == [d EXCEPT !.count = @ + 1, !.times = @ \cup {t}]

\* examine_top_level_message
ExamineTopLevelMessage(d, m) ==
    LET e == Report(d, When(~Known(d.channels, m.channel_id), "NoChannel")
                       \cup When(\E t \in d.last_top_level : m.log_time < t, "TopLevelOrder"), {})
    IN ObserveMessageTime([e EXCEPT !.last_top_level = {m.log_time}, !.saw_message = TRUE], m.log_time)

\* examine_chunk, a message
ExamineChunkMessage(d, m) ==
    LET late == \E t \in d.times : m.log_time < t
        e == Report(d, When(~Known(d.channels, m.channel_id), "NoChannel")
                       \cup When(late /\ strict, "Order"), When(late /\ ~strict, "Order"))
    IN ObserveMessageTime(e, m.log_time)

\* handle_top_level_record, all but chunks
HandleTopLevelRecord(d, r) ==
    CASE r.op = "Header" ->
           Report(d, {}, When(r.v.library = "", "NoLibrary")
                         \cup When(r.v.profile \notin {"", "ros1", "ros2"}, "UnknownProfile"))
      [] r.op = "Footer" -> [d EXCEPT !.saw_footer = TRUE]
      [] r.op = "Schema" -> ExamineSchema(d, r.v)
      [] r.op = "Channel" -> ExamineChannel(d, r.v)
      [] r.op = "Message" -> ExamineTopLevelMessage(d, r.v)
      [] r.op = "MessageIndex" -> Report(d, {}, When(d.saw_message, "IndexOutsideChunks"))
      [] r.op = "ChunkIndex" ->
           [Report(d, When(Known(d.chunk_indexes, r.v.offset), "DuplicateChunkIndex"),
                      When(d.saw_message, "IndexOutsideChunks"))
              EXCEPT !.chunk_indexes = With(@, r.v.offset, r.v)]
      [] r.op = "Statistics" ->
           [Report(d, When(d.statistics # <<>>, "MultipleStatistics"), {})
              EXCEPT !.statistics = <<r.v>>]
      [] r.op = "DataEnd" -> [d EXCEPT !.saw_data_end = TRUE, !.in_summary = TRUE]
      [] r.op = "Unparsable" -> Report(d, {"ParseRecord"}, {})
      [] r.op = "Unknown" -> Report(d, {}, {"UnknownOpcode"})
      [] OTHER -> d

\* The events at which the reader fails: it checks the CRCs of DataEnd and Footer.
ReaderFails(r) ==
    r.op \in {"Broken", "BadMagic"} \/ (r.op \in {"DataEnd", "Footer"} /\ ~r.v.sound)

-------------------------------------------------------------------------------
\* finalize_record_presence
FinalizeRecordPresence(d) ==
    Report(d, When(~d.saw_data_end, "NoDataEnd") \cup When(~d.saw_footer, "NoFooter"), {})

\* read_record_at_offset: whether there is a record.  An offset within 9 bytes of
\* 2^64, for which the code's first sum overflows, is outside the model.
ReadRecordAtOffset(f, offset) == offset \in DOMAIN f /\ f[offset].op \notin {"Broken", "BadMagic"}

\* What a chunk index says of the record it points to.
IndexedChunkErrors(f, i) ==
    LET r == f[i.offset]
        opcode == IF r.op = "Unparsable" THEN r.v.opcode ELSE r.op IN
    CASE ~ReadRecordAtOffset(f, i.offset) -> {"IndexRead"}
      [] ReadRecordAtOffset(f, i.offset) /\ opcode # "Chunk" -> {"IndexNotChunk"}
      [] OTHER ->
           CASE i.length # r.v.length -> {"IndexLength"}
             [] i.length = r.v.length /\ r.op = "Unparsable" -> {"IndexParse"}
             [] OTHER -> When(\E x \in {"start", "end", "form"} : r.v[x] # i[x], "IndexMismatch")

\* What an indexed chunk's messages need is in the summary too.
ReferenceErrors(d, offset) ==
    LET ids == IF Known(d.referenced, offset) THEN d.referenced[offset] ELSE {}
        schemas == {d.channels[id].schema_id : id \in ids \cap DOMAIN d.channels} \ {0}
    IN When(~ids \subseteq d.summary_channels, "ChannelNotInSummary")
       \cup When(~schemas \subseteq d.summary_schemas, "SchemaNotInSummary")

\* validate_chunk_indexes
ValidateChunkIndexes(d, f) ==
    Report(d, UNION {ReferenceErrors(d, o) \cup IndexedChunkErrors(f, d.chunk_indexes[o]) :
                       o \in DOMAIN d.chunk_indexes}, {})

ValidateStatistics_SlipOnlyMessages(d) ==
    IF d.statistics = <<>> \/ d.count = 0 THEN d
    ELSE LET s == d.statistics[1] IN
         Report(d, When(s.start # Min(d.times), "StatsStart") \cup When(s.end # Max(d.times), "StatsEnd")
                   \cup When(s.count # d.count, "StatsCount"), {})

\* validate_statistics
ValidateStatistics(d) ==
    IF d.statistics = <<>> THEN d
    ELSE LET s == d.statistics[1] IN
         Report(d, When(d.count > 0 /\ s.start # Min(d.times), "StatsStart")
                   \cup When(d.count > 0 /\ s.end # Max(d.times), "StatsEnd")
                   \cup When(s.count # d.count, "StatsCount"), {})

-------------------------------------------------------------------------------
DoctorInit ==
    /\ file = <<>> /\ strict = FALSE /\ at = 1 /\ chunk = NoChunk
    /\ doctor = NewDoctor /\ exam = "off"

\* diagnose_mcap on f.
Examine(f, strictly) ==
    /\ exam = "off" /\ exam' = "scan"
    /\ file' = f /\ strict' = strictly
    /\ UNCHANGED <<at, chunk, doctor>>


\* After an error of its reader the scan stops.
StopScan == exam' = "validate"

\* scan_top_level
ScanTopLevel ==
    /\ exam = "scan"
    /\ \/ /\ at > Len(file)
          /\ exam' = "validate"
          /\ UNCHANGED <<at, chunk, doctor>>
       \/ /\ at <= Len(file) /\ ReaderFails(file[at])
          /\ doctor' = Report(doctor, {"NextToken"}, {})
          /\ StopScan
          /\ UNCHANGED <<at, chunk>>
       \/ /\ at <= Len(file) /\ ~ReaderFails(file[at]) /\ file[at].op # "Chunk"
          /\ doctor' = HandleTopLevelRecord(doctor, file[at])
          /\ at' = at + 1
          /\ UNCHANGED <<chunk, exam>>
       \/ /\ at <= Len(file) /\ file[at].op = "Chunk" /\ file[at].v.form = "unknown"
          /\ doctor' = Report(doctor, {"ReadChunk"}, {})
          /\ at' = at + 1
          /\ UNCHANGED <<chunk, exam>>
       \/ /\ at <= Len(file) /\ file[at].op = "Chunk" /\ file[at].v.form # "unknown"
          /\ chunk' = [NoChunk EXCEPT !.offset = at, !.records = file[at].v.records]
          /\ exam' = "chunk"
          /\ UNCHANGED <<at, doctor>>
    /\ UNCHANGED <<file, strict>>

\* examine_chunk: the next record of the chunk.
NestedRecord ==
    /\ exam = "chunk" /\ chunk.records # <<>>
    /\ LET r == Head(chunk.records) IN
       /\ doctor' = CASE r.op = "Schema" -> ExamineSchema(doctor, r.v)
                      [] r.op = "Channel" -> ExamineChannel(doctor, r.v)
                      [] r.op = "Message" -> ExamineChunkMessage(doctor, r.v)
                      [] r.op = "Unparsable" -> Report(doctor, {"NestedRecord"}, {})
                      [] OTHER -> Report(doctor, {"IllegalInChunk"}, {})
       /\ chunk' = IF r.op = "Message"
                   THEN [chunk EXCEPT !.records = Tail(@), !.channels = @ \cup {r.v.channel_id},
                                      !.times = @ \cup {r.v.log_time}]
                   ELSE [chunk EXCEPT !.records = Tail(@)]
    /\ UNCHANGED <<file, strict, at, exam>>

\* A record that ends after the chunk: the reader is at its end and gives the
\* same error every time it is asked.  The list of errors grows each time,
\* of which the model keeps whether the reader was asked an odd number of times.
NestedAgain ==
    /\ exam = "chunk" /\ chunk.records = <<>> /\ file[at].v.damage = "cut"
    /\ doctor' = Report(doctor, {"NestedRecord"}, {})
    /\ chunk' = [chunk EXCEPT !.asked = ~@]
    /\ UNCHANGED <<file, strict, at, exam>>

\* The end of the chunk: a wrong CRC is reported once.
LeaveChunk ==
    /\ exam = "chunk" /\ chunk.records = <<>> /\ file[at].v.damage # "cut"
    /\ LET v == file[at].v IN
       doctor' = [Report(doctor, When(v.damage = "crc", "NestedRecord")
                                 \cup When(chunk.times # {} /\ Min(chunk.times) # v.start, "ChunkStart")
                                 \cup When(chunk.times # {} /\ Max(chunk.times) # v.end, "ChunkEnd"), {})
                    EXCEPT !.referenced = With(@, at, chunk.channels)]
    /\ at' = at + 1 /\ exam' = "scan" /\ chunk' = NoChunk
    /\ UNCHANGED <<file, strict>>

\* The checks after the scan.
Validate ==
    /\ exam = "validate" /\ exam' = "done"
    /\ doctor' = ValidateStatistics(ValidateChunkIndexes(FinalizeRecordPresence(doctor), file))
    /\ UNCHANGED <<file, strict, at, chunk>>

DoctorNext == ScanTopLevel \/ NestedRecord \/ NestedAgain \/ LeaveChunk \/ Validate
===============================================================================
