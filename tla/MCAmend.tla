------------------------------- MODULE MCAmend -------------------------------
(* Files with and without a summary, CRCs, summary offsets and statistics.  *)
EXTENDS AmendProperties

schema == [id |-> 1, name |-> "s"]
channel == [id |-> 1, schema_id |-> 1]
orphan == [id |-> 2, schema_id |-> 2]

Att(name) == [name |-> name, size |-> 2]
Stats(a, m) == [attachment_count |-> a, metadata_count |-> m, message_count |-> 1]

Data(records) == <<Magic>> \o FlattenSeq(records)

\* A file: its data section, its summary records, whether it has each CRC.
FileOf(data, crc, summary, offsets, summary_crc) ==
    LET end == Record("DataEnd", crc, 1)
        start == Len(data) + 2
        bytes == FlattenSeq(summary)
        build == [bytes |-> bytes \o FlattenSeq(offsets),
                  summary_start |-> IF summary = <<>> THEN 0 ELSE start,
                  summary_offset_start |-> IF offsets = <<>> THEN 0 ELSE start + Len(bytes)]
    IN data \o end \o build.bytes
       \o FooterRecord([summary_crc_enabled |-> summary_crc], build) \o <<Magic>>

Msg == Record("Message", "m", 1)
AttIndex(off) == [offset |-> off, length |-> 3, of |-> Att("old")]
Offset(op, start, length) ==
    Record("SummaryOffset", [op |-> op, start |-> start, length |-> length], 1)

Plain == Data(<<Msg, Record("Attachment", Att("old"), 2)>>)

\* Everything the writer puts into a file.
Full ==
    FileOf(Plain, Plain,
           <<Record("Schema", schema, 1), Record("Channel", channel, 1),
             Record("Statistics", Stats(1, 0), 1), Record("AttachmentIndex", AttIndex(3), 1)>>,
           <<Offset("Schema", 8, 2), Offset("Channel", 10, 2), Offset("Statistics", 12, 2),
             Offset("AttachmentIndex", 14, 2)>>, TRUE)

\* Its data CRC is wrong, it has counted up to u32::MAX, and its summary holds
\* records the library does not know.
Wrong ==
    FileOf(Plain, <<Magic>>,
           <<Record("Unknown", "u", 3), Record("Unknown", "u", 3),
             Record("Unknown", "u", 3), Record("Unknown", "u", 3),
             Record("Statistics", Stats(MaxCount, MaxCount), 1)>>, <<>>, FALSE)

\* No summary, and an attachment nobody indexes.
Summaryless ==
    FileOf(Data(<<Record("Chunk", <<[op |-> "Schema", v |-> schema],
                                    [op |-> "Channel", v |-> channel]>>, 1),
                  Record("Attachment", Att("old"), 2)>>), <<>>, <<>>, <<>>, FALSE)

Bare == FileOf(Data(<<Msg>>), Data(<<Msg>>), <<>>, <<>>, TRUE)

\* A channel of a schema that is not there; the tail is fine.
Broken == FileOf(Data(<<Msg>>), <<>>, <<Record("Channel", orphan, 1)>>, <<>>, FALSE)

MCFiles == {Full, Wrong, Summaryless, Bare, Broken}

MCJobs == {[attachments |-> <<Att("new")>>, metadata |-> <<>>],
           [attachments |-> <<>>, metadata |-> <<[name |-> "meta"]>>]}
===============================================================================
