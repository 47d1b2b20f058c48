---------------------------- MODULE MCSliceReaders ----------------------------
EXTENDS SliceReadersProperties

Good(val) == [bad |-> "none", val |-> val]

Sch(id, name) == Record("Schema", 1, Good([id |-> id, name |-> name]))
Chan(id, s, topic) == Record("Channel", 1, Good([id |-> id, schema_id |-> s, topic |-> topic]))
Msg(c, seq) == Record("Message", 1, Good([channel_id |-> c, seq |-> seq]))
Index(c) == Record("MessageIndex", 1, Good([channel_id |-> c]))
Att(bad) == Record("Attachment", 2, [bad |-> bad, val |-> "att"])
Meta == Record("Metadata", 1, Good("meta"))
Private == Record("Private", 0, Good("Private"))

File(data, tail) ==
    Layout(Whole(data \o <<DataEndItem("zero")>> \o tail \o <<FooterItem("zero")>>))

Defs == <<Sch(1, "s"), Chan(1, 1, "a")>>
Body == Defs \o <<Msg(1, 1), Chan(2, 0, "b"), Msg(2, 2)>>

Streams == {
    File(<<Chunk("", "good", Body, 0), Index(1), Index(2), Att("none"), Meta>>, Defs),
    File(Defs \o <<Chunk("zstd", "zero", <<Msg(1, 1), Msg(3, 2), Msg(1, 3)>>, 1), Index(1)>>, <<>>),
    File(Defs \o <<Msg(1, 1), Chunk("lz4", "bad", <<Msg(1, 2)>>, 0), Msg(1, 3)>>, <<>>),
    File(Defs \o <<Chunk("zstd", "bad", <<Msg(1, 1), Private>>, 0), Private>>, <<>>),
    File(Defs \o <<Msg(1, 1), Chan(1, 0, "c"), Msg(1, 2)>>, <<>>),
    File(<<Sch(1, "s"), Sch(1, "t")>>, <<>>),
    File(<<Sch(0, "s")>>, <<>>),
    File(<<Chan(1, 1, "a"), Sch(1, "s")>>, <<>>),
    File(<<Record("Schema", 1, [bad |-> "BadSchemaLength", val |-> [id |-> 1]])>>, <<>>),
    File(Defs \o <<Chunk("", "bad", <<Msg(1, 1), Msg(1, 2)>>, 1), Index(1)>>, <<>>),
    File(Defs \o <<Chunk("", "zero", <<Msg(1, 1), Endless("Message")>>, 0)>>, <<>>),
    File(Defs \o <<Chunk("zstd", "zero", <<Msg(1, 1), Endless("Message")>>, 0)>>, <<>>),
    File(Defs \o <<Msg(1, 1), Att("BadAttachmentCrc"), Meta, Att("none")>>, <<>>)}

Channels == (1 :> [id |-> 1, schema_id |-> 1, topic |-> "a"] @@
             2 :> [id |-> 2, schema_id |-> 0, topic |-> "b"])

ChunkSpans(f) == {f.spans[i] : i \in {j \in DOMAIN f.items : f.items[j].k = "Chunk"}}
IndexStarts(f) ==
    {f.spans[i][1] : i \in {j \in DOMAIN f.items :
                              f.items[j].k = "Record" /\ f.items[j].op \in {"MessageIndex", "Metadata"}}}
    \cup {Len(f.cells), U64 - 1}

\* The files, and some that were cut or hold a record that goes beyond the file.
MCMcaps ==
    Streams \cup {Cut(File(<<>>, <<>>), 4), Cut(File(<<Meta>>, Defs), 9),
                  Cut(File(<<Meta, Att("BadAttachmentCrc"), Msg(1, 1)>>, <<>>), 5),
                  Cut(File(<<Meta, Endless("Message")>>, <<>>), 4)}

Iterations == {[fn |-> n, ignore_end_magic |-> b] :
                 n \in {"RawMessageStream", "MessageStream", "LinearReader"}, b \in BOOLEAN}

MCCalls(f) ==
    {[fn |-> "footer"]} \cup
    IF Len(f.cells) < Last(f.spans)[2] THEN {c \in Iterations : c.fn = "LinearReader"} ELSE
    Iterations
    \cup {[fn |-> n, index |-> [offset |-> o, length |-> l]] :
            n \in {"attachment", "metadata"},
            o \in {f.spans[i][1] : i \in 2..(Len(f.spans) - 1)}, l \in {0, 2, 3, 4, 50, U64 - 1}}
    \cup {[fn |-> "stream_chunk", channels |-> c, index |-> [offset |-> s[1], length |-> l]] :
            s \in ChunkSpans(f), l \in {0, 1, 2, 50, U64 - 1}, c \in {Channels}}
    \cup {[fn |-> "stream_chunk", channels |-> c,
           index |-> [offset |-> s[1], length |-> s[2] - s[1] + d]] :
            s \in ChunkSpans(f), d \in {-1, 0, 1}, c \in {Channels, <<>>}}
    \cup {[fn |-> "seek_message", channels |-> Channels, offset |-> o,
           index |-> [offset |-> s[1], length |-> s[2] - s[1]]] :
            s \in ChunkSpans(f), o \in 0..12}
    \cup {[fn |-> "seek_message", channels |-> Channels, offset |-> 0,
           index |-> [offset |-> s[1], length |-> l]] :
            s \in ChunkSpans(f), l \in {0, 1, U64 - 1}}
    \cup {[fn |-> "read_message_indexes", channels |-> Channels, offsets |-> os] :
            os \in {<<>>} \cup {<<[channel_id |-> 1, offset |-> o]>> : o \in IndexStarts(f)}
                   \cup {<<[channel_id |-> 1, offset |-> o], [channel_id |-> c, offset |-> p]>> :
                           o \in IndexStarts(f), p \in IndexStarts(f), c \in {2, 3}}}
===============================================================================
