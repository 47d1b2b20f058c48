---------------------------- MODULE MCSummaryReader ----------------------------
EXTENDS SummaryReaderProperties

Schema(id) == Record("Schema", 1, [id |-> id, name |-> "s"])
Chan(id, schema, topic) == Record("Channel", 1, [id |-> id, schema_id |-> schema, topic |-> topic])
Stats == Record("Statistics", 1, "stats")

File(data, tail) ==
    Layout(Whole(data \o <<DataEndItem("zero")>> \o tail \o <<FooterItem("zero")>>))

Full == <<Schema(1), Chan(1, 1, "a"), Chan(2, 0, "b"), Stats,
          Record("ChunkIndex", 2, "c1"), Record("ChunkIndex", 3, "c2"),
          Record("AttachmentIndex", 1, "at"), Record("MetadataIndex", 1, "me"),
          Record("SummaryOffset", 1, "so")>>

MCFiles == {
    File(<<>>, Full),
    File(<<Schema(1)>>, <<>>),
    File(<<>>, <<Schema(1), Chan(1, 1, "a"), Chan(1, 0, "b")>>),
    File(<<>>, <<Chan(1, 1, "a"), Stats>>),
    File(<<>>, <<Stats, Endless("ChunkIndex")>>),
    Layout(Whole(<<Schema(1), DataEndItem("zero"), Stats, FooterSaying(1)>>)),
    Layout(Whole(<<DataEndItem("zero"), Stats, FooterSaying(9)>>)),
    Layout(<<Magic(TRUE), Schema(1), Magic(TRUE)>>),
    Layout(<<Magic(TRUE), Schema(1), Stats, Magic(TRUE)>>)}
    \cup {Cut(File(<<>>, <<Stats>>), n) : n \in {3, 6, 8}}
===============================================================================
