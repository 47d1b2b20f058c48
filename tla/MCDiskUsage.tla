------------------------------ MODULE MCDiskUsage ------------------------------
(* Files for DiskUsage, complete or with one thing wrong.                  *)
EXTENDS DiskUsageProperties

R(op, size, v) == [op |-> op, offset |-> 0, size |-> size, v |-> v]

\* The records one after the other, from some offset on.
Laid(records, from) ==
    LET at[i \in 1..(Len(records) + 1)] == IF i = 1 THEN from ELSE at[i - 1] + records[i - 1].size
    IN [i \in DOMAIN records |-> [records[i] EXCEPT !.offset = at[i]]]
S(id, name) == R("Schema", 50, [id |-> id, name |-> name])
Typed(id, topic, schema_id) == R("Channel", 40, [id |-> id, topic |-> topic, schema_id |-> schema_id])
C(id, topic) == Typed(id, topic, 0)
M(id, data) == R("Message", MessageOverhead + data, [channel_id |-> id, data |-> data])
Plain(op, size) == R(op, size, [none |-> 0])
Chunk(records) == R("Chunk", 60, [records |-> Laid(records, 0), uncompressed_size |-> SumOver(records, "size")])

\* A chunk and the message indexes after it, one for each channel.
MessageIndex(records, id) ==
    LET of == SelectSeq([i \in DOMAIN records |-> i],
                        LAMBDA i : records[i].op = "Message" /\ records[i].v.channel_id = id) IN
    R("MessageIndex", 15 + 16 * Len(of),
      [channel_id |-> id, offsets |-> [j \in DOMAIN of |-> records[of[j]].offset]])

WithIndexes(records) ==
    <<Chunk(records)>>
    \o SetToSeq({MessageIndex(Laid(records, 0), m.channel_id) : m \in MessagesIn(records)})

ChunkIndex(f, i) ==
    LET after == {j \in DOMAIN f : j > i /\ \A k \in (i + 1)..j : f[k].op = "MessageIndex"} IN
    R("ChunkIndex", 70, [start |-> f[i].offset, length |-> f[i].size,
                         index_length |-> Total(f, after),
                         uncompressed_size |-> f[i].v.uncompressed_size])

\* A file of these records and chunks, with the definitions given in its summary.
File(data, definitions) ==
    LET f == Laid(<<Plain("Header", 30)>> \o data \o <<Plain("DataEnd", 13)>>, MagicSize)
        indexes == SetToSeq({ChunkIndex(f, i) : i \in Of(f, "Chunk")})
        footer == R("Footer", FooterRecordSize, [summary_start |-> Last(f).offset + Last(f).size])
    IN Laid(f \o definitions \o indexes \o <<footer>>, MagicSize)

Chunks3 == WithIndexes(<<S(1, "s"), Typed(1, "a", 1), M(1, 5), C(2, "b"), M(2, 0), M(1, 0)>>)
           \o WithIndexes(<<M(2, 7), M(2, 3), C(2, "b")>>)
           \o WithIndexes(<<M(1, 2), M(1, 0), S(2, "t"), Typed(3, "a", 2), M(3, 4)>>)
Definitions == <<S(1, "s"), S(2, "t"), Typed(1, "a", 1), C(2, "b"), Typed(3, "a", 2)>>
Good == File(Chunks3, Definitions)

Where(f, op) == SelectSeq([i \in DOMAIN f |-> i], LAMBDA i : f[i].op = op)

\* Good with the n-th record of a kind changed.
Changed(op, n, field, x) == [Good EXCEPT ![Where(Good, op)[n]].v[field] = x]

Spoiled(f, n) == [f EXCEPT ![Where(f, "ChunkIndex")[n]].v.index_length = 7]

Damaged ==
    {Append(SubSeq(Good, 1, 7), Plain("Broken", 0)), InsertAt(Good, 3, Plain("Broken", 0)),
     InsertAt(Good, Len(Good) - 1, Plain("Broken", 0))}

MCFiles ==
    {Good, File(WithIndexes(<<C(1, "a"), M(1, 1)>>), <<C(1, "a")>>),
     File(<<C(1, "a"), M(1, 3)>>, <<C(1, "a")>>),
     File(<<C(1, "a"), M(1, 3)>> \o WithIndexes(<<M(1, 1)>>) \o <<Chunk(<<>>), Plain("Attachment", 80)>>,
          <<C(1, "a")>>),
     File(WithIndexes(<<C(1, "a"), M(1, 1)>>) \o WithIndexes(<<C(1, "b"), M(1, 1)>>), <<C(1, "a"), C(1, "b")>>),
     File(WithIndexes(<<C(1, "a"), M(1, 1), Plain("Broken", 0)>>) \o WithIndexes(<<M(1, 2)>>), <<C(1, "a")>>),
     File(Chunks3, <<S(1, "s"), Typed(1, "a", 1)>>), File(Chunks3, Tail(Definitions)),
     File(Chunks3, <<S(1, "other")>> \o Definitions), File(Chunks3, <<S(0, "s")>> \o Definitions),
      File(WithIndexes(<<M(4, 1)>>) \o WithIndexes(<<M(4, 0)>>), <<>>),
     Spoiled(Spoiled(Good, 1), 3), Spoiled(Good, 2)}
    \cup {Laid(f, MagicSize) : f \in Damaged}
    \cup {Changed("Footer", 1, "summary_start", x) : x \in {0, 3}}
    \cup {Changed("ChunkIndex", n, "index_length", x) : n \in {1, 3}, x \in {0, 2000}}
    \cup {Changed("ChunkIndex", 2, "uncompressed_size", x) : x \in {20, 500}}
    \cup {Changed("ChunkIndex", 2, "start", Good[Where(Good, "ChunkIndex")[1]].v.start),
          Changed("ChunkIndex", 2, "length", 3000), Changed("ChunkIndex", 1, "index_length", 190),
          Changed("MessageIndex", 1, "offsets", <<90, 90>>)}

\* Each record starts where the one before it ends.
ASSUME LayoutAssumption == \A f \in MCFiles : f = Laid(f, MagicSize)
===============================================================================
