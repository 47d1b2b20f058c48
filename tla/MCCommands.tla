------------------------------ MODULE MCCommands ------------------------------
(***************************************************************************)
(* Files and command lines for Commands: complete files of every layout,   *)
(* files with contradictory, late or missing definitions, files cut off or *)
(* damaged at any place, and one file for each defect the doctor knows.    *)
(***************************************************************************)
EXTENDS CommandsProperties

Header == Rec("Header", [profile |-> "ros1", library |-> "lib"])
S(id, name) == Rec("Schema", [id |-> id, name |-> name, encoding |-> "e", data |-> "d"])
C(id, schema_id, topic) == Rec("Channel", [id |-> id, schema_id |-> schema_id, topic |-> topic])
M(id, t, seq) == Rec("Message", [channel_id |-> id, log_time |-> t, seq |-> seq])
Attachment(t) == Rec("Attachment", [name |-> "x", log_time |-> t])
Metadata == Rec("Metadata", [name |-> "y"])
Unparsable(op) == Rec("Unparsable", [opcode |-> op, length |-> 1])
Other(op) == Rec(op, [none |-> 0])

DamagedChunk(records, damage) ==
    Rec("Chunk", [ChunkOf(records).v EXCEPT !.damage = damage])

\* A data section, with a summary, without one, or cut off.
WithSummary(data) ==
    LET records == Flattened(data, FALSE)
        indexes == FlattenSeq([i \in DOMAIN data |-> IndexFor(data, i)])
    IN Append(data, DataEnd) \o OfKind(records, "Schema") \o OfKind(records, "Channel")
       \o <<StatisticsOf(records)>> \o indexes \o <<Footer(Len(data) + 2)>>
NoSummary(data) == data \o <<DataEnd, Footer(0)>>
Cut(data) == Append(data, Broken)

Good == WithSummary(<<Header,
    ChunkOf(<<S(1, "s"), C(1, 1, "a"), M(1, 3, 1), M(1, 1, 2)>>), Attachment(2),
    ChunkOf(<<C(2, 0, "b"), M(2, 2, 3), M(1, 4, 4), M(2, MaxTime, 5)>>), Metadata>>)

Plain == <<Header, S(1, "s"), C(1, 1, "a"), M(1, 1, 1), Attachment(MaxTime), C(2, 0, "b"), M(2, 3, 2),
           M(1, 2, 3), Metadata, M(1, MaxTime, 4)>>

Mixed == <<Header, S(2, "s"), C(2, 2, "a"), M(2, 1, 1),
           ChunkOf(<<S(1, "t"), C(1, 1, "b"), M(1, 2, 2), M(2, 2, 3)>>),
           ChunkOf(<<M(1, 1, 4)>>)>>

Touching == <<Header, ChunkOf(<<C(1, 0, "a"), M(1, 1, 1), M(1, 3, 2)>>), ChunkOf(<<M(1, 3, 3)>>),
              ChunkOf(<<M(1, 5, 4), M(1, 6, 5)>>), ChunkOf(<<M(1, 6, 6), M(1, 7, 7), M(1, 8, 8)>>)>>

LateSchema == <<Header, C(1, 1, "a"), M(1, 1, 1), C(2, 2, "b"), S(1, "s"), M(1, 2, 2), M(2, 3, 3),
                C(4, 1, "c"), M(4, 3, 4)>>

Conflicts == <<Header, C(1, 1, "a"), C(1, 2, "b"), S(1, "s"), M(1, 1, 1), S(2, "t"), M(1, 1, 2),
               C(1, 1, "a"), S(1, "other"), M(1, 2, 3), M(3, 3, 4)>>

Redefined == <<Header, C(1, 0, "a"), M(1, 1, 1), C(1, 0, "b"), M(1, 2, 2)>>

SameContent == <<Header, S(2, "s"), S(5, "s"), C(3, 2, "a"), C(1, 5, "a"), C(2, 0, "a"),
                 M(3, 1, 1), M(1, 2, 2), M(2, 3, 3)>>

OddSchemas == <<Header, Rec("Schema", [id |-> 0, name |-> "z", encoding |-> "", data |-> ""]),
                Rec("Schema", [id |-> 1, name |-> "s", encoding |-> "", data |-> "d"]),
                C(1, 1, "a"), M(1, 1, 1)>>

Undefined == <<Header, C(1, 1, "a"), M(1, 2, 1), M(2, 2, 2)>>

Damaged(damage) == <<Header, DamagedChunk(<<S(1, "s"), C(1, 1, "a"), M(1, 1, 1), M(1, 2, 2)>>, damage),
                     ChunkOf(<<M(1, 3, 3)>>)>>

Layouts ==
    {Good, WithSummary(<<Header>>), NoSummary(<<Header, Attachment(1), Metadata>>),
     NoSummary(Plain), WithSummary(Plain), WithSummary(Mixed), NoSummary(Mixed),
     WithSummary(Touching),
     WithSummary(<<Header, Attachment(1), ChunkOf(<<>>)>>)}
    \cup {NoSummary(f) : f \in {LateSchema, Conflicts, Redefined, SameContent, OddSchemas,
                                   Undefined}}
    \cup {WithSummary(f) : f \in {SameContent, OddSchemas}}
    \cup {Cut(f) : f \in {LateSchema, Conflicts, SameContent}}

Breaks ==
    {Append(SubSeq(Good, 1, n), Broken) : n \in 0..6} \cup {<<Other("BadMagic")>> \o f : f \in {Good, NoSummary(Plain)}}
    \cup {[f EXCEPT ![1] = Unparsable("Header")] : f \in {Good, NoSummary(Plain)}}
    \cup {WithSummary(Damaged(d)) : d \in {"cut", "crc"}}
    \cup {NoSummary(Damaged("cut")), Cut(Damaged("crc")),
          WithSummary(<<Header, Rec("Chunk", [ChunkOf(<<M(1, 1, 1)>>).v EXCEPT !.form = "unknown"])>>)}

\* Good with one thing wrong.  It has chunks at 2 and 4, DataEnd at 6, its
\* summary from 7 to 14 and the footer at 15.
Changed(i, field, x) == [Good EXCEPT ![i].v[field] = x]

Defects ==
    {Changed(2, "start", 0), Changed(2, "end", 4), Changed(4, "form", "lz4"),
     Changed(6, "sound", FALSE), Changed(15, "sound", FALSE),
     Changed(8, "topic", "z"), Changed(7, "name", "z"), Changed(9, "id", 3), Changed(7, "id", 2),
     Changed(10, "count", 4), Changed(10, "start", 2), Changed(10, "end", 4),
     Changed(11, "start", 2), Changed(11, "end", 2), Changed(13, "form", "lz4"),
     Changed(11, "length", 9), Changed(11, "offset", 3), Changed(11, "offset", 99),
     Changed(11, "offset", 4), Changed(12, "offset", 99)}
    \cup {RemoveAt(Good, i) : i \in {6, 7, 8, 10, 13}}
    \cup {InsertAt(Good, 10, r) : r \in {Good[10], Good[11], Other("Unknown"), Unparsable("Channel")}}
    \cup {[Good EXCEPT ![4] = Unparsable("Chunk"), ![13].v.length = n] : n \in {1, 2}}
    \cup {[Good EXCEPT ![2].v.records = Append(@, r)] : r \in {Metadata, Unparsable("Message")}}
    \cup {WithSummary(<<Header, C(1, 0, "a"), M(1, 1, 1), Other("MessageIndex"), M(1, 2, 2)>>),
          [WithSummary(<<Header>>) EXCEPT ![3].v.count = 1],
          WithSummary(<<Rec("Header", [profile |-> "own", library |-> ""]), S(1, "s"), S(1, "s"),
                        C(1, 1, "a"), C(1, 1, "a")>>)}

MCInputs == Layouts \cup Breaks \cup Defects

\* What the properties take for granted of a file.
ASSUME InputsAssumption ==
    \A f \in MCInputs : f # <<>> /\ Increasing(SeqsOf(Flattened(f, FALSE)))
                         /\ (Last(f).op = "Footer" \/ Last(f).op = "Broken")

-------------------------------------------------------------------------------
FilterBy(start, end, include, exclude, last) ==
    [fn |-> "filter", start |-> start, end |-> end, include |-> include, exclude |-> exclude,
     last |-> last, metadata |-> TRUE, attachments |-> TRUE, chunked |-> TRUE]

Copy == FilterBy(0, 0, {}, {}, {})

MCCommandLines ==
    {[fn |-> "recover"], [fn |-> "info"], [fn |-> "cat"]}
    \cup {[fn |-> "sort", chunked |-> b] : b \in BOOLEAN}
    \cup {Copy, [Copy EXCEPT !.chunked = FALSE],
          [Copy EXCEPT !.metadata = FALSE, !.attachments = FALSE],
          FilterBy(2, 4, {}, {}, {}), FilterBy(0, MaxTime, {"b"}, {}, {}), FilterBy(0, 0, {"z"}, {}, {}),
          FilterBy(3, 0, {"a"}, {}, {"a", "b"}), FilterBy(4, 0, {}, {}, {"a", "b"}),
          FilterBy(2, 3, {}, {"a"}, {"b"}), FilterBy(3, 0, {}, {}, {"a"}),
          FilterBy(3, 2, {}, {}, {}), FilterBy(0, 0, {"a"}, {"b"}, {})}
    \cup {[fn |-> "doctor", strict |-> b] : b \in BOOLEAN}

MCDoctor == {[fn |-> "doctor", strict |-> FALSE]}
===============================================================================
