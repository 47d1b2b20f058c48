-------------------------------- MODULE Inspect --------------------------------
(***************************************************************************)
(* The commands that show a file: parse_mcap (common.rs), which info, list *)
(* and get begin with, the overlaps of chunks that info reports (info.rs), *)
(* and cat (cat.rs), which prints the messages.                            *)
(***************************************************************************)
EXTENDS Filter

NewParsed == [header |-> <<>>, statistics |-> <<>>, channels |-> <<>>, schemas |-> <<>>,
              chunk_indexes |-> <<>>, attachment_indexes |-> <<>>, metadata_indexes |-> <<>>]

Parsing(parsed, error) == [parsed |-> parsed, error |-> error]

\* The first definition of an id is kept; another one that differs is an error.
KeepFirst(p, map, r) ==
    CASE ~Known(p[map], r.v.id) -> Parsing([p EXCEPT ![map] = With(@, r.v.id, r.v)], "none")
      [] Known(p[map], r.v.id) /\ p[map][r.v.id] = r.v -> Parsing(p, "none")
      [] OTHER -> Parsing(p, "Conflict")

\* collect_record, until something is wrong.
CollectRecord(s, r) ==
    LET p == s.parsed
        list(field) == Parsing([p EXCEPT ![field] = Append(@, r.v)], "none") IN
    CASE s.error # "none" -> s
      [] s.error = "none" /\ r.op \in {"Broken", "BadMagic", "Unparsable"} -> Parsing(p, "Unreadable")
      [] s.error = "none" /\ r.op = "Header" ->
           Parsing([p EXCEPT !.header = <<r.v>>], IF p.header \in {<<>>, <<r.v>>} THEN "none" ELSE "Conflict")
      [] s.error = "none" /\ r.op = "Statistics" -> Parsing([p EXCEPT !.statistics = <<r.v>>], "none")
      [] s.error = "none" /\ r.op = "Channel" -> KeepFirst(p, "channels", r)
      [] s.error = "none" /\ r.op = "Schema" -> KeepFirst(p, "schemas", r)
      [] s.error = "none" /\ r.op = "ChunkIndex" -> list("chunk_indexes")
      [] s.error = "none" /\ r.op = "AttachmentIndex" -> list("attachment_indexes")
      [] s.error = "none" /\ r.op = "MetadataIndex" -> list("metadata_indexes")
      [] OTHER -> s

\* parse_mcap_linear
ParseMcapLinear(f, header) ==
    Through(CollectRecord, Parsing([NewParsed EXCEPT !.header = header], "none"), Flattened(f, TRUE))

\* parse_mcap_from_summary
ParseMcapFromSummary(s, header) ==
    LET statistics == Values(OfKind(s.records, "Statistics")) IN
    Parsing([header |-> header,
             statistics |-> IF statistics = <<>> THEN <<>> ELSE <<Last(statistics)>>,
             channels |-> s.acc.channels, schemas |-> s.acc.schemas,
             chunk_indexes |-> ChunkIndexes(s),
             attachment_indexes |-> Values(OfKind(s.records, "AttachmentIndex")),
             metadata_indexes |-> Values(OfKind(s.records, "MetadataIndex"))], s.error)

\* parse_mcap
ParseMcap(f) ==
    LET header == IF f[1].op = "Header" THEN <<f[1].v>> ELSE <<>>
        s == ReadSummary(f) IN
    CASE HeaderError(f) # "none" -> Parsing(NewParsed, HeaderError(f))
      [] HeaderError(f) = "none" /\ (s.present \/ s.error # "none") -> ParseMcapFromSummary(s, header)
      [] OTHER -> ParseMcapLinear(f, header)

-------------------------------------------------------------------------------
StartsFirst_SlipEndsFirst(a, b) == a.time < b.time \/ (a.time = b.time /\ ~a.is_start /\ b.is_start)

\* At the same time a chunk starts before another one ends.
StartsFirst(a, b) == a.time < b.time \/ (a.time = b.time /\ a.is_start /\ ~b.is_start)

Overlap(s, e) ==
    LET active == IF e.is_start THEN s.active + 1 ELSE Max({s.active - 1, 0})
        size == IF e.is_start THEN s.size + e.size ELSE Max({s.size - e.size, 0})
        more == e.is_start /\ (active > s.max_active \/ (active = s.max_active /\ size > s.max_size))
    IN [active |-> active, size |-> size,
        max_active |-> IF more THEN active ELSE s.max_active,
        max_size |-> IF more THEN size ELSE s.max_size]

\* count_chunk_overlaps: how many chunks are open at once, and their size.
CountChunkOverlaps(chunks) ==
    LET event(i) == [time |-> IF i % 2 = 1 THEN chunks[(i + 1) \div 2].start ELSE chunks[i \div 2].end,
                     is_start |-> i % 2 = 1, size |-> chunks[(i + 1) \div 2].length]
        events == SortSeq([i \in 1..(2 * Len(chunks)) |-> event(i)], StartsFirst)
        s == Through(Overlap, [active |-> 0, size |-> 0, max_active |-> 0, max_size |-> 0], events)
    IN CASE chunks = <<>> -> [overlaps |-> FALSE, count |-> 0, size |-> 0]
         [] Len(chunks) = 1 -> [overlaps |-> FALSE, count |-> 1, size |-> chunks[1].length]
         [] OTHER -> [overlaps |-> s.max_active > 1, count |-> s.max_active, size |-> s.max_size]

\* info; local is what it shows.
Info ==
    /\ stage = "start" /\ command.fn = "info"
    /\ LET p == ParseMcap(input) IN
       /\ local' = IF p.error # "none" THEN local
                   ELSE [parsed |-> p.parsed, overlaps |-> CountChunkOverlaps(p.parsed.chunk_indexes)]
       /\ Ends(IF p.error = "none" THEN "Ok" ELSE p.error)
    /\ UNCHANGED <<input, command, todo, writer>>

-------------------------------------------------------------------------------
(* cat.  local.printed are the messages shown, each with topic and schema. *)

\* cat_indexed as far as the reader, or cat_linear.
CatStart ==
    /\ stage = "start" /\ command.fn = "cat"
    /\ LET s == ReadSummary(input) IN
       \/ s.error # "none" /\ Fails(s.error)
       \/ /\ s.error = "none" /\ ChunkIndexes(s) # <<>>
          /\ stage' = "cat indexed" /\ todo' = Indexed(input, s, Everything)
          /\ local' = s @@ [printed |-> <<>>]
          /\ UNCHANGED <<writer, result>>
       \/ /\ s.error = "none" /\ ChunkIndexes(s) = <<>>
          /\ stage' = "cat linear" /\ todo' = Flattened(input, TRUE)
          /\ local' = [acc |-> NoChannels, error |-> "none", printed |-> <<>>]
          /\ UNCHANGED <<writer, result>>
    /\ UNCHANGED <<input, command>>

\* write_message_fields; the reader at the other end of the pipe may be gone.
WriteMessageFields(m) ==
    LET c == local.acc.channels[m.channel_id]
        shown == [seq |-> m.seq, log_time |-> m.log_time, topic |-> c.topic,
                  schema |-> {SchemaContent(s) : s \in ToSet(SchemaOf(local.acc.schemas, c))}] IN
    \/ /\ local' = [local EXCEPT !.printed = Append(@, shown)]
       /\ UNCHANGED <<stage, result>>
    \/ Ends("BrokenPipe") /\ UNCHANGED local

CatMessage(m) ==
    \/ Known(local.acc.channels, m.channel_id) /\ WriteMessageFields(m)
    \/ ~Known(local.acc.channels, m.channel_id) /\ Ends("UnknownChannel") /\ UNCHANGED local

CatIndexed ==
    /\ stage = "cat indexed"
    /\ \/ \E x \in Earliest1(todo) : CatMessage(x.m) /\ todo' = todo \ {x} /\ UNCHANGED writer
       \/ ChunkFails(Everything)
       \/ /\ todo = {} /\ ~IndexedFails(input, local, Everything)
          /\ Ends("Ok") /\ UNCHANGED <<todo, local, writer>>
    /\ UNCHANGED <<input, command>>

\* The definitions go into the stream's accumulator, see SliceReaders.
CatDefinition(r) ==
    LET s == Accumulate([acc |-> local.acc, error |-> "none"], r) IN
    \/ s.error # "none" /\ Ends(s.error) /\ UNCHANGED local
    \/ s.error = "none" /\ local' = [local EXCEPT !.acc = s.acc] /\ UNCHANGED <<stage, result>>

CatLinear ==
    /\ stage = "cat linear"
    /\ \/ /\ todo = <<>> /\ Ends("Ok")
          /\ UNCHANGED <<todo, local>>
       \/ /\ todo # <<>> /\ todo' = Tail(todo)
          /\ IF Head(todo).op = "Message" THEN CatMessage(Head(todo).v) ELSE CatDefinition(Head(todo))
    /\ UNCHANGED <<input, command, writer>>
===============================================================================
