----------------------- MODULE SummaryReaderProperties -----------------------
(* What the summary of a file is, and that the reader gets it.             *)
EXTENDS SummaryReader, McapFile

-------------------------------------------------------------------------------
(* What the summary of a file is.                                          *)

\* The items from where the footer says that the summary section starts.
SummaryItems ==
    LET start == file.cells[Len(file.cells) - 2].val
        from  == {i \in DOMAIN file.spans : file.spans[i][1] >= start}
    IN SelectSeq(SubSeq(file.items, Min(from), Len(file.items)),
                 LAMBDA it : it.k \in {"Record", "Endless"})

Values(op) ==
    LET s == SelectSeq(SummaryItems, LAMBDA it : it.k = "Record" /\ it.op = op) IN
    [i \in DOMAIN s |-> s[i].val]

ById(vals) == [id \in {v.id : v \in ToSet(vals)} |-> CHOOSE v \in ToSet(vals) : v.id = id]

\* The value an MCAP reader should get for the summary of the file.
Expected ==
    [stats |-> IF Values("Statistics") = <<>> THEN None ELSE Some(Last(Values("Statistics"))),
     channels |-> ById(Values("Channel")), schemas |-> ById(Values("Schema")),
     chunk_indexes |-> Values("ChunkIndex"),
     attachment_indexes |-> Values("AttachmentIndex"),
     metadata_indexes |-> Values("MetadataIndex")]

\* The file's tail is a footer and the end magic.
HasFooter ==
    /\ Size >= FOOTER_RECORD_AND_END_MAGIC + 1
    /\ file.cells[Size].k = "Magic"
    /\ file.cells[Size - 3].k = "Head" /\ file.cells[Size - 3].op = "Footer"

-------------------------------------------------------------------------------
SummaryTypeOK ==
    /\ pos \in 0..Size /\ stream \in 0..Size
    /\ state.at \in {"SeekingToFooter", "ReadingFooter", "SeekingToSummary", "ReadingSummary"}
    /\ state.loaded_bytes \in 0..FOOTER_RECORD_AND_END_MAGIC
    /\ file_size = None \/ file_size[1] = Size
    /\ event.kind \in {"Call", "ReadRequest", "SeekRequest", "Record", "None", "Err"}
    /\ event.kind = "ReadRequest" => event.n > 0
    /\ detours \in 0..MaxDetours

\* Whatever the client does in between, next_event() ends with the summary of
\* the file, each of its records once and none from a reading that was broken
\* off, and with None only for a file whose footer says that there is none.
SummaryExact ==
    event.kind = "None" =>
        /\ HasFooter
        /\ Finish = IF file.cells[Size - 2].val = 0 THEN None ELSE Some(Expected)

\* An error is about the file and the limit, never about how it was read.
ErrorsDeserved ==
    event.kind = "Err" =>
        CASE event.why \in {"BadMagic", "BadFooter", "Io"} -> ~HasFooter
          [] event.why = "UnexpectedEof" ->
               ~HasFooter \/ file.cells[Size - 2].val >= Size
          [] event.why = "RecordTooLarge" ->
               \E i \in DOMAIN SummaryItems :
                   SummaryItems[i].k = "Endless" \/ SummaryItems[i].len > limit
          [] event.why = "ConflictingChannels" ->
               \E c, d \in ToSet(Values("Channel")) : c.id = d.id /\ c # d
          [] event.why = "UnknownSchema" ->
               \E c \in ToSet(Values("Channel")) :
                   c.schema_id \notin {s.id : s \in ToSet(Values("Schema"))}
          [] OTHER -> FALSE

\* While the summary is read, the linear reader's buffer ends where the stream
\* is: the next read goes on where the last one ended, and no request asks for
\* more than the rest of the file, its own opcode and length and what it has.
BufferFollowsStream ==
    /\ pos = stream
    /\ state.at = "ReadingSummary" => file_data.end = stream
    /\ state.at = "ReadingSummary" /\ event.kind = "ReadRequest" =>
         event.n <= Size - state.summary_start + 1

\* A client that stops making detours gets its summary, or an error.
SummaryFinishes == <>(event.kind \in {"None", "Err"})

\* The summary reader's state fits its position, and the reader under it is
\* at the same place in the file, after any seek.
StreamConsistent == SummaryTypeOK /\ BufferFollowsStream

\* It answers with the summary of the file or with an error that the file
\* deserves, whatever the client did on the way.
SummaryAnswers == SummaryExact /\ ErrorsDeserved
===============================================================================
