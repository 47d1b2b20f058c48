----------------------------- MODULE SummaryReader -----------------------------
(***************************************************************************)
(* The sans-I/O summary reader of sans_io/summary_reader.rs: it asks its   *)
(* client to seek to the footer, reads it, asks for the start of the       *)
(* summary section and runs a LinearReader from there on.  The client may  *)
(* at any time seek somewhere else instead.                                *)
(*                                                                         *)
(* `event` is what next_event() returned to the client; while the summary  *)
(* is read it comes from the LinearReader, whose records are taken here.   *)
(***************************************************************************)
EXTENDS LinearReader, ChannelAccumulator

CONSTANTS Sizes,       \* whether the client knows the file size: {TRUE}, {FALSE} or both
          Limits,      \* the record_length_limits considered
          MaxDetours   \* bound: seeks and reads nobody asked for

VARIABLES pos,              \* where the reader believes the stream to be
          stream,           \* where the stream is
          file_size,        \* Option<u64>
          state,            \* [at, summary_start, loaded_bytes]
          channeler, summary, summary_present,
          seen_eof,         \* at_eof of the summary reader
          limit,            \* options.record_length_limit
          detours

summaryVars == <<pos, stream, file_size, state, channeler, summary, summary_present,
                 seen_eof, limit, detours>>
allVars == <<vars, summaryVars>>

\* Opcode and length, two cells of body and the end magic.
FOOTER_RECORD_AND_END_MAGIC == 4

Size == Len(file.cells)

EmptySummary ==
    [stats |-> <<>>, channels |-> <<>>, schemas |-> <<>>, chunk_indexes |-> <<>>,
     attachment_indexes |-> <<>>, metadata_indexes |-> <<>>]

State(where) == [at |-> where, summary_start |-> 0, loaded_bytes |-> 0]

\* The linear reader's options, its limit still to be filled in.
SummaryOptions(n) ==
    [skip_start_magic |-> TRUE, skip_end_magic |-> FALSE,
     check_finishes_after_end_magic |-> FALSE, emit_chunks |-> FALSE,
     validate_chunk_crcs |-> FALSE, prevalidate_chunk_crcs |-> FALSE,
     validate_data_section_crc |-> FALSE, validate_summary_section_crc |-> FALSE,
     record_length_limit |-> n]

SummaryInit ==
    /\ file \in Files
    /\ New(SummaryOptions(NoLimit), 0)
    /\ event = Call
    /\ yielded = <<>>
    /\ pos = 0 /\ stream = 0
    /\ \E known \in Sizes : file_size = IF known THEN Some(Size) ELSE None
    /\ state = State("SeekingToFooter")
    /\ channeler = NoChannels /\ summary = EmptySummary /\ summary_present = FALSE
    /\ seen_eof = FALSE
    /\ limit \in Limits
    /\ detours = 0

-------------------------------------------------------------------------------
(* next_event.                                                             *)

In(where) == event = Call /\ state.at = where

Idle == UNCHANGED <<file, opts, reader, yielded>>

Return(e) ==
    /\ event' = e
    /\ Idle
    /\ UNCHANGED summaryVars

SeekRequest(to) == [kind |-> "SeekRequest", to |-> to]
Failed(why) == [kind |-> "Err", why |-> why]

Enter(s) ==
    /\ state' = s
    /\ event' = Call
    /\ UNCHANGED <<pos, stream, file_size, channeler, summary, seen_eof, limit, detours>>

SeekingToFooter ==
    /\ In("SeekingToFooter")
    /\ \/ /\ file_size = None
          /\ Return(SeekRequest(Size - FOOTER_RECORD_AND_END_MAGIC))
       \/ /\ file_size # None
          /\ file_size[1] < FOOTER_RECORD_AND_END_MAGIC + 1
          /\ Return(Failed("UnexpectedEof"))
       \/ /\ file_size # None
          /\ file_size[1] >= FOOTER_RECORD_AND_END_MAGIC + 1
          /\ LET start == file_size[1] - FOOTER_RECORD_AND_END_MAGIC IN
             \/ pos # start /\ Return(SeekRequest(start))
             \/ /\ pos = start
                /\ Enter(State("ReadingFooter"))
                /\ Idle
                /\ UNCHANGED summary_present

\* The footer lies in the last cells that were read.
FooterCell(i) == file.cells[pos - state.loaded_bytes + i]

EndsWithMagic ==
    state.loaded_bytes = FOOTER_RECORD_AND_END_MAGIC /\ FooterCell(4).k = "Magic"
IsFooter == FooterCell(1).k = "Head" /\ FooterCell(1).op = "Footer"

ReadingFooter ==
    /\ In("ReadingFooter")
    /\ \/ /\ state.loaded_bytes < FOOTER_RECORD_AND_END_MAGIC
          /\ Return(IF seen_eof THEN Failed("UnexpectedEof")
                    ELSE [kind |-> "ReadRequest",
                          n |-> FOOTER_RECORD_AND_END_MAGIC - state.loaded_bytes])
       \/ /\ state.loaded_bytes >= FOOTER_RECORD_AND_END_MAGIC
          /\ \/ ~EndsWithMagic /\ Return(Failed("BadMagic"))
             \/ EndsWithMagic /\ ~IsFooter /\ Return(Failed("BadFooter"))
             \/ /\ EndsWithMagic /\ IsFooter
                /\ LET start == FooterCell(2).val IN
                   \/ start = 0 /\ Return([kind |-> "None"])
                   \/ /\ start # 0
                      /\ Enter([State("SeekingToSummary") EXCEPT !.summary_start = start])
                      /\ summary_present' = TRUE
                      /\ Idle

\* compute_record_length_limit.
RecordLengthLimit_SlipOption == limit

RecordLengthLimit ==
    Min({IF file_size[1] > pos THEN file_size[1] - pos ELSE 0, limit})

SeekingToSummary ==
    /\ In("SeekingToSummary")
    /\ \/ pos # state.summary_start /\ Return(SeekRequest(state.summary_start))
       \/ /\ pos = state.summary_start
          /\ Renew(SummaryOptions(RecordLengthLimit), pos)
          /\ state' = [state EXCEPT !.at = "ReadingSummary"]
          /\ channeler' = NoChannels
          /\ event' = Call
          /\ UNCHANGED <<file, yielded, pos, stream, file_size, summary, summary_present,
                         seen_eof, limit, detours>>

\* A turn of the linear reader's loop.  Its None ends the summary.
Filled ==
    [summary EXCEPT !.schemas = channeler.schemas, !.channels = channeler.channels]

ReadingSummary ==
    /\ state.at = "ReadingSummary"
    /\ NextEvent
    /\ summary' = IF event'.kind = "None" THEN Filled ELSE summary
    /\ UNCHANGED <<pos, stream, file_size, state, channeler, summary_present,
                   seen_eof, limit, detours>>

\* What a record of the summary section holds.
Parsed == Plain(event.data[1]).val

Keep(s) == summary' = s /\ channeler' = channeler /\ event' = Call

Channel(res) ==
    /\ channeler' = res.acc
    /\ summary' = summary
    /\ event' = IF res.error = "none" THEN Call ELSE Failed(res.error)

Collect ==
    /\ state.at = "ReadingSummary"
    /\ event.kind = "Record"
    /\ CASE event.op = "AttachmentIndex" ->
              Keep([summary EXCEPT !.attachment_indexes = Append(@, Parsed)])
         [] event.op = "MetadataIndex" ->
              Keep([summary EXCEPT !.metadata_indexes = Append(@, Parsed)])
         [] event.op = "ChunkIndex" ->
              Keep([summary EXCEPT !.chunk_indexes = Append(@, Parsed)])
         [] event.op = "Statistics" -> Keep([summary EXCEPT !.stats = Some(Parsed)])
         [] event.op = "Channel" -> Channel(AddChannel(channeler, Parsed))
         [] event.op = "Schema" -> Channel(AddSchema(channeler, Parsed))
         [] OTHER -> Keep(summary)
    /\ Idle
    /\ UNCHANGED <<pos, stream, file_size, state, summary_present, seen_eof, limit, detours>>

-------------------------------------------------------------------------------
(* The client.                                                             *)

\* notify_read: the state says whose bytes they are.
SummaryNotifyRead(n) ==
    /\ seen_eof' = (n = 0)
    /\ pos' = pos + n
    /\ stream' = stream + n
    /\ state' = IF state.at = "ReadingFooter" THEN [state EXCEPT !.loaded_bytes = @ + n]
                ELSE state
    /\ IF state.at = "ReadingSummary" THEN NotifyRead(n) ELSE UNCHANGED <<file_data, at_eof>>
    /\ event' = Call
    /\ UNCHANGED <<file, opts, currently_reading, chunk_state, decompressed_content,
                   decompressors, yielded, file_size, channeler, summary, summary_present,
                   limit>>

Available(n) == IF stream >= Size THEN n = 0 ELSE n \in 1..(Size - stream)

ServeRead(n) ==
    /\ event.kind = "ReadRequest"
    /\ n <= event.n + Overread
    /\ Available(n)
    /\ SummaryNotifyRead(n)
    /\ UNCHANGED detours

StartOver_SlipFooter(to) ==
    IF pos # to /\ state.at = "ReadingSummary"
    THEN state' = [state EXCEPT !.at = "SeekingToSummary"] /\ summary' = EmptySummary
    ELSE UNCHANGED <<state, summary>>

StartOver_SlipKeepSummary(to) ==
    CASE pos # to /\ state.at = "ReadingFooter" ->
           state' = State("SeekingToFooter") /\ summary' = summary
      [] pos # to /\ state.at = "ReadingSummary" ->
           state' = [state EXCEPT !.at = "SeekingToSummary"] /\ summary' = summary
      [] OTHER -> UNCHANGED <<state, summary>>

\* A seek away from where the reader is reading makes it start over.
StartOver(to) ==
    CASE pos # to /\ state.at = "ReadingFooter" ->
           state' = State("SeekingToFooter") /\ summary' = summary
      [] pos # to /\ state.at = "ReadingSummary" ->
           state' = [state EXCEPT !.at = "SeekingToSummary"] /\ summary' = EmptySummary
      [] OTHER -> UNCHANGED <<state, summary>>

StillAtEof_SlipSticky(to) == seen_eof

StillAtEof(to) == seen_eof /\ pos = to

NotifySeeked(to) ==
    /\ seen_eof' = StillAtEof(to)
    /\ file_size' = IF file_size = None THEN Some(to + FOOTER_RECORD_AND_END_MAGIC)
                    ELSE file_size
    /\ StartOver(to)
    /\ pos' = to
    /\ stream' = to
    /\ event' = Call
    /\ Idle
    /\ UNCHANGED <<channeler, summary_present, limit>>

ServeSeek ==
    /\ event.kind = "SeekRequest"
    /\ event.to >= 0
    /\ NotifySeeked(event.to)
    /\ UNCHANGED detours

\* The stream cannot seek before its start: the client stops with its own error.
SeekFails ==
    /\ event.kind = "SeekRequest"
    /\ event.to < 0
    /\ event' = Failed("Io")
    /\ Idle
    /\ UNCHANGED summaryVars

Detour ==
    /\ event.kind \in {"ReadRequest", "SeekRequest"}
    /\ detours < MaxDetours
    /\ detours' = detours + 1

\* Without a file size the first seek is taken for the one to the footer.
SeekElsewhere(to) ==
    /\ Detour
    /\ file_size # None
    /\ NotifySeeked(to)

\* Bytes nobody asked for; the reader discards them.
ReadUnasked(n) ==
    /\ Detour
    /\ event.kind = "SeekRequest"
    /\ Available(n)
    /\ SummaryNotifyRead(n)

-------------------------------------------------------------------------------
SummaryNext ==
    \/ SeekingToFooter \/ ReadingFooter \/ SeekingToSummary \/ ReadingSummary \/ Collect
    \/ ServeSeek \/ SeekFails
    \/ \E n \in 0..Size : ServeRead(n) \/ ReadUnasked(n)
    \/ \E to \in 0..Size : SeekElsewhere(to)

\* A client that keeps serving requests, with detours now and then.
SummarySpec == SummaryInit /\ [][SummaryNext]_allVars /\ WF_allVars(SummaryNext)

\* SummaryReader::finish.
Finish == IF summary_present THEN Some(summary) ELSE None
===============================================================================
