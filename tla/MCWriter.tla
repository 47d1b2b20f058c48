------------------------------- MODULE MCWriter -------------------------------
(***************************************************************************)
(* Instances of the writer for TLC.                                        *)
(***************************************************************************)
EXTENDS WriterProperties

CONSTANTS s1, s2, s3, p1, p2   \* schema contents and topics

Default ==
    [use_chunks |-> TRUE, disable_seeking |-> FALSE, chunk_size |-> 2,
     emit_statistics |-> TRUE, emit_summary_offsets |-> TRUE,
     emit_message_indexes |-> TRUE, emit_chunk_indexes |-> TRUE,
     emit_attachment_indexes |-> TRUE, emit_metadata_indexes |-> TRUE,
     repeat_channels |-> TRUE, repeat_schemas |-> TRUE,
     calculate_chunk_crcs |-> TRUE, calculate_data_section_crc |-> TRUE]

\* Chunked, chunked without seeking, and unchunked writers.
ThreeKinds ==
    {Default,
     [Default EXCEPT !.disable_seeking = TRUE, !.chunk_size = 0],
     [Default EXCEPT !.use_chunks = FALSE]}

TwoKinds == {Default, [Default EXCEPT !.use_chunks = FALSE]}

DefaultOnly == {Default}

\* The same, each but the first leaving out other parts of the summary or CRCs.
StreamKinds ==
    {Default,
     [Default EXCEPT !.disable_seeking = TRUE, !.chunk_size = 0,
                     !.repeat_channels = FALSE, !.emit_statistics = FALSE],
     [Default EXCEPT !.emit_chunk_indexes = FALSE, !.emit_message_indexes = FALSE,
                     !.repeat_schemas = FALSE, !.calculate_chunk_crcs = FALSE],
     [Default EXCEPT !.use_chunks = FALSE, !.emit_attachment_indexes = FALSE,
                     !.emit_metadata_indexes = FALSE,
                     !.emit_summary_offsets = FALSE]}

\* Neither chunk CRCs nor statistics.
NoChunkCrcs == {[Default EXCEPT !.calculate_chunk_crcs = FALSE, !.emit_statistics = FALSE]}

===============================================================================
