---------------------------- MODULE MCLinearReader ----------------------------
EXTENDS LinearReaderProperties

M(len) == Record("Message", len, "m")

Ended(data, crc1, summary, crc2) ==
    Whole(data \o <<DataEndItem(crc1)>> \o summary \o <<FooterItem(crc2)>>)

Plain1 == <<Chunk("", "good", <<M(1), M(2)>>, 0), M(1)>>
Squeezed == <<Chunk("zstd", "good", <<M(0), M(1)>>, 0), Chunk("zstd", "zero", <<M(1)>>, 0)>>
Padded == <<Chunk("lz4", "good", <<M(1)>>, 2), Chunk("", "good", <<>>, 1)>>

Items == {
    Ended(Plain1, "good", <<Record("Statistics", 1, "s")>>, "good"),
    Ended(Squeezed, "good", <<>>, "zero"),
    Ended(Padded, "bad", <<>>, "good"),
    Ended(<<Chunk("", "bad", <<M(1)>>, 0)>>, "zero", <<>>, "good"),
    Ended(<<Chunk("zstd", "bad", <<M(1), M(1), M(1)>>, 0)>>, "zero", <<>>, "good"),
    Ended(<<Chunk("snappy", "good", <<M(1)>>, 0)>>, "zero", <<>>, "good"),
    Ended(<<M(1), ShortChunk(<<M(1)>>)>>, "zero", <<>>, "good"),
    Ended(<<M(0), Named(6, 0, <<>>)>>, "zero", <<>>, "zero"),
    Ended(<<Named(1, 3, <<M(0)>>)>>, "zero", <<>>, "zero"),
    Ended(<<M(0), Named(1, 20, <<>>)>>, "zero", <<>>, "zero"),
    Ended(<<Record("Attachment", 4, "a")>>, "good", <<>>, "bad") \o <<Extra>>,
    <<Magic(FALSE)>> \o Tail(Ended(<<>>, "good", <<>>, "good")),
    Front(Ended(<<M(1)>>, "good", <<>>, "good")) \o <<Magic(FALSE)>>}

Chunks == {Chunk("", "good", <<M(1), M(0)>>, 0), Chunk("lz4", "bad", <<M(1), M(0)>>, 0),
           Chunk("zstd", "zero", <<M(0), M(2)>>, 0), Chunk("", "bad", <<M(1)>>, 0)}

MCFiles ==
    UNION {{Cut(Contents(c), n) : n \in 0..Len(Contents(c).cells)} : c \in Chunks} \cup
    UNION {{Cut(Layout(it), n) : n \in 1..Len(Layout(it).cells)} : it \in Items}

Default ==
    [skip_start_magic |-> FALSE, skip_end_magic |-> FALSE,
     check_finishes_after_end_magic |-> FALSE, emit_chunks |-> FALSE,
     validate_chunk_crcs |-> FALSE, prevalidate_chunk_crcs |-> FALSE,
     validate_data_section_crc |-> FALSE, validate_summary_section_crc |-> FALSE,
     record_length_limit |-> NoLimit]

\* The options of the library's own readers, and of its tests.
MCOptions == {
    Default,
    [Default EXCEPT !.skip_end_magic = TRUE, !.validate_chunk_crcs = TRUE],
    [Default EXCEPT !.skip_start_magic = TRUE, !.skip_end_magic = TRUE,
                    !.record_length_limit = 3],
    [Default EXCEPT !.emit_chunks = TRUE, !.validate_chunk_crcs = TRUE,
                    !.check_finishes_after_end_magic = TRUE, !.record_length_limit = 6],
    [Default EXCEPT !.prevalidate_chunk_crcs = TRUE, !.validate_data_section_crc = TRUE,
                    !.validate_summary_section_crc = TRUE, !.record_length_limit = 4],
    [Default EXCEPT !.validate_chunk_crcs = TRUE, !.record_length_limit = 1],
    [Default EXCEPT !.validate_chunk_crcs = TRUE, !.validate_data_section_crc = TRUE,
                    !.validate_summary_section_crc = TRUE]}
===============================================================================
