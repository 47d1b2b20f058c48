------------------------------- MODULE McapFile -------------------------------
(***************************************************************************)
(* Files for the readers, put together from items: records, chunks, the    *)
(* end of the data section, the footer and the magics.  An item occupies   *)
(* cells as LinearReader describes them; a file keeps its items and the    *)
(* cells each one occupies, so that what a reader should make of the file  *)
(* can be said without looking at cells.                                   *)
(***************************************************************************)
EXTENDS Integers, Sequences, SequencesExt

\* Saved CRCs are right, 0 (none) or wrong.
CrcKinds == {"good", "zero", "bad"}

Record(op, len, val) == [k |-> "Record", op |-> op, len |-> len, val |-> val]
Chunk(compression, crc, records, padding) ==
    [k |-> "Chunk", compression |-> compression, crc |-> crc, records |-> records,
     padding |-> padding, short |-> FALSE,
     name |-> IF compression = "" THEN 0 ELSE 1, over |-> 0]
\* A chunk record too short for what its header says.
ShortChunk(records) == [Chunk("", "good", records, 0) EXCEPT !.short = TRUE]
\* A chunk with a compression string of `name` cells, said to have `over` more.
Named(name, over, records) ==
    [Chunk("snappy", "good", records, 0) EXCEPT !.name = name, !.over = over]
DataEndItem(crc) == [k |-> "DataEnd", crc |-> crc]
FooterItem(crc) == [k |-> "Footer", crc |-> crc, start |-> <<>>]
\* A footer that says the summary section is where it is not.
FooterSaying(start) == [k |-> "Footer", crc |-> "zero", start |-> <<start>>]
\* A record whose length goes beyond the file.
Endless(op) == [k |-> "Endless", op |-> op]
Magic(ok) == [k |-> "Magic", ok |-> ok]
Extra == [k |-> "Extra"]

Positions(from, to) == [i \in 1..(to - from) |-> from + i]

Saved(kind, cells) ==
    CASE kind = "good" -> <<cells>> [] kind = "zero" -> <<>> [] kind = "bad" -> <<<<0>>>>

Lead(op, len) == [k |-> "Head", op |-> op, len |-> len]
Data(val) == [k |-> "Data", val |-> val]

RecordCells(r) ==
    IF r.k = "Endless" THEN <<Lead(r.op, 100)>>
    ELSE <<Lead(r.op, r.len)>> \o [i \in 1..r.len |-> Data(r.val)]

Content(c) == FoldLeft(LAMBDA acc, r : acc \o RecordCells(r), <<>>, c.records)

Stored(c) ==
    IF c.compression = "" THEN Content(c)
    ELSE LET plain == Append(Content(c), [k |-> "FrameEnd"]) IN
         [i \in DOMAIN plain |-> [k |-> "Compressed", plain |-> plain[i]]]

ChunkHead(c) == 1 + c.name

ChunkLen(c) == ChunkHead(c) + Len(Stored(c)) + c.padding

ChunkCells(c, at) ==
    LET first == at + 1 + ChunkHead(c) IN
    <<Lead("Chunk", ChunkLen(c)),
      [k |-> "ChunkHeader", compression |-> c.compression,
       compression_len |-> c.name + c.over,
       crc |-> Saved(c.crc, Positions(first, first + Len(Content(c)))),
       compressed_size |-> Len(Stored(c)) + (IF c.short THEN 1 ELSE 0),
       uncompressed_size |-> Len(Content(c))]>>
    \o [i \in 1..c.name |-> Data("compression")]
    \o Stored(c)
    \o [i \in 1..c.padding |-> Data("padding")]

\* Where the summary section starts, 0 for none.
SummaryStart(f) == IF Last(f.spans)[2] = f.data_end THEN 0 ELSE f.data_end

ItemCells(it, f) ==
    LET at == Len(f.cells) IN
    CASE it.k \in {"Record", "Endless"} -> RecordCells(it)
      [] it.k = "Chunk" -> ChunkCells(it, at)
      [] it.k = "DataEnd" ->
           <<Lead("DataEnd", 1), [k |-> "DataEndCrc", crc |-> Saved(it.crc, Positions(0, at))]>>
      [] it.k = "Footer" ->
           <<Lead("Footer", 2),
             Data(IF it.start = <<>> THEN SummaryStart(f) ELSE it.start[1]),
             [k |-> "FooterCrc", crc |-> Saved(it.crc, Positions(f.data_end, at + 2))]>>
      [] it.k = "Magic" -> <<[k |-> IF it.ok THEN "Magic" ELSE "Data"]>>
      [] it.k = "Extra" -> <<Data("extra")>>

Place(f, it) ==
    LET cells == f.cells \o ItemCells(it, f) IN
    [items |-> Append(f.items, it),
     cells |-> cells,
     spans |-> Append(f.spans, <<Len(f.cells), Len(cells)>>),
     chunk |-> f.chunk,
     data_end |-> IF it.k = "DataEnd" THEN Len(cells) ELSE f.data_end]

\* spans[i] says after which cell item i starts and which is its last.
Layout(items) ==
    FoldLeft(Place, [items |-> <<>>, cells |-> <<>>, spans |-> <<>>, chunk |-> <<>>,
                     data_end |-> 0], items)

\* The data of a chunk by itself, with the chunk's header at hand.
Contents(c) ==
    [items |-> <<[k |-> "Contents", of |-> c]>>, cells |-> Stored(c),
     spans |-> <<<<0, Len(Stored(c))>>>>,
     chunk |-> <<ChunkCells(c, -1 - ChunkHead(c))[2]>>,
     data_end |-> 0]

\* The file as far as cell n.
Cut(f, n) == [f EXCEPT !.cells = SubSeq(@, 1, n)]

Whole(items) == <<Magic(TRUE)>> \o items \o <<Magic(TRUE)>>
===============================================================================
