------------------------ MODULE SliceReadersProperties ------------------------
(* What the readers over a file in memory should give, said of its items.  *)
EXTENDS SliceReaders, McapFile

\* A record in a chunk whose length goes beyond the chunk, and how it is told.
Overruns(c) == \E j \in DOMAIN c.records : c.records[j].k = "Endless"
OverrunError(c) == IF c.compression = "" THEN "UnexpectedEof" ELSE "UnexpectedEoc"

Whole1(c) == SelectSeq(c.records, LAMBDA r : r.k = "Record")

Trouble(why) == <<[k |-> why, op |-> "none"]>>

\* The records of an item, those of a chunk in its place, and after them the error
\* of a chunk whose CRC is wrong or whose last record goes beyond it.
ItemRecords(it) ==
    CASE it.k = "Record" -> <<it>>
      [] it.k = "Chunk" ->
           Whole1(it) \o (CASE Overruns(it) -> Trouble(OverrunError(it))
                            [] ~Overruns(it) /\ it.crc = "bad" -> Trouble("BadChunkCrc")
                            [] OTHER -> <<>>)
      [] OTHER -> <<>>

Flat(items) == FoldLeft(LAMBDA acc, it : acc \o ItemRecords(it), <<>>, items)

All == Flat(mcap.items)

\* An earlier definition of the same kind and id.
Before(i) == {j \in 1..(i - 1) : All[j].op = All[i].op /\ All[j].val.val.id = All[i].val.val.id}

ErrorAt(i) ==
    LET r == All[i] IN
    CASE r.k # "Record" -> r.k
      [] r.op \in {"Schema", "Attachment"} /\ r.val.bad # "none" -> r.val.bad
      [] r.op = "Schema" /\ r.val.bad = "none" ->
           CASE r.val.val.id = 0 -> "InvalidSchemaId"
             [] \E j \in Before(i) : All[j].val # r.val -> "ConflictingSchemas"
             [] OTHER -> "none"
      [] r.op = "Channel" ->
           CASE r.val.val.schema_id # 0 /\
                ~(\E j \in 1..(i - 1) :
                    All[j].op = "Schema" /\ All[j].val.val.id = r.val.val.schema_id) -> "UnknownSchema"
             [] \E j \in Before(i) : All[j].val # r.val -> "ConflictingChannels"
             [] OTHER -> "none"
      [] OTHER -> "none"

Errors == {i \in DOMAIN All : ErrorAt(i) # "none"}

\* The message at i with the channel defined before it.
MessageAt(i) ==
    LET m   == All[i].val.val
        def == {j \in 1..(i - 1) : All[j].op = "Channel" /\ All[j].val.val.id = m.channel_id}
    IN IF call.fn = "RawMessageStream" THEN Ok(m)
       ELSE IF def = {} THEN Fail("UnknownChannel")
       ELSE Ok([channel |-> All[Min(def)].val.val, seq |-> m.seq])

StreamExpected ==
    LET stop == IF Errors = {} THEN Len(All) + 1 ELSE Min(Errors)
        ms   == SelectSeq([i \in 1..(stop - 1) |-> i], LAMBDA i : All[i].op = "Message")
    IN [j \in DOMAIN ms |-> MessageAt(ms[j])]
       \o (IF Errors = {} THEN <<>> ELSE <<Fail(ErrorAt(stop))>>)

\* The chunk an index points to.
ChunkOf(index) ==
    mcap.items[CHOOSE i \in DOMAIN mcap.items : mcap.spans[i][1] = index.offset]

ChunkMessages ==
    LET ms == SelectSeq(ChunkOf(call.index).records,
                        LAMBDA r : r.k = "Record" /\ r.op = "Message")
    IN [j \in DOMAIN ms |-> WithChannel(ms[j].val.val, call.channels)]

\* What may come after the messages of a chunk: some errors, and then the end
\* ("none") or an error for ever.  A wrong CRC of compressed records is told a second
\* time, if there is no padding that would have to be consumed a second time.
ChunkAftermath ==
    LET c   == ChunkOf(call.index)
        bad == Fail("BadChunkCrc")
    IN CASE Overruns(c) -> {[errors |-> <<>>, ever |-> OverrunError(c)]}
         [] ~Overruns(c) /\ c.crc = "bad" /\ c.compression = "" ->
              {[errors |-> <<bad>>, ever |-> "none"]}
         [] ~Overruns(c) /\ c.crc = "bad" /\ c.compression # "" ->
              {[errors |-> <<bad, bad>>, ever |-> "none"],
               [errors |-> <<bad>>, ever |-> "UnexpectedEof"]}
         [] OTHER -> {[errors |-> <<>>, ever |-> "none"]}

\* The items of a file as LinearReader gives them.
LinearItem(it) ==
    CASE it.k # "Record" -> Ok([op |-> it.k, val |-> it.k])
      [] it.k = "Record" /\ it.val.bad # "none" -> Fail(it.val.bad)
      [] OTHER -> Ok([op |-> it.op, val |-> it.val.val])

LinearItems ==
    LET here == {i \in DOMAIN mcap.items : mcap.spans[i][2] <= Len(mcap.cells)}
        its  == SelectSeq(SubSeq(mcap.items, 1, Cardinality(here)),
                          LAMBDA it : it.k \in {"Record", "Chunk", "DataEnd", "Footer"})
    IN [j \in DOMAIN its |-> LinearItem(its[j])]

\* After its items a file has ended, or it was cut in the middle of one, or without an
\* end magic that is looked for, or a record's length goes beyond it.
LinearAftermath ==
    LET ever ==
        CASE \E i \in DOMAIN mcap.items : mcap.items[i].k = "Endless" -> "RecordTooLarge"
          [] /\ \A i \in DOMAIN mcap.items : mcap.items[i].k # "Endless"
             /\ Len(mcap.cells) < Last(mcap.spans)[2]
             /\ \/ ~call.ignore_end_magic
                \/ \A i \in DOMAIN mcap.spans : mcap.spans[i][2] # Len(mcap.cells) -> "UnexpectedEof"
          [] OTHER -> "none"
    IN {[errors |-> <<>>, ever |-> ever]}

\* The slice ends with the lone opcode and length of what follows item i: the linear
\* reader does not notice that it was cut off there.
CutAfterOpcode(i, end) ==
    end = mcap.spans[i][2] + 1 /\ mcap.items[i + 1].k \in {"Chunk", "DataEnd", "Footer"}

BreaksOffUnseen ==
    \E i \in 1..(Len(mcap.items) - 1) : CutAfterOpcode(i, Len(mcap.cells))

\* An iterator gives these items and then what comes after them.
Gives(items, aftermath) ==
    \E a \in aftermath :
        LET ever == IF a.ever = "none" THEN <<>> ELSE [i \in 1..MaxErrors |-> Fail(a.ever)]
            all  == items \o a.errors \o ever
        IN IsPrefix(out, all) /\ (done => a.ever = "none" /\ out = all)

\* The index covers all of the chunk's data, if not what pads it.
Covered(index) ==
    \E i \in DOMAIN mcap.spans :
        LET end == index.offset + index.length IN
        /\ index.offset = mcap.spans[i][1]
        /\ end >= mcap.spans[i][2] - mcap.items[i].padding
        /\ end <= Len(mcap.cells)

-------------------------------------------------------------------------------
SliceTypeOK ==
    /\ done \in BOOLEAN
    /\ DOMAIN channeler.schemas \cap {0} = {}
    /\ \A c \in DOMAIN channeler.channels :
         channeler.channels[c].schema_id \in {0} \cup DOMAIN channeler.schemas
    /\ file_data.end <= Len(file.cells)

\* A stream of messages over a file gives every message once, in the file's
\* order, with the channel that was defined before it, whether it lies in a
\* chunk or not; it ends with the first definition that is in conflict with an
\* earlier one, the first record that cannot be parsed or the first chunk whose
\* CRC is wrong or that breaks off, after that chunk's messages.  stream_chunk does
\* so for one chunk with the summary's channels, and LinearReader gives every
\* record, but these two do not end with an error: they end after it, or go on with
\* one error for ever.  Nothing is said of a file that was cut after a lone opcode:
\* EndsBetweenRecords is about that.
StreamExact ==
    /\ done /\ call.fn \in {"RawMessageStream", "MessageStream"} => out = StreamExpected
    /\ call.fn = "stream_chunk" /\ Covered(call.index) => Gives(ChunkMessages, ChunkAftermath)
    /\ done /\ call.fn = "stream_chunk" /\ ~Covered(call.index) => ~Last(out).ok
    /\ call.fn = "LinearReader" /\ ~BreaksOffUnseen => Gives(LinearItems, LinearAftermath)

\* A record read through an index is the record the index names, or else an
\* error: attachment() and metadata() answer if and only if the index spans just
\* such a record, seek_message if and only if a message starts at the offset, and
\* read_message_indexes if and only if every offset is that of the channel's.
\* footer() finds the start of the summary section of every whole file.  Only an
\* index whose end or offset is beyond 64 bits, or a chunk's that is shorter than
\* an opcode and length, makes them panic.  Nothing is said of an index that goes
\* on to the lone opcode of a Chunk, DataEnd or Footer: EndsBetweenRecords is about
\* that.
ByIndexExact ==
    done =>
    CASE call.fn \in {"attachment", "metadata"} ->
           LET start == call.index.offset
               end   == start + call.index.length
               at    == {i \in DOMAIN mcap.items :
                          /\ mcap.items[i].k = "Record" /\ mcap.items[i].op = Wanted
                          /\ mcap.items[i].val.bad = "none"
                          /\ mcap.spans[i][1] = start}
               good  == {i \in at : mcap.spans[i][2] = end}
           IN /\ out[1] = Panic => Overflows(call.index)
              /\ ~(\E i \in at : CutAfterOpcode(i, end)) =>
                   IF good = {} THEN ~out[1].ok
                   ELSE out = <<Ok(mcap.items[Min(good)].val.val)>>
      [] call.fn \in {"stream_chunk", "seek_message"} /\ ~Covered(call.index) ->
           /\ ~out[1].ok
           /\ out[1] = Panic => Overflows(call.index) \/ call.index.length = 0
      [] call.fn = "seek_message" /\ Covered(call.index) ->
           LET c    == ChunkOf(call.index)
               good == {j \in DOMAIN c.records :
                          /\ c.records[j].k = "Record" /\ c.records[j].op = "Message"
                          /\ call.offset = FoldLeft(LAMBDA n, r : n + 1 + r.len, 0,
                                                    SubSeq(c.records, 1, j - 1))}
           IN IF good = {} THEN ~out[1].ok /\ out[1] # Panic
              ELSE out = <<WithChannel(c.records[Min(good)].val.val, call.channels)>>
      [] call.fn = "read_message_indexes" ->
           LET At0(e) == {i \in DOMAIN mcap.items :
                            /\ mcap.spans[i][1] = e.offset
                            /\ mcap.items[i].k = "Record" /\ mcap.items[i].op = "MessageIndex"
                            /\ mcap.items[i].val.val.channel_id = e.channel_id
                            /\ e.channel_id \in DOMAIN call.channels}
           IN /\ out[1].ok <=> call.offsets # <<>> /\ \A n \in DOMAIN call.offsets :
                                                        At0(call.offsets[n]) # {}
              /\ out[1] = Panic => \E e \in ToSet(call.offsets) : e.offset + 1 >= U64
      [] call.fn = "footer" ->
           IF Len(mcap.cells) < Last(mcap.spans)[2] THEN ~out[1].ok
           ELSE out[1].is.val = IF \E i \in DOMAIN mcap.items : i > 1 /\ mcap.items[i - 1].k = "DataEnd"
                                                      /\ mcap.items[i].k # "Footer"
                                THEN mcap.data_end ELSE 0
      [] OTHER -> TRUE

\* From some call on, next() returns nothing but this error.
OnlyEver(why) ==
    LET e == [kind |-> "Err", why |-> why] IN
    <>[](event \in {Call, e}) /\ []<>(event = e)

\* Every call returns, wherever the index points and whatever is wrong with the
\* records there.  The streams of messages come to their end; LinearReader and
\* stream_chunk, which have no flag to say that they are done, do so or return one
\* and the same error from every further call, since a slice that breaks off, or a
\* length that is too large, is found again.
SliceFinishes ==
    \/ <>done
    \/ /\ call.fn \in {"LinearReader", "stream_chunk"}
       /\ \/ OnlyEver("UnexpectedEof") \/ OnlyEver("UnexpectedEoc") \/ OnlyEver("RecordTooLarge")

\* "This stops at the end of the data section and does not read the summary."
StopsAtDataEnd ==
    call.fn = "MessageStream" => file_data.start <= mcap.data_end

\* The streams over a slice give what the file holds, with definitions that
\* are complete and never contradict each other.
StreamsExact == SliceTypeOK /\ StreamExact
===============================================================================
