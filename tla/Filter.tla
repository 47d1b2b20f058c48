-------------------------------- MODULE Filter --------------------------------
(***************************************************************************)
(* `mcap filter`, `compress` and `decompress` (filter.rs), and `mcap sort` *)
(* (sort.rs).  A file with chunk indexes is read through them in the order *)
(* of log time; any other file from start to end.                          *)
(***************************************************************************)
EXTENDS Transcode

\* build_filter_options: end 0 means no end.
End == IF command.end = 0 THEN MaxTime ELSE command.end

OptionsError ==
    CASE End < command.start -> "InvalidTimeRange"
      [] End >= command.start /\ command.include # {} /\ command.exclude # {} -> "OneOfTopics"
      [] OTHER -> "none"

\* include_topic
IncludeTopic(topic) ==
    CASE command.include # {} -> topic \in command.include
      [] command.include = {} /\ command.exclude # {} -> topic \notin command.exclude
      [] OTHER -> TRUE

HasTopicFilters == command.include # {} \/ command.exclude # {}

Within(t) == t >= command.start /\ t < End

Schemas == local.schemas
SchemaOf(schemas, c) == IF c.schema_id = 0 THEN <<>> ELSE <<schemas[c.schema_id]>>

Fails(why) == Ends(why) /\ UNCHANGED <<todo, local, writer>>

\* A message through the writer, unless it fails.
Put1(c, s, m) ==
    LET x == WriterWrite(writer, c, s, m) IN
    /\ writer' = x.w
    /\ IF x.res = "Ok" THEN UNCHANGED <<stage, result>> ELSE Ends(x.res)

-------------------------------------------------------------------------------
\* File::create, then filter_to_writer: the output is empty until the header of
\* the input has been read.
CreateOutput ==
    writer' = IF HeaderError(input) # "none" THEN EmptyOutput
              ELSE NewWriter(command.chunked, HeaderOf(input))

FilterStart ==
    /\ stage = "start" /\ command.fn = "filter"
    /\ IF OptionsError # "none" THEN UNCHANGED writer ELSE CreateOutput
    /\ LET s == ReadSummary(input)
           error == CASE OptionsError # "none" -> OptionsError
                      [] OptionsError = "none" /\ HeaderError(input) # "none" -> HeaderError(input)
                      [] OTHER -> s.error
           stop(why) == Ends(why) /\ UNCHANGED <<todo, local>>
       IN CASE error # "none" -> stop(error)
            [] error = "none" /\ ChunkIndexes(s) # <<>> ->
                 /\ stage' = "last per channel"
                 /\ local' = s /\ todo' = {}
                 /\ UNCHANGED result
            [] OTHER ->
                 IF command.last # {} THEN stop("NotSupported")
                 ELSE /\ stage' = "linear" /\ todo' = Flattened(input, TRUE)
                      /\ local' = [schemas |-> <<>>, channel_defs |-> <<>>, channels |-> <<>>]
                      /\ UNCHANGED result
    /\ UNCHANGED <<input, command>>

-------------------------------------------------------------------------------
(* filter_linear.                                                          *)

Resolve(c) == [channel |-> c, schema |-> SchemaOf(Schemas, c)]

Resolvable(c) == c.schema_id = 0 \/ Known(Schemas, c.schema_id)

LinearMessage(m) ==
    \/ /\ ~Within(m.log_time)
       /\ UNCHANGED <<local, writer, stage, result>>
    \/ /\ Within(m.log_time)
       /\ LET resolved == Known(local.channels, m.channel_id)
              defined == Known(local.channel_defs, m.channel_id)
              def == local.channel_defs[m.channel_id]
              usable == resolved \/ (defined /\ Resolvable(def))
              ch == IF resolved THEN local.channels[m.channel_id] ELSE Resolve(def) IN
          \/ /\ ~usable
             /\ Ends(IF defined THEN "UnknownSchema" ELSE "UnknownChannel")
             /\ UNCHANGED <<local, writer>>
          \/ /\ usable
             /\ local' = [local EXCEPT !.channels = With(@, m.channel_id, ch)]
             /\ IF IncludeTopic(ch.channel.topic) THEN Put1(ch.channel, ch.schema, m)
                ELSE UNCHANGED <<writer, stage, result>>

Definition(st) == local' = st /\ UNCHANGED <<writer, stage, result>>

LinearRecord(r) ==
    CASE r.op = "Schema" -> Definition([local EXCEPT !.schemas = With(@, r.v.id, r.v)])
      [] r.op = "Channel" ->
           Definition([local EXCEPT !.channel_defs = With(@, r.v.id, r.v),
                                    !.channels = IF Resolvable(r.v)
                                                 THEN With(@, r.v.id, Resolve(r.v)) ELSE @])
      [] r.op = "Message" -> LinearMessage(r.v)
      [] \/ r.op = "Metadata" /\ command.metadata
         \/ r.op = "Attachment" /\ command.attachments /\ Within(r.v.log_time) ->
           writer' = Emit(writer, r) /\ UNCHANGED <<local, stage, result>>
      [] r.op \in {"Broken", "Unparsable"} -> Ends("Unreadable") /\ UNCHANGED <<local, writer>>
      [] OTHER -> UNCHANGED <<local, writer, stage, result>>

FilterLinear ==
    /\ stage = "linear"
    /\ \/ todo = <<>> /\ Ends("Ok") /\ UNCHANGED <<todo, local, writer>>
       \/ todo # <<>> /\ LinearRecord(Head(todo)) /\ todo' = Tail(todo)
    /\ UNCHANGED <<input, command>>

-------------------------------------------------------------------------------
(* filter_indexed.  todo is the set of messages still to be yielded.       *)

ChannelOf(x) == local.acc.channels[x.m.channel_id]

IdsOf(topics) == {id \in DOMAIN local.acc.channels : local.acc.channels[id].topic \in topics}
Topics == {local.acc.channels[id].topic : id \in DOMAIN local.acc.channels}
IncludedTopics == {t \in Topics : IncludeTopic(t)}

\* The pass over what is before the start, from its end.
PendingChannels == IF command.start > 0 THEN IdsOf(IncludedTopics \cap command.last) ELSE {}
Before == [start |-> 0, end |-> {command.start}, ids |-> PendingChannels]

LastPerChannel_SlipFirst(early, id) ==
    {x \in early : x.m.channel_id = id /\ \A y \in early :
        y.m.channel_id = id => y.m.log_time >= x.m.log_time}

\* Which of several at the same time is the reader's choice.
LastPerChannel(early, id) ==
    {x \in early : x.m.channel_id = id /\ \A y \in early :
        y.m.channel_id = id => y.m.log_time <= x.m.log_time}

\* The pass ends when every channel has its message; a chunk is read before
\* any message earlier than its end.
LastFails(early) ==
    \E k \in Wanted(local, Before) :
        /\ ~Loads(input, ChunkIndexes(local)[k])
        /\ \E id \in PendingChannels :
             \A x \in LastPerChannel(early, id) : x.m.log_time < ChunkIndexes(local)[k].end

\* Then they are sorted.
Precedes(a, b) ==
    \/ a.m.log_time < b.m.log_time
    \/ a.m.log_time = b.m.log_time /\ a.m.channel_id < b.m.channel_id

WriteAll(w, xs) ==
    LET One(acc, x) ==
            IF acc.res # "Ok" THEN acc
            ELSE WriterWrite(acc.w, ChannelOf(x), SchemaOf(local.acc.schemas, ChannelOf(x)), x.m)
    IN Through(One, [w |-> w, res |-> "Ok"], xs)

\* The main pass.
Main == [start |-> command.start, end |-> IF End = MaxTime THEN {} ELSE {End},
         ids |-> IF HasTopicFilters THEN IdsOf(IncludedTopics) ELSE {}]

NoMain == HasTopicFilters /\ IncludedTopics = {}

FilterLast ==
    /\ stage = "last per channel"
    /\ \E early \in {IF PendingChannels = {} THEN {} ELSE Indexed(input, local, Before)} :
       IF LastFails(early) THEN Fails("Unreadable")
       ELSE LET found == {x.m.channel_id : x \in early} IN
            \E pick \in [found -> early] :
              /\ \A id \in found : pick[id] \in LastPerChannel(early, id)
              /\ LET x == WriteAll(writer, SetToSortSeq({pick[id] : id \in found}, Precedes)) IN
                 /\ writer' = x.w
                 /\ IF x.res = "Ok" THEN stage' = "indexed" /\ UNCHANGED result ELSE Ends(x.res)
              /\ todo' = IF NoMain THEN {} ELSE Indexed(input, local, Main)
              /\ UNCHANGED local
    /\ UNCHANGED <<input, command>>

Earliest1_SlipAny(xs) == xs

\* The next message in log time order; which of several at the same time is
\* the reader's choice.
Earliest1(xs) == {x \in xs : \A y \in xs : x.m.log_time <= y.m.log_time}

IndexedMessage ==
    /\ todo # {}
    /\ \E x \in Earliest1(todo) :
         /\ todo' = todo \ {x}
         /\ IF Known(local.acc.channels, x.m.channel_id)
            THEN Put1(ChannelOf(x), SchemaOf(local.acc.schemas, ChannelOf(x)), x.m)
            ELSE Ends("UnknownChannel") /\ UNCHANGED writer
    /\ UNCHANGED local

\* A chunk that cannot be read ends the command when the reader asks for it,
\* after any of the messages of the other chunks.
ChunkFails(q) == IndexedFails(input, local, q) /\ Fails("Unreadable")

FilterIndexed ==
    /\ stage = "indexed"
    /\ \/ IndexedMessage
       \/ ~NoMain /\ ChunkFails(Main)
       \/ /\ todo = {} /\ (NoMain \/ ~IndexedFails(input, local, Main))
          /\ stage' = "filter others"
          /\ UNCHANGED <<todo, local, writer, result>>
    /\ UNCHANGED <<input, command>>

\* read::attachment, read::metadata for an index, see SliceReaders.
Fetch(i) == IF i.offset \in DOMAIN input THEN input[i.offset] ELSE Broken

CopyIndexed(w, indexes, op) ==
    LET One(acc, i) ==
            CASE acc.res # "Ok" -> acc
              [] acc.res = "Ok" /\ Fetch(i).op = op -> [acc EXCEPT !.w = Emit(@, Fetch(i))]
              [] OTHER -> [acc EXCEPT !.res = "BadIndex"]
    IN Through(One, [w |-> w, res |-> "Ok"], indexes)

FilterOthers ==
    /\ stage = "filter others"
    /\ LET metadata == IF command.metadata THEN ByOffset(local, "MetadataIndex") ELSE <<>>
           attachments == IF command.attachments
                          THEN SelectSeq(ByOffset(local, "AttachmentIndex"),
                                         LAMBDA i : Within(i.of.log_time)) ELSE <<>>
           m == CopyIndexed(writer, metadata, "Metadata")
           a == IF m.res # "Ok" THEN m ELSE CopyIndexed(m.w, attachments, "Attachment")
       IN writer' = a.w /\ Ends(a.res)
    /\ UNCHANGED <<input, command, todo, local>>

-------------------------------------------------------------------------------
(* Sort.                                                                   *)

\* file_has_messages: a MessageStream's first item.
FindMessage(s, r) ==
    CASE s.error # "none" \/ s.found -> s
      [] s.error = "none" /\ ~s.found /\ r.op = "Message" ->
           IF Known(s.acc.channels, r.v.channel_id) THEN [s EXCEPT !.found = TRUE]
           ELSE [s EXCEPT !.error = "UnknownChannel"]
      [] OTHER -> Accumulate(s, r)

FirstMessage == Through(FindMessage, [found |-> FALSE, error |-> "none", acc |-> NoChannels],
                         Flattened(input, TRUE))

ValidateSortInput_SlipNoScan(s) == s.error

\* validate_sort_input: messages that no chunk index leads to would be lost.
ValidateSortInput(s) ==
    CASE s.error # "none" -> s.error
      [] s.error = "none" /\ ChunkIndexes(s) = <<>> ->
           CASE FirstMessage.found -> "NotIndexed"
             [] OTHER -> FirstMessage.error
      [] OTHER -> "none"

\* copy_linear_non_message_records, up to a record that cannot be read.
Fault == SelectInSeq(input, LAMBDA r : r.op \in {"Broken", "Unparsable", "BadMagic"})
Others == SelectSeq(IF Fault = 0 THEN input ELSE SubSeq(input, 1, Fault),
                    LAMBDA r : r.op \in {"Attachment", "Metadata"})

SortStart ==
    /\ stage = "start" /\ command.fn = "sort"
    /\ LET s == ReadSummary(input)
           error == ValidateSortInput(s)
           w == NewWriter(command.chunked, HeaderOf(input))
           a == CopyIndexed(w, ByOffset(s, "AttachmentIndex"), "Attachment")
           m == IF a.res # "Ok" THEN a
                ELSE CopyIndexed(a.w, ByOffset(s, "MetadataIndex"), "Metadata")
           stop(x, res) == writer' = x /\ Ends(res) /\ UNCHANGED <<todo, local>>
           header == HeaderError(input)
       IN CASE error # "none" -> stop(writer, error)
            [] error = "none" /\ header # "none" -> stop(EmptyOutput, header)
            [] error = "none" /\ header = "none" /\ ~s.present ->
                 stop([w EXCEPT !.out = Others], IF Fault = 0 THEN "Ok" ELSE "Unreadable")
            [] error = "none" /\ header = "none" /\ s.present /\ m.res # "Ok" -> stop(m.w, m.res)
            [] OTHER ->
                 /\ writer' = m.w /\ local' = s /\ todo' = Indexed(input, s, Everything)
                 /\ stage' = "sort messages" /\ UNCHANGED result
    /\ UNCHANGED <<input, command>>

SortMessages ==
    /\ stage = "sort messages"
    /\ \/ IndexedMessage
       \/ ChunkFails(Everything)
       \/ /\ todo = {} /\ ~IndexedFails(input, local, Everything)
          /\ Ends("Ok") /\ UNCHANGED <<todo, local, writer>>
    /\ UNCHANGED <<input, command>>
===============================================================================
