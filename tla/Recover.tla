-------------------------------- MODULE Recover --------------------------------
(***************************************************************************)
(* `mcap recover` (recover.rs): copies every record that can still be read *)
(* of a damaged file.  The ids of schemas and channels are the writer's    *)
(* own; a channel whose schema has not been seen waits for it.             *)
(***************************************************************************)
EXTENDS Transcode

NewRecovery ==
    [schema_map |-> <<>>, channel_map |-> <<>>, seen_schemas |-> <<>>,
     seen_channels |-> <<>>, pending_channels |-> <<>>, warned |-> {}]

\* What a step makes of the recovery's state and the writer.
Step(st, w, res) == [st |-> st, w |-> w, res |-> res]

Without(map, id) == [i \in DOMAIN map \ {id} |-> map[i]]

\* write_channel_mapping
WriteChannelMapping(st, w, c) ==
    IF c.schema_id # 0 /\ ~Known(st.schema_map, c.schema_id) THEN Step(st, w, "Ok")
    ELSE LET schema == IF c.schema_id = 0 THEN 0 ELSE st.schema_map[c.schema_id]
             a == WriterAddChannel(w, ChannelContent(schema, c)) IN
         IF a.res # "Ok" THEN Step(st, a.w, a.res)
         ELSE Step([st EXCEPT !.channel_map = With(@, c.id, a.id),
                              !.seen_channels = With(@, c.id, c)], a.w, "Ok")

\* resolve_pending_channels: in the order of their ids.
ResolvePendingChannels(st, w, schema_id) ==
    LET waiting == {id \in DOMAIN st.pending_channels :
                      st.pending_channels[id].schema_id = schema_id}
        Resolve(s, id) ==
            IF s.res # "Ok" THEN s
            ELSE WriteChannelMapping([s.st EXCEPT !.pending_channels = Without(@, id)], s.w,
                                     s.st.pending_channels[id])
    IN Through(Resolve, Step(st, w, "Ok"), SetToSortSeq(waiting, LAMBDA a, b : a < b))

RegisterSchema_SlipNoPending(st, w, s) ==
    IF Known(st.seen_schemas, s.id) THEN Step(st, w, "Ok")
    ELSE LET a == WriterAddSchema(w, SchemaContent(s)) IN
         Step([st EXCEPT !.schema_map = With(@, s.id, a.id),
                         !.seen_schemas = With(@, s.id, s)], a.w, a.res)

\* register_schema: the first definition of an id is kept.
RegisterSchema(st, w, s) ==
    IF Known(st.seen_schemas, s.id) THEN Step(st, w, "Ok")
    ELSE LET a == WriterAddSchema(w, SchemaContent(s)) IN
         IF a.res # "Ok" THEN Step(st, a.w, a.res)
         ELSE ResolvePendingChannels([st EXCEPT !.schema_map = With(@, s.id, a.id),
                                                !.seen_schemas = With(@, s.id, s)], a.w, s.id)

\* register_channel
RegisterChannel(st, w, c) ==
    CASE Known(st.seen_channels, c.id) -> Step(st, w, "Ok")
      [] ~Known(st.seen_channels, c.id) /\ c.schema_id # 0
         /\ ~Known(st.schema_map, c.schema_id) ->
           Step([st EXCEPT !.pending_channels = With(@, c.id, c)], w, "Ok")
      [] OTHER -> WriteChannelMapping(st, w, c)

RecoverMessage_SlipOldId(st, w, m) ==
    IF ~Known(st.channel_map, m.channel_id)
    THEN Step([st EXCEPT !.warned = @ \cup {m.channel_id}], w, "Ok")
    ELSE Step(st, Emit(w, Rec("Message", m)), "Ok")

\* A message of a channel that is not mapped is skipped with one warning.
RecoverMessage(st, w, m) ==
    IF ~Known(st.channel_map, m.channel_id)
    THEN Step([st EXCEPT !.warned = @ \cup {m.channel_id}], w, "Ok")
    ELSE Step(st, Emit(w, Rec("Message", [m EXCEPT !.channel_id = st.channel_map[@]])), "Ok")

\* recover_record
RecoverRecord(st, w, r) ==
    CASE r.op = "Schema" -> RegisterSchema(st, w, r.v)
      [] r.op = "Channel" -> RegisterChannel(st, w, r.v)
      [] r.op = "Message" -> RecoverMessage(st, w, r.v)
      [] r.op \in {"Attachment", "Metadata"} -> Step(st, Emit(w, r), "Ok")
      [] OTHER -> Step(st, w, "Ok")

\* Whether any record was seen before this one.
SawAnyRecord == Len(todo) < Len(Flattened(input, FALSE))

RecoverNext ==
    /\ stage = "recover"
    /\ \/ /\ todo = <<>>
          /\ Ends("Ok")
          /\ UNCHANGED <<todo, local, writer>>
       \/ /\ todo # <<>> /\ Head(todo).op = "Broken"
          /\ Ends(IF SawAnyRecord THEN "Ok" ELSE "Unreadable")
          /\ UNCHANGED <<todo, local, writer>>
       \/ /\ todo # <<>> /\ Head(todo).op # "Broken"
          /\ LET s == RecoverRecord(local, writer, Head(todo)) IN
             /\ local' = s.st /\ writer' = s.w
             /\ IF s.res = "Ok" THEN UNCHANGED <<stage, result>> ELSE Ends(s.res)
          /\ todo' = Tail(todo)
    /\ UNCHANGED <<input, command>>

\* The output is created first.  recover_to_sink refuses a file without its
\* magic; chunk CRCs are ignored.
RecoverStart ==
    /\ stage = "start" /\ command.fn = "recover"
    /\ IF Head(input).op = "BadMagic"
       THEN Ends("BadMagic") /\ writer' = EmptyOutput /\ UNCHANGED <<todo, local>>
       ELSE /\ stage' = "recover" /\ todo' = Flattened(input, FALSE) /\ local' = NewRecovery
            /\ writer' = NewWriter(TRUE, HeaderOf(input))
            /\ UNCHANGED result
    /\ UNCHANGED <<input, command>>
===============================================================================
