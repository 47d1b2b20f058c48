-------------------------- MODULE ChannelAccumulator --------------------------
(***************************************************************************)
(* ChannelAccumulator of read.rs: the schemas and channels seen so far, by *)
(* id.  A definition seen again must say the same, and a channel's schema  *)
(* must have been seen before the channel.                                 *)
(***************************************************************************)
EXTENDS Naturals, Functions

NoChannels == [schemas |-> <<>>, channels |-> <<>>]

Accepted(acc) == [acc |-> acc, error |-> "none"]
Refused(acc, why) == [acc |-> acc, error |-> why]

Known(map, id) == id \in DOMAIN map

With(map, id, x) == [i \in DOMAIN map \cup {id} |-> IF i = id THEN x ELSE map[i]]

AddSchema_SlipReplace(acc, s) ==
    IF s.id = 0 THEN Refused(acc, "InvalidSchemaId")
    ELSE Accepted([acc EXCEPT !.schemas = With(@, s.id, s)])

AddSchema(acc, s) ==
    CASE s.id = 0 -> Refused(acc, "InvalidSchemaId")
      [] Known(acc.schemas, s.id) ->
           IF acc.schemas[s.id] = s THEN Accepted(acc) ELSE Refused(acc, "ConflictingSchemas")
      [] OTHER -> Accepted([acc EXCEPT !.schemas = With(@, s.id, s)])

AddChannel_SlipNoSchema(acc, c) ==
    CASE Known(acc.channels, c.id) ->
           IF acc.channels[c.id] = c THEN Accepted(acc) ELSE Refused(acc, "ConflictingChannels")
      [] OTHER -> Accepted([acc EXCEPT !.channels = With(@, c.id, c)])

AddChannel(acc, c) ==
    CASE c.schema_id # 0 /\ ~Known(acc.schemas, c.schema_id) -> Refused(acc, "UnknownSchema")
      [] Known(acc.channels, c.id) ->
           IF acc.channels[c.id] = c THEN Accepted(acc) ELSE Refused(acc, "ConflictingChannels")
      [] OTHER -> Accepted([acc EXCEPT !.channels = With(@, c.id, c)])
===============================================================================
