--------------------------- MODULE MCIndexedReader ----------------------------
(***************************************************************************)
(* Small instances of the indexed reader: every file of a few chunks.      *)
(***************************************************************************)
EXTENDS IndexedReader

CONSTANTS Chunks,       \* bound: chunks in a file
          ChunkLength,  \* bound: messages in a chunk
          FileLength,   \* messages in a file
          Stamps        \* the (channel, log_time) pairs of messages

TopicMap == [c \in {1, 2} |-> IF c = 1 THEN "odd" ELSE "even"]

Message(stamp) == [op |-> "Message", channel |-> stamp[1], log_time |-> stamp[2]]

\* A record that is not a message.
Declaration == [op |-> "Channel", channel |-> 0, log_time |-> 0]

MessageRuns ==
    UNION {[1..n -> {Message(s) : s \in Stamps}] : n \in 0..ChunkLength}

\* Every chunk starts with a record that is not a message.
FileOf(runs) ==
    [chunks |-> [c \in DOMAIN runs |-> <<Declaration>> \o runs[c]],
     message_indexes |-> TRUE]

\* Every file with so many messages whose first and last chunk have one.
AllFiles ==
    {FileOf(f) : f \in {g \in [1..Chunks -> MessageRuns] :
                          /\ Len(FlattenSeq(g)) = FileLength
                          /\ g[1] # <<>>
                          /\ g[Chunks] # <<>>}}

\* And those with one message more in which a chunk spans all others in time.
Spans(run) == [k \in DOMAIN run |-> run[k].log_time] = <<1, 3>>

OverlappingFiles ==
    AllFiles \cup
    {FileOf(f) : f \in {g \in [1..Chunks -> MessageRuns] :
                          /\ Len(FlattenSeq(g)) = FileLength + 1
                          /\ \A c \in DOMAIN g : g[c] # <<>>
                          /\ \E c \in DOMAIN g : Spans(g[c])}}

\* Two chunks, with a declaration in the middle of the second.
MixedFiles ==
    {[chunks |-> <<<<m, m, m>>, <<m, Declaration, m>>>>, message_indexes |-> TRUE] :
       m \in {Message(s) : s \in Stamps}}

\* Every order, and a filter of each kind at its boundaries.
EveryOption ==
    {[order |-> "LogTime", start |-> 0, end |-> 9, include_topics |-> NoFilter],
     [order |-> "ReverseLogTime", start |-> 0, end |-> 9, include_topics |-> NoFilter],
     [order |-> "File", start |-> 2, end |-> 9, include_topics |-> NoFilter],
     [order |-> "LogTime", start |-> 1, end |-> 3, include_topics |-> {"odd"}]}

ThreeStamps == {<<1, 1>>, <<2, 2>>, <<1, 3>>}

LogTimeOnly == {[order |-> "LogTime", start |-> 0, end |-> 9, include_topics |-> NoFilter]}

\* A topic that no channel has.
NoSuchTopic == {[order |-> "File", start |-> 0, end |-> 9, include_topics |-> {"none"}]}

===============================================================================
