---------------------------- MODULE IndexedReader -----------------------------
(***************************************************************************)
(* The sans-I/O indexed reader of sans_io/indexed_reader.rs.  The reader   *)
(* knows the chunk indexes of the summary; it asks its client for chunks   *)
(* and yields the messages that pass a filter in the order asked for.  The *)
(* client may hand in chunks in any order, hand in data that is not what   *)
(* was asked for, and call next_event whenever it likes.                   *)
(*                                                                         *)
(* A chunk is named by its position in the file, which stands for          *)
(* chunk_start_offset and compressed_data_offset alike (both grow with     *)
(* it); an offset into a decompressed chunk is the position of a record.   *)
(* Lengths and record_length_limit are left out: a record over the limit   *)
(* is one more way for a chunk to be unreadable.                           *)
(***************************************************************************)
EXTENDS Integers, Sequences, FiniteSets, SequencesExt, Sorting

CONSTANTS Files,          \* the MCAP files considered
          Options,        \* the IndexedReaderOptions considered
          Topics,         \* topic names
          TopicOf,        \* topics of the channels in the summary
          NoFilter,       \* include_topics: None
          Defects,        \* what may be wrong with the data of a chunk
          OverflowChecks, \* is message_count -= 1 checked? (debug build)
          MaxUsize,       \* the largest usize
          MaxFaults       \* bound: insertions that fail

VARIABLES file,              \* the chunks of the file, in file order
          opts,              \* order and filter
          chunk_indexes,     \* chunks in the order they should be visited
          cur_chunk_index,   \* how many of those are done with
          chunk_slots,       \* decompressed chunks
          message_indexes,   \* messages of the slots, in the order to yield
          cur_message_index, \* how many of those are done with
          event,             \* result of the last call
          yielded,           \* history: the messages yielded
          faults,            \* history: the number of insertions that failed
          spoiled            \* history: one failed after it indexed messages

reader == <<chunk_indexes, cur_chunk_index, chunk_slots,
            message_indexes, cur_message_index>>
vars == <<file, opts, reader, event, yielded, faults, spoiled>>

Orders == {"LogTime", "ReverseLogTime", "File"}

\* No `start` is 0 and no `end` is a time later than any other.
OptionType == [order : Orders, start : Nat, end : Nat,
               include_topics : (SUBSET Topics) \cup {NoFilter}]

ASSUME ReaderAssumption ==
    /\ Options \subseteq OptionType
    /\ OverflowChecks \in BOOLEAN
    /\ MaxUsize \in Nat \ {0} /\ MaxFaults \in Nat

\* The chunks of a file are sequences of records, not more of them than memory
\* holds; log times are numbers.
ASSUME FilesAssumption ==
    \A f \in Files :
      /\ f.chunks \in Seq(ToSet(f.chunks))
      /\ \A c \in DOMAIN f.chunks :
           /\ f.chunks[c] \in Seq(ToSet(f.chunks[c]))
           /\ Len(f.chunks[c]) <= MaxUsize
           /\ \A at \in DOMAIN f.chunks[c] :
                f.chunks[c][at].op = "Message" => f.chunks[c][at].log_time \in Nat

-------------------------------------------------------------------------------
(* The file and its summary.                                               *)

Messages(chunk) == {at \in DOMAIN chunk : chunk[at].op = "Message"}

MinTime(chunk) ==
    LET t == {chunk[at].log_time : at \in Messages(chunk)}
    IN IF t = {} THEN 0 ELSE Min(t)

MaxTime(chunk) ==
    LET t == {chunk[at].log_time : at \in Messages(chunk)}
    IN IF t = {} THEN 0 ELSE Max(t)

\* The keys of message_index_offsets; a file may come without any.
IndexedChannels(f, c) ==
    IF f.message_indexes
    THEN {f.chunks[c][at].channel : at \in Messages(f.chunks[c])} ELSE {}

-------------------------------------------------------------------------------
(* Construction.                                                           *)

\* The channels that pass; the empty set lets every channel pass.
ChannelIds(o) ==
    IF o.include_topics = NoFilter THEN {}
    ELSE {c \in DOMAIN TopicOf : TopicOf[c] \in o.include_topics}


\* Slip: the inclusive start of the range taken for an exclusive one.
ChunkSelected_SlipBoundary(f, o, c) ==
    /\ MaxTime(f.chunks[c]) > o.start
    /\ MinTime(f.chunks[c]) < o.end
    /\ \/ ChannelIds(o) = {}
       \/ IndexedChannels(f, c) = {}
       \/ IndexedChannels(f, c) \cap ChannelIds(o) # {}

ChunkSelected(f, o, c) ==
    /\ MaxTime(f.chunks[c]) >= o.start
    /\ MinTime(f.chunks[c]) < o.end
    /\ \/ ChannelIds(o) = {}
       \/ IndexedChannels(f, c) = {}
       \/ IndexedChannels(f, c) \cap ChannelIds(o) # {}

\* (t, p) precedes (u, q).
Lexicographic(t, p, u, q) == t < u \/ (t = u /\ p < q)

ChunkBefore(f, o, c, d) ==
    CASE o.order = "File" -> c < d
      [] o.order = "LogTime" ->
           Lexicographic(MinTime(f.chunks[c]), c, MinTime(f.chunks[d]), d)
      [] o.order = "ReverseLogTime" ->
           Lexicographic(MaxTime(f.chunks[d]), d, MaxTime(f.chunks[c]), c)

ChunkOrder(f, o) ==
    SortedSet({c \in DOMAIN f.chunks : ChunkSelected(f, o, c)},
              LAMBDA c, d : ChunkBefore(f, o, c, d))

Init ==
    /\ file \in Files
    /\ opts \in Options
    /\ chunk_indexes = ChunkOrder(file, opts)
    /\ cur_chunk_index = 0
    /\ chunk_slots = <<>>
    /\ message_indexes = <<>>
    /\ cur_message_index = 0
    /\ event = [kind |-> "Created"]
    /\ yielded = <<>>
    /\ faults = 0
    /\ spoiled = FALSE

-------------------------------------------------------------------------------
(* next_event                                                              *)

Remaining == SubSeq(chunk_indexes, cur_chunk_index + 1, Len(chunk_indexes))

Unread == SubSeq(message_indexes, cur_message_index + 1, Len(message_indexes))

Panicked == event.kind \in {"PanicSlice", "PanicOpcode", "PanicOverflow"}

YieldChunkFirst(c, index) ==
    CASE opts.order = "File" -> c < chunk_slots[index.slot].data_start
      [] opts.order = "LogTime" -> MinTime(file.chunks[c]) < index.log_time
      [] opts.order = "ReverseLogTime" -> MaxTime(file.chunks[c]) > index.log_time

NeedsChunk ==
    /\ Remaining # <<>>
    /\ Unread # <<>> => YieldChunkFirst(Head(Remaining), Head(Unread))

ReadChunkRequest ==
    /\ ~Panicked
    /\ NeedsChunk
    /\ event' = [kind |-> "ReadChunkRequest", chunk |-> Head(Remaining)]
    /\ UNCHANGED <<file, opts, reader, yielded, faults, spoiled>>

Done ==
    /\ ~Panicked
    /\ Remaining = <<>> /\ Unread = <<>>
    /\ event' = [kind |-> "None"]
    /\ UNCHANGED <<file, opts, reader, yielded, faults, spoiled>>

\* message_count -= 1, as the build does it.
OneLess(count) == (count + MaxUsize) % (MaxUsize + 1)

\* The index does not lead to a message record of its slot.
Misread(index, buf) ==
    CASE index.offset > Len(buf) + 1 -> "PanicSlice"
      [] index.offset = Len(buf) + 1 -> "UnexpectedEoc"
      [] OTHER -> "PanicOpcode"

YieldMessage ==
    /\ ~Panicked
    /\ ~NeedsChunk
    /\ Unread # <<>>
    /\ LET index == Head(Unread)
           slot  == chunk_slots[index.slot]
       IN IF index.offset \notin Messages(slot.buf)
          THEN /\ event' = [kind |-> Misread(index, slot.buf)]
               /\ UNCHANGED <<reader, yielded>>
          ELSE /\ cur_message_index' = cur_message_index + 1
               /\ IF slot.message_count = 0 /\ OverflowChecks
                  THEN /\ event' = [kind |-> "PanicOverflow"]
                       /\ UNCHANGED <<chunk_slots, yielded>>
                  ELSE /\ chunk_slots' = [chunk_slots EXCEPT
                            ![index.slot].message_count = OneLess(@)]
                       /\ event' = [kind |-> "Message"]
                       /\ yielded' = Append(yielded,
                            [chunk |-> slot.data_start, at |-> index.offset])
               /\ UNCHANGED <<chunk_indexes, cur_chunk_index, message_indexes>>
    /\ UNCHANGED <<file, opts, faults, spoiled>>

NextEvent == ReadChunkRequest \/ YieldMessage \/ Done

-------------------------------------------------------------------------------
(* insert_chunk_record_data                                                *)


\* Slip: a slot counts as free while one message is left in it.
FreeSlots_SlipEarly == {s \in DOMAIN chunk_slots : chunk_slots[s].message_count <= 1}

\* The slot to use, and the slots with it prepared for chunk c.
FreeSlots == {s \in DOMAIN chunk_slots : chunk_slots[s].message_count = 0}

FindOrMakeChunkSlot == IF FreeSlots = {} THEN Len(chunk_slots) + 1
                       ELSE Min(FreeSlots)

Prepared(c, buf) ==
    LET slot == [data_start |-> c, buf |-> buf, message_count |-> 0]
    IN IF FreeSlots = {} THEN Append(chunk_slots, slot)
       ELSE [chunk_slots EXCEPT ![FindOrMakeChunkSlot] = slot]

Matches(rec) ==
    /\ rec.op = "Message"
    /\ rec.log_time < opts.end
    /\ rec.log_time >= opts.start
    /\ ChannelIds(opts) # {} => rec.channel \in ChannelIds(opts)

\* What the loop of index_messages pushes for the records of buf.
NewIndexes(s, buf) ==
    LET at == SortedSet({k \in DOMAIN buf : Matches(buf[k])}, <)
    IN [n \in DOMAIN at |->
          [slot |-> s, log_time |-> buf[at[n]].log_time, offset |-> at[n]]]

OutOfOrder(new) ==
    \E m, n \in DOMAIN new : m < n /\ new[n].log_time < new[m].log_time


\* Slip: the indexes that are still unread are forgotten.
SortingRequired_SlipOld(old, new) == opts.order # "File" /\ OutOfOrder(new)

SortingRequired(old, new) ==
    old # <<>> \/ (opts.order # "File" /\ OutOfOrder(new))

IndexBefore(slots, i, j) ==
    LET fileOrder(a, b) == Lexicographic(slots[a.slot].data_start, a.offset,
                                         slots[b.slot].data_start, b.offset)
    IN CASE opts.order = "File" -> fileOrder(i, j)
         [] opts.order = "LogTime" ->
              i.log_time < j.log_time \/ (i.log_time = j.log_time /\ fileOrder(i, j))
         [] opts.order = "ReverseLogTime" ->
              i.log_time > j.log_time \/ (i.log_time = j.log_time /\ fileOrder(j, i))

\* index_messages: the unread part of `old` (from `cur` on) merged with `new`.
Indexed(slots, old, cur, new) ==
    LET pushed == IF opts.order = "ReverseLogTime" THEN Reverse(new) ELSE new
        all    == old \o pushed
    IN IF SortingRequired(old, new)
       THEN SubSeq(all, 1, cur)
              \o StableSort(SubSeq(all, cur + 1, Len(all)),
                            LAMBDA i, j : IndexBefore(slots, i, j))
       ELSE all

\* The indexes that are kept when a chunk is about to be indexed.
Exhausted == cur_message_index >= Len(message_indexes)
Kept == IF Exhausted THEN <<>> ELSE message_indexes
KeptFrom == IF Exhausted THEN 0 ELSE cur_message_index


\* Slip: the search starts behind the next chunk.
StillNeeded_SlipFirst(c) == Remaining # <<>> /\ c \in Range(Tail(Remaining))

\* The linear search through the chunk indexes that are left.
StillNeeded(c) == c \in Range(Remaining)

\* The chunk is not one that is still needed, or its data has the wrong size.
RefuseChunk ==
    /\ event' = [kind |-> "UnexpectedChunkDataInserted"]
    /\ UNCHANGED <<reader, spoiled>>

\* Decompression failed: the slot stays free.
BadCompression(c) ==
    /\ chunk_slots' = Prepared(c, <<>>)
    /\ event' = [kind |-> "DecompressionError"]
    /\ UNCHANGED <<chunk_indexes, cur_chunk_index,
                   message_indexes, cur_message_index, spoiled>>

\* The data decompressed, but its records end in the middle: what was indexed
\* before the error stays indexed.
BadRecords(c, readable) ==
    LET buf == SubSeq(file.chunks[c], 1, readable)
        new == NewIndexes(FindOrMakeChunkSlot, buf)
    IN /\ chunk_slots' = Prepared(c, buf)
       /\ message_indexes' = Kept \o new
       /\ spoiled' = (spoiled \/ new # <<>>)
       /\ cur_message_index' = KeptFrom
       /\ event' = [kind |-> "UnexpectedEoc"]
       /\ UNCHANGED <<chunk_indexes, cur_chunk_index>>


\* Slip: the cursor is not set back.
Compact_SlipCursor(indexes, cur, count) ==
    IF count < cur THEN [indexes |-> SubSeq(indexes, cur + 1, Len(indexes)), cur |-> cur]
    ELSE [indexes |-> indexes, cur |-> cur]

\* Drop the read part of the indexes when it is longer than what was added.
Compact(indexes, cur, count) ==
    IF count < cur THEN [indexes |-> SubSeq(indexes, cur + 1, Len(indexes)), cur |-> 0]
    ELSE [indexes |-> indexes, cur |-> cur]

\* Where the search found the chunk.
Found(c) == Min({n \in DOMAIN Remaining : Remaining[n] = c})

\* The chunk is done with: the next one to visit, or one further on.
RemoveChunkIndex(c) ==
    IF Found(c) = 1
    THEN cur_chunk_index' = cur_chunk_index + 1 /\ UNCHANGED chunk_indexes
    ELSE /\ chunk_indexes' = RemoveAt(chunk_indexes, cur_chunk_index + Found(c))
         /\ UNCHANGED cur_chunk_index

LoadChunk(c) ==
    LET s     == FindOrMakeChunkSlot
        slots == Prepared(c, file.chunks[c])
        new   == NewIndexes(s, file.chunks[c])
        done  == Compact(Indexed(slots, Kept, KeptFrom, new), KeptFrom, Len(new))
    IN /\ chunk_slots' = [slots EXCEPT ![s].message_count = Len(new)]
       /\ message_indexes' = done.indexes
       /\ cur_message_index' = done.cur
       /\ RemoveChunkIndex(c)
       /\ event' = [kind |-> "Inserted"]
       /\ UNCHANGED spoiled

\* `readable` is how many records can be read before the defect.
InsertChunkRecordData(c, defect, readable) ==
    /\ ~Panicked
    /\ LET wanted == StillNeeded(c)
       IN /\ \/ /\ ~wanted \/ defect = "size"
                /\ RefuseChunk
             \/ wanted /\ defect = "compression" /\ BadCompression(c)
             \/ wanted /\ defect = "records" /\ BadRecords(c, readable)
             \/ wanted /\ defect = "none" /\ LoadChunk(c)
          /\ IF wanted /\ defect = "none" THEN faults' = faults
             ELSE faults < MaxFaults /\ faults' = faults + 1
    /\ UNCHANGED <<file, opts, yielded>>

InsertSome ==
    \E c \in DOMAIN file.chunks, defect \in Defects :
      \E readable \in 0..(Len(file.chunks[c]) - 1) :
        (defect = "records" \/ readable = 0)
          /\ InsertChunkRecordData(c, defect, readable)

\* The client hands in the chunk it was last asked for.
InsertRequested ==
    /\ event.kind = "ReadChunkRequest"
    /\ InsertChunkRecordData(event.chunk, "none", 0)

Next == NextEvent \/ InsertSome

\* The documented loop, by a client that hands in what it is asked for and
\* nothing else.
LoopNext == NextEvent \/ InsertRequested

LoopSpec == Init /\ [][LoopNext]_vars

\* The client's loop goes on: it calls next_event, and serves requests.
Fairness == WF_vars(NextEvent) /\ WF_vars(InsertRequested)

Spec == Init /\ [][Next]_vars /\ Fairness

-------------------------------------------------------------------------------
(* Properties.                                                             *)

\* A topic filter that none of the summary's channels passes.  The code takes it
\* for no filter at all, against its documentation (TopicsRespected).
MatchesNoTopic == opts.include_topics # NoFilter /\ ChannelIds(opts) = {}

\* The messages the options ask for, by their place in the file.
Asked(rec) ==
    /\ rec.op = "Message"
    /\ opts.start <= rec.log_time /\ rec.log_time < opts.end
    /\ \/ opts.include_topics = NoFilter
       \/ rec.channel \in DOMAIN TopicOf /\ TopicOf[rec.channel] \in opts.include_topics

Wanted ==
    UNION {{[chunk |-> c, at |-> k] :
              k \in {j \in DOMAIN file.chunks[c] : Asked(file.chunks[c][j])}} :
           c \in DOMAIN file.chunks}

TimeOf(y) == file.chunks[y.chunk][y.at].log_time

Earlier(x, y) == Lexicographic(x.chunk, x.at, y.chunk, y.at)

\* The fields have their types, and the two cursors stay within their lists.
TypeOK ==
    /\ cur_chunk_index \in 0..Len(chunk_indexes)
    /\ cur_message_index \in 0..Len(message_indexes)
    /\ \A c \in Range(chunk_indexes) : c \in DOMAIN file.chunks
    /\ \A s \in DOMAIN chunk_slots :
         /\ chunk_slots[s].data_start \in DOMAIN file.chunks
         /\ chunk_slots[s].message_count \in 0..MaxUsize
    /\ \A k \in DOMAIN message_indexes :
         message_indexes[k].slot \in DOMAIN chunk_slots

\* Whatever order chunks are handed in, and however often an insertion fails
\* (unless that leaves indexes behind), no message is yielded twice; and unless
\* no channel has one of the topics asked for, only messages that pass the
\* filter are yielded, and all of them when the reader says it is done.
YieldsExactly ==
    ~spoiled =>
      /\ IsInjective(yielded)
      /\ ~MatchesNoTopic => /\ Range(yielded) \subseteq Wanted
                            /\ event.kind = "None" => Range(yielded) = Wanted

\* The first message to be read of its chunk has this log time: the chunk may
\* be asked for only after every other message with that log time.
AtEdge(y) ==
    LET chunk == file.chunks[y.chunk]
    IN TimeOf(y) = IF opts.order = "LogTime" THEN MinTime(chunk) ELSE MaxTime(chunk)

\* y may come after x: it is later, or it is as late and follows in the file,
\* or it is as late and at the edge of another chunk.
MayFollow(x, y) ==
    CASE opts.order = "File" -> Earlier(x, y)
      [] opts.order = "LogTime" ->
           \/ TimeOf(x) < TimeOf(y)
           \/ /\ TimeOf(x) = TimeOf(y)
              /\ Earlier(x, y) \/ (x.chunk # y.chunk /\ AtEdge(y))
      [] opts.order = "ReverseLogTime" ->
           \/ TimeOf(x) > TimeOf(y)
           \/ /\ TimeOf(x) = TimeOf(y)
              /\ Earlier(y, x) \/ (x.chunk # y.chunk /\ AtEdge(y))

\* Messages come in the order asked for, however chunks overlap in time and
\* in whatever order they are handed in.  Messages with one log time come in
\* file order (in reverse, the later first), except that one at the edge of a
\* chunk may come late: the documentation's promise without that exception is
\* TiesInFileOrder, which the code breaks.
InReadOrder ==
    ~spoiled => \A m, n \in DOMAIN yielded :
                  m < n => MayFollow(yielded[m], yielded[n])

\* A slot counts exactly the unread messages that lie in it, so that it is
\* reused neither too early nor never; and every unread index leads to the
\* message it was made for.
SlotsCountUnread ==
    ~spoiled =>
      /\ \A s \in DOMAIN chunk_slots :
           chunk_slots[s].message_count =
             Cardinality({k \in DOMAIN Unread : Unread[k].slot = s})
      /\ \A k \in DOMAIN Unread :
           LET buf == chunk_slots[Unread[k].slot].buf
           IN /\ Unread[k].offset \in Messages(buf)
              /\ buf[Unread[k].offset].log_time = Unread[k].log_time

\* A client that serves the requests gets to the end.
Finishes == <>(event.kind = "None" \/ spoiled)

\* "For messages with equal log times, the message earlier in the underlying
\* file will be yielded first", and the later one in reverse order.
TiesInFileOrder ==
    \A m, n \in DOMAIN yielded :
      (m < n /\ opts.order # "File" /\ TimeOf(yielded[m]) = TimeOf(yielded[n]))
        => IF opts.order = "LogTime" THEN Earlier(yielded[m], yielded[n])
           ELSE Earlier(yielded[n], yielded[m])

\* "only messages on channels with topics contained in this set will be
\* yielded", also when no channel has one of the topics.
TopicsRespected ==
    opts.include_topics # NoFilter =>
      \A y \in Range(yielded) :
        TopicOf[file.chunks[y.chunk][y.at].channel] \in opts.include_topics

\* "invariant: message indexes should point to message records"
IndexesPointToMessages == event.kind # "PanicOpcode"

\* The reader's lists, cursors and slots are well formed, and a slot is
\* reused only when nothing in it is still to be read.
SlotsConsistent == TypeOK /\ SlotsCountUnread

\* Exactly the messages asked for come out, each once and in the order asked
\* for, ties included where the code keeps them in order, whatever order the
\* chunks are handed in.
YieldsInOrder == YieldsExactly /\ InReadOrder
===============================================================================
