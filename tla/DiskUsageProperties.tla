-------------------------- MODULE DiskUsageProperties --------------------------
(* What `mcap du` promises.                                                *)
EXTENDS DiskUsage

-------------------------------------------------------------------------------
(* Reference definitions.                                                  *)

Of(records, op) == {i \in DOMAIN records : records[i].op = op}
Total(f, is) == FoldSet(LAMBDA i, n : n + f[i].size, 0, is)
SumMap(map) == FoldSet(LAMBDA k, n : n + map[k], 0, DOMAIN map)

\* The messages of a chunk by channel and where in the chunk they start.
MessagesIn(records) ==
    {[channel_id |-> records[i].v.channel_id, offset |-> records[i].offset] :
        i \in Of(records, "Message")}

\* What the writer makes of a file whose messages are all in chunks: the
\* indexes of each chunk follow it and list its messages, each once; the chunk
\* indexes and the channels of the summary are those of the data.
AsWritten(f) ==
    LET read == ReadSummary(f)
        indexes == read.chunk_indexes
        ChunkAt(k) == {i \in Of(f, "Chunk") : f[i].offset = indexes[k].start}
        Section(k) == Between(f, indexes[k].start + indexes[k].length,
                              indexes[k].start + indexes[k].length + indexes[k].index_length)
        Right(k, c) ==
            LET entries == Entries(Section(k).records) IN
            /\ indexes[k].length = c.size /\ indexes[k].uncompressed_size = c.v.uncompressed_size
            /\ \A i \in DOMAIN Section(k).records : Section(k).records[i].op = "MessageIndex"
            /\ ToSet(entries) = MessagesIn(c.v.records)
            /\ Len(entries) = Cardinality(MessagesIn(c.v.records))
            /\ \A i \in Of(c.v.records, "Channel") :
                 /\ Known(read.topics, c.v.records[i].v.id)
                 /\ read.topics[c.v.records[i].v.id] = c.v.records[i].v.topic
    IN /\ Of(f, "Message") = {} /\ indexes # <<>>
       /\ UNION {ChunkAt(k) : k \in DOMAIN indexes} = Of(f, "Chunk")
       /\ Len(indexes) = Cardinality(Of(f, "Chunk"))
       /\ \A k \in DOMAIN indexes : Section(k).whole /\ \A i \in ChunkAt(k) : Right(k, f[i])
       /\ SumOver(indexes, "index_length") = Total(f, Of(f, "MessageIndex"))

\* The bytes of definitions that come after a message of their chunk.
AfterMessages(f) ==
    LET late(records) == {i \in DOMAIN records : /\ records[i].op \notin {"Message", "Broken"}
                                                 /\ \E j \in Of(records, "Message") : j < i}
    IN FoldSet(LAMBDA i, n : n + Total(f[i].v.records, late(f[i].v.records)), 0, Of(f, "Chunk"))

ByThreads == worker # <<>>
Chunks == DOMAIN summary.chunk_indexes
Claimed == {i \in Chunks : i <= next_index}
Failing == {i \in Chunks : SizesOf(i).error # "none"}
Computing == {w \in DOMAIN worker : worker[w].at = "compute"}

\* What a thread has found of a topic and not handed in.
InHand(w, topic) == IF worker[w].at = "exited" THEN 0 ELSE At(worker[w].sizes, topic)

-------------------------------------------------------------------------------
\* The threads are where they can be, and only they touch what they share.
DuTypeOK ==
    /\ main \in {"start", "approximate", "exact", "topics", "scope", "done"}
    /\ usage.total_message_size \in Nat
    /\ Len(partials) <= Len(worker) /\ next_index <= Len(summary.chunk_indexes) + Len(worker)
    /\ \A w \in DOMAIN worker :
         /\ worker[w].at \in {"load", "claim", "compute", "report", "push", "exited"}
         /\ worker[w].index \in Chunks \cup {0}
    /\ main \notin {"scope", "done"} => worker = <<>>

\* No chunk is lost and none is counted twice, whichever way the threads
\* interleave: what they have found, in hand or handed in, is at any moment
\* the sum over the chunks claimed and gone through (du.rs:285-325).
NothingLost ==
    LET counted == (Claimed \ {worker[w].index : w \in Computing}) \ Failing
        found(topic) == Sum([w \in DOMAIN worker |-> InHand(w, topic)])
                        + Sum([p \in DOMAIN partials |-> At(partials[p].topics, topic)])
    IN ByThreads =>
       /\ \A v, w \in Computing : worker[v].index = worker[w].index => v = w
       /\ \A topic \in Range(summary.topics) :
            found(topic) = Sum([i \in Chunks |-> IF i \in counted THEN At(SizesOf(i).topics, topic) ELSE 0])

\* With threads du gives what it would give without: the same sizes, and an
\* error when some chunk has one.  Which chunk's error is reported may differ
\* from run to run.
ThreadsExact ==
    LET alone == Through(AddSizes, NoSizes, [i \in Chunks |-> SizesOf(i)]) IN
    main = "done" /\ ByThreads =>
        /\ IF Failing = {} THEN error = "none" ELSE error \in {SizesOf(i).error : i \in Failing}
        /\ error = "none" => /\ usage.topic_message_size = alone.topics
                             /\ usage.total_message_size = alone.total

\* On a file as the writer makes it, du --approximate succeeds if du does, and
\* shows the same sizes of the file, of its chunks and of its message indexes;
\* no topic smaller than it is, none that is not there, and all of them
\* together too large by exactly the definitions written between messages.
\* Either way the kinds of records make up the whole file.
ApproximateClose ==
    LET exact == CollectUsageExact(file)
        e == exact.usage
        scanned == ~approximate \/ summary.chunk_indexes = <<>>
        SameKind(op) == At(usage.record_kind_size, op) = At(e.record_kind_size, op) IN
    main = "done" =>
        /\ error = "none" => SumMap(usage.record_kind_size)
                             = usage.total_size - (IF scanned THEN 2 * MagicSize ELSE 0)
        /\ error = "none" => usage.total_size = FileSize(file)
        /\ error = "none" => SumMap(usage.topic_message_size) = usage.total_message_size
        /\ approximate /\ AsWritten(file) /\ exact.error = "none" =>
             /\ error = "none"
             /\ SameKind("Chunk") /\ SameKind("MessageIndex")
             /\ DOMAIN usage.topic_message_size \subseteq DOMAIN e.topic_message_size
             /\ \A t \in DOMAIN e.topic_message_size :
                  At(usage.topic_message_size, t) >= e.topic_message_size[t]
             /\ usage.total_message_size = e.total_message_size + AfterMessages(file)

\* du ends, whatever the threads find and in whatever order.
DuEnds == <>(main = "done")

\* While the threads run, what they hold and share adds up, and when they are
\* done they have found what one thread finds.
WorkersConsistent == DuTypeOK /\ NothingLost /\ ThreadsExact
===============================================================================
