------------------------------- MODULE DiskUsage -------------------------------
(***************************************************************************)
(* `mcap du` (du.rs): how the bytes of a file divide among the kinds of    *)
(* records and among the topics, either exactly, by reading all of it, or  *)
(* approximately, from the chunk indexes of the summary and the message    *)
(* indexes, which worker threads go through in parallel.                   *)
(*                                                                         *)
(* A file is the sequence of its records, each with its op, where it       *)
(* starts, its size in bytes (envelope included) and what du needs of its  *)
(* body, v; so are the records of a chunk.  "Broken" is where LinearReader *)
(* or ChunkReader reports an error: a wrong CRC, for one.                  *)
(***************************************************************************)
EXTENDS ChannelAccumulator, Sorting, SequencesExt, FiniteSetsExt

CONSTANTS Files,      \* the files considered
          Parallelism \* available_parallelism

ASSUME ParallelismAssumption == Parallelism \in Nat \ {0}

\* The integers of a record, all of them unsigned.
RecordOK(r) ==
    /\ r.offset \in Nat /\ r.size \in Nat
    /\ r.op = "Message" => r.v.data \in Nat
    /\ r.op = "MessageIndex" => r.v.offsets \in Seq(Nat)
    /\ r.op = "ChunkIndex" => r.v.uncompressed_size \in Nat

RecordsOK(s) == s \in Seq(ToSet(s)) /\ \A i \in DOMAIN s : RecordOK(s[i])

ASSUME FilesAssumption ==
    \A f \in Files :
        /\ f # <<>> /\ RecordsOK(f)
        /\ \A i \in DOMAIN f : f[i].op = "Chunk" => RecordsOK(f[i].v.records)

VARIABLES file,          \* the file, memory-mapped, and ...
          approximate,   \* ... whether --approximate was given
          main,          \* where the main thread is,
          usage,         \* what it has found
          error,         \* or why it failed, and
          summary,       \* the chunk indexes, the topics, and what a thread
                         \* that goes through a chunk will find, the file
                         \* being read only
          worker,        \* the state of each worker thread
          next_index, stop, first_error, partials   \* what they share

vars == <<file, approximate, main, usage, error, summary, worker,
          next_index, stop, first_error, partials>>

MagicSize == 8
FooterRecordSize == 29
MessageOverhead == 31
MaxApproxWorkers == 16

\* A fold that evaluates every intermediate value once.
Through(Op(_, _), base, s) ==
    LET f[i \in 0..Len(s)] ==
            IF i = 0 THEN base ELSE CHOOSE y \in {Op(x, s[i]) : x \in {f[i - 1]}} : TRUE
    IN f[Len(s)]

At(map, key) == IF Known(map, key) THEN map[key] ELSE 0
Plus(map, key, n) == With(map, key, At(map, key) + n)
Merged(map, other) == [key \in DOMAIN map \cup DOMAIN other |-> At(map, key) + At(other, key)]

NoUsage == [total_size |-> 0, total_message_size |-> 0,
            record_kind_size |-> <<>>, topic_message_size |-> <<>>]

FileSize(f) == Last(f).offset + Last(f).size + MagicSize

Add(n, m) == n + m
Sum(s) == Through(Add, 0, s)
SumOver(s, field) == Sum([i \in DOMAIN s |-> s[i][field]])

-------------------------------------------------------------------------------
(* collect_usage_exact.                                                    *)

Failed(s, why) == [s EXCEPT !.error = why]

\* process_message
ProcessMessage(s, m) ==
    IF ~Known(s.channels, m.channel_id) THEN Failed(s, "UnknownChannel")
    ELSE [s EXCEPT !.usage.total_message_size = @ + m.data,
                   !.usage.topic_message_size = Plus(@, s.channels[m.channel_id], m.data)]

\* The part of a scan that is the same inside and outside of chunks.
ScanRecord(s, r) ==
    CASE s.error # "none" -> s
      [] s.error = "none" /\ r.op = "Broken" -> Failed(s, "Unreadable")
      [] s.error = "none" /\ r.op = "Channel" -> [s EXCEPT !.channels = With(@, r.v.id, r.v.topic)]
      [] s.error = "none" /\ r.op = "Message" -> ProcessMessage(s, r.v)
      [] OTHER -> s

\* One record at the top level; process_chunk for the records in a chunk.
ScanTopLevel(s, r) ==
    LET sized == [s EXCEPT !.usage.total_size = @ + r.size,
                           !.usage.record_kind_size = Plus(@, r.op, r.size)] IN
    CASE s.error # "none" -> s
      [] s.error = "none" /\ r.op = "Broken" -> Failed(s, "Unreadable")
      [] s.error = "none" /\ r.op = "Chunk" -> Through(ScanRecord, sized, r.v.records)
      [] OTHER -> ScanRecord(sized, r)

CollectUsageExact(f) ==
    Through(ScanTopLevel, [usage |-> [NoUsage EXCEPT !.total_size = 2 * MagicSize],
                           channels |-> <<>>, error |-> "none"], f)

-------------------------------------------------------------------------------
(* compute_topic_sizes_for_chunk.                                          *)

Sizes(topics, total, why) == [topics |-> topics, total |-> total, error |-> why]
NoSizes == Sizes(<<>>, 0, "none")

EntriesOf(s, r) ==
    s \o [j \in DOMAIN r.v.offsets |-> [offset |-> r.v.offsets[j], channel_id |-> r.v.channel_id]]
Entries(indexes) == Through(EntriesOf, <<>>, indexes)

SizeOfEntry_SlipLastIsEmpty(entries, i, uncompressed_size) ==
    IF i < Len(entries) THEN entries[i + 1].offset - entries[i].offset ELSE 0

\* A message reaches to the next one, the last one to the end of the chunk.
SizeOfEntry(entries, i, uncompressed_size) ==
    (IF i < Len(entries) THEN entries[i + 1].offset ELSE uncompressed_size) - entries[i].offset

ByOffset(entries) == StableSort(entries, LAMBDA a, b : a.offset < b.offset)

Sized(entries, uncompressed_size) ==
    [i \in DOMAIN entries |->
        [entry |-> entries[i], size |-> SizeOfEntry(entries, i, uncompressed_size)]]

AddEntry(topics, uncompressed_size, s, e) ==
    CASE s.error # "none" -> s
      [] s.error = "none" /\ e.entry.offset > uncompressed_size -> Failed(s, "OffsetBeyondChunk")
      [] s.error = "none" /\ e.entry.offset <= uncompressed_size /\ e.size <= MessageOverhead -> s
      [] OTHER ->
           IF ~Known(topics, e.entry.channel_id) THEN Failed(s, "UnknownChannel")
           ELSE Sizes(Plus(s.topics, topics[e.entry.channel_id], e.size - MessageOverhead),
                      s.total + (e.size - MessageOverhead), "none")

\* parse_chunk_message_indexes, of the records it is given.
ParseChunkMessageIndexes(indexes, uncompressed_size, topics) ==
    IF \E i \in DOMAIN indexes : indexes[i].op # "MessageIndex" THEN Sizes(<<>>, 0, "BadMessageIndex")
    ELSE Through(LAMBDA s, e : AddEntry(topics, uncompressed_size, s, e), NoSizes,
                 Sized(ByOffset(Entries(indexes)), uncompressed_size))

\* The records between two offsets; an offset within a record makes the
\* bytes there anything but records.
Between(f, start, end) ==
    LET inside == {i \in DOMAIN f : f[i].offset >= start /\ f[i].offset + f[i].size <= end}
        records == IF inside = {} THEN <<>> ELSE SubSeq(f, Min(inside), Max(inside)) IN
    [records |-> records,
     whole |-> SumOver(records, "size") = end - start]

ComputeTopicSizesForChunk(f, chunk, topics) ==
    LET start == chunk.start + chunk.length
        end == start + chunk.index_length
        section == Between(f, start, end) IN
    CASE chunk.index_length = 0 -> NoSizes
      [] chunk.index_length > 0 /\ end > FileSize(f) -> Sizes(<<>>, 0, "BeyondFile")
      [] chunk.index_length > 0 /\ end <= FileSize(f) /\ ~section.whole -> Sizes(<<>>, 0, "BadMessageIndex")
      [] OTHER -> ParseChunkMessageIndexes(section.records, chunk.uncompressed_size, topics)

-------------------------------------------------------------------------------
(* The main thread.                                                        *)

AccumulateDefinition(s, r) ==
    CASE s.error # "none" -> s
      [] s.error = "none" /\ r.op = "Broken" -> Failed(s, "Unreadable")
      [] s.error = "none" /\ r.op = "Schema" -> AddSchema(s.acc, r.v)
      [] s.error = "none" /\ r.op = "Channel" -> AddChannel(s.acc, r.v)
      [] OTHER -> s

\* Summary::read and footer: what there is of a summary with chunk indexes.
ReadSummary(f) ==
    LET start == {i \in DOMAIN f : f[i].offset = Last(f).v.summary_start}
        tail == SubSeq(f, Max(start), Len(f))
        read == Through(AccumulateDefinition, [acc |-> NoChannels, error |-> "none"], tail)
        indexes == FlattenSeq([i \in DOMAIN tail |->
                                 IF tail[i].op = "ChunkIndex" THEN <<tail[i].v>> ELSE <<>>])
        none == [chunk_indexes |-> <<>>, topics |-> <<>>, sizes |-> <<>>]
    IN CASE Last(f).op # "Footer" -> none
         [] Last(f).op = "Footer" /\ (start = {} \/ read.error # "none") -> none
         [] OTHER -> [chunk_indexes |-> indexes,
                      topics |-> [id \in DOMAIN read.acc.channels |-> read.acc.channels[id].topic],
                      sizes |-> <<>>]

\* The kinds of records as far as the summary tells, the rest being "other".
KindsFromSummary(f, indexes) ==
    LET chunks == SumOver(indexes, "length")
        message_indexes == SumOver(indexes, "index_length")
        summary_section == FileSize(f) - MagicSize - FooterRecordSize - Last(f).v.summary_start
        other == FileSize(f) - chunks - message_indexes - summary_section
    IN [kinds |-> [k \in {"Chunk", "MessageIndex", "summary section", "other"} |->
                     CASE k = "Chunk" -> chunks [] k = "MessageIndex" -> message_indexes
                       [] k = "other" -> other [] OTHER -> summary_section],
        exceeds |-> other < 0]

NewWorker == [at |-> "load", index |-> 0, sizes |-> <<>>, total |-> 0, error |-> "none"]

WorkerCount(indexes) == Min({Parallelism, MaxApproxWorkers, Len(indexes)})

Init ==
    /\ file \in Files /\ approximate \in BOOLEAN
    /\ main = "start" /\ usage = NoUsage /\ error = "none"
    /\ summary = [chunk_indexes |-> <<>>, topics |-> <<>>, sizes |-> <<>>]
    /\ worker = <<>> /\ next_index = 0 /\ stop = FALSE /\ first_error = "none" /\ partials = <<>>

Finish(why) == main' = "done" /\ error' = why

\* run: --approximate falls back to the exact scan when there is no summary with
\* chunk indexes.
Start ==
    /\ main = "start"
    /\ summary' = IF approximate THEN ReadSummary(file) ELSE summary
    /\ main' = IF approximate /\ summary'.chunk_indexes # <<>> THEN "approximate" ELSE "exact"
    /\ UNCHANGED <<file, approximate, usage, error, worker, next_index, stop, first_error, partials>>

\* collect_usage_approximate up to the topics.
Approximate ==
    /\ main = "approximate"
    /\ LET k == KindsFromSummary(file, summary.chunk_indexes) IN
       /\ summary' = [summary EXCEPT !.sizes =
             [i \in DOMAIN summary.chunk_indexes |->
                 ComputeTopicSizesForChunk(file, summary.chunk_indexes[i], summary.topics)]]
       /\ usage' = [NoUsage EXCEPT !.total_size = FileSize(file), !.record_kind_size = k.kinds]
       /\ IF k.exceeds THEN Finish("ExceedsFileSize")
          ELSE main' = "topics" /\ UNCHANGED error
    /\ UNCHANGED <<file, approximate, worker, next_index, stop, first_error, partials>>

Exact ==
    /\ main = "exact"
    /\ LET s == CollectUsageExact(file) IN
       /\ usage' = s.usage
       /\ Finish(s.error)
    /\ UNCHANGED <<file, approximate, summary, worker, next_index, stop, first_error, partials>>

WithTopics(sizes) ==
    [usage EXCEPT !.topic_message_size = sizes.topics, !.total_message_size = sizes.total]

AddSizes(s, x) ==
    IF s.error # "none" THEN s ELSE Sizes(Merged(s.topics, x.topics), s.total + x.total, x.error)

SizesOf(i) == summary.sizes[i]

\* compute_topic_sizes_from_index, without threads ...
Sequential ==
    /\ main = "topics" /\ WorkerCount(summary.chunk_indexes) <= 1
    /\ LET s == Through(AddSizes, NoSizes, [i \in DOMAIN summary.chunk_indexes |-> SizesOf(i)]) IN
       /\ usage' = WithTopics(s)
       /\ Finish(s.error)
    /\ UNCHANGED <<file, approximate, summary, worker, next_index, stop, first_error, partials>>

\* ... or with them.
Spawn ==
    /\ main = "topics" /\ WorkerCount(summary.chunk_indexes) > 1
    /\ worker' = [w \in 1..WorkerCount(summary.chunk_indexes) |-> NewWorker]
    /\ main' = "scope"
    /\ UNCHANGED <<file, approximate, usage, error, summary, next_index, stop, first_error, partials>>

\* The end of the scope waits for every thread.
Join ==
    /\ main = "scope" /\ \A w \in DOMAIN worker : worker[w].at = "exited"
    /\ LET s == Through(AddSizes, NoSizes, partials) IN
       /\ usage' = IF first_error = "none" THEN WithTopics(s) ELSE usage
       /\ Finish(first_error)
    /\ UNCHANGED <<file, approximate, summary, worker, next_index, stop, first_error, partials>>

-------------------------------------------------------------------------------
(* A worker.  Its steps are the accesses to what the threads share.        *)

Goes(w, at) == worker' = [worker EXCEPT ![w].at = at]
WorkerStep == UNCHANGED <<file, approximate, main, usage, error, summary>>

\* A relaxed load: what another thread has stored may not be seen yet.
LoadStop(w) ==
    /\ worker[w].at = "load"
    /\ Goes(w, "claim") \/ (stop /\ Goes(w, "push"))
    /\ WorkerStep /\ UNCHANGED <<next_index, stop, first_error, partials>>

Claims(w, i, last) ==
    /\ worker[w].at = "claim"
    /\ next_index' = next_index + 1
    /\ IF i > last THEN Goes(w, "push")
       ELSE worker' = [worker EXCEPT ![w].at = "compute", ![w].index = i]
    /\ WorkerStep /\ UNCHANGED <<stop, first_error, partials>>

Claim_SlipSkipsLast(w) == Claims(w, next_index + 1, Len(summary.chunk_indexes) - 1)

Claim_SlipPastEnd(w) == Claims(w, next_index + 1, Len(summary.chunk_indexes) + 1)

Claim_SlipContinue(w) ==
    \/ next_index < Len(summary.chunk_indexes) /\ Claims(w, next_index + 1, Len(summary.chunk_indexes))
    \/ /\ next_index >= Len(summary.chunk_indexes) /\ worker[w].at = "claim" /\ Goes(w, "load")
       /\ WorkerStep /\ UNCHANGED <<next_index, stop, first_error, partials>>

\* next_index.fetch_add; chunks are counted from 1 here.
Claim(w) == Claims(w, next_index + 1, Len(summary.chunk_indexes))

Compute_SlipReplaces(w) ==
    /\ worker[w].at = "compute"
    /\ LET x == SizesOf(worker[w].index) IN
       worker' = [worker EXCEPT ![w].at = IF x.error = "none" THEN "load" ELSE "push",
                                ![w].sizes = x.topics, ![w].total = x.total]
    /\ WorkerStep /\ UNCHANGED <<next_index, stop, first_error, partials>>

\* The sizes of the chunk, which nothing else touches, then stop.store if
\* there are none.
Compute(w) ==
    /\ worker[w].at = "compute"
    /\ \E x \in {SizesOf(worker[w].index)} :
       \/ /\ x.error = "none"
          /\ worker' = [worker EXCEPT ![w].at = "load", ![w].sizes = Merged(@, x.topics),
                                      ![w].total = @ + x.total]
          /\ UNCHANGED stop
       \/ /\ x.error # "none"
          /\ worker' = [worker EXCEPT ![w].at = "report", ![w].error = x.error]
          /\ stop' = TRUE
    /\ WorkerStep /\ UNCHANGED <<next_index, first_error, partials>>

\* Under the lock of first_error.
ReportError(w) ==
    /\ worker[w].at = "report" /\ Goes(w, "push")
    /\ first_error' = IF first_error = "none" THEN worker[w].error ELSE first_error
    /\ WorkerStep /\ UNCHANGED <<next_index, stop, partials>>

\* Under the lock of partials.
Push(w) ==
    /\ worker[w].at = "push" /\ Goes(w, "exited")
    /\ partials' = IF worker[w].sizes = <<>> /\ worker[w].total = 0 THEN partials
                   ELSE Append(partials, Sizes(worker[w].sizes, worker[w].total, "none"))
    /\ WorkerStep /\ UNCHANGED <<next_index, stop, first_error>>

WorkerNext(w) == LoadStop(w) \/ Claim(w) \/ Compute(w) \/ ReportError(w) \/ Push(w)

MainNext == Start \/ Approximate \/ Exact \/ Sequential \/ Spawn \/ Join

Next == MainNext \/ \E w \in DOMAIN worker : WorkerNext(w)

\* Some thread that can run does.
Spec == Init /\ [][Next]_vars /\ WF_vars(Next)
===============================================================================
