--------------------------------- MODULE Amend ---------------------------------
(***************************************************************************)
(* `mcap add attachment` and `mcap add metadata` (mcap_cli,                *)
(* add_common.rs): the tail of the file, from its DataEnd record on, is    *)
(* saved to a backup and then overwritten in place with the new records    *)
(* and a new summary.  A write may stop after any of its cells: the        *)
(* process dies, the disk is full or the power fails.                      *)
(*                                                                         *)
(* A file is a sequence of cells.  A record is a cell with its opcode and  *)
(* length and `len` cells of body.  A CRC is the sequence of cells it was  *)
(* computed over, <<>> when it is 0.                                       *)
(***************************************************************************)
EXTENDS Integers, Sequences, FiniteSets, SequencesExt, ChannelAccumulator, Sorting

CONSTANTS Files,      \* the files to be amended
          Jobs,       \* what is added by a command: [attachments, metadata]
          MaxCount,   \* u32::MAX, where the counts of the statistics saturate
          Page,       \* cells the system writes to the disk together
          MaxRuns     \* bound: commands

ASSUME AmendConstants == MaxCount \in Nat /\ Page \in Nat \ {0} /\ MaxRuns \in Nat

\* A file is a sequence of cells.  Its footer, if it has one, is the record at
\* its end, and what a chunk holds is a sequence of records.
ASSUME FilesAssumption ==
    \A f \in Files :
       /\ f # <<>> /\ f \in Seq(ToSet(f))
       /\ \A i \in DOMAIN f :
             /\ DOMAIN f[i] = {"Footer"} =>
                  /\ i = Len(f) - 1 /\ i > 1 /\ "op" \in DOMAIN f[i - 1]
                  /\ f[i].Footer.v.summary_start \in Nat
             /\ DOMAIN f[i] = {"Chunk"} => f[i].Chunk.v \in Seq(ToSet(f[i].Chunk.v))

ASSUME JobsAssumption ==
    \A j \in Jobs :
       /\ DOMAIN j = {"attachments", "metadata"}
       /\ j.attachments \in Seq(ToSet(j.attachments))
       /\ \A a \in ToSet(j.attachments) : a.size \in Nat \ {0}
       /\ j.metadata \in Seq(ToSet(j.metadata))

VARIABLES file,       \* the file as processes see it
          durable,    \* the file as it is on the disk
          backups,    \* for each command its backup: [cells, synced]
          run,        \* the command that is running
          outcome,    \* how the last one ended
          before,     \* history: the file the last command found
          job,        \* history: what it was to add
          safe,       \* history: the file, or what the last command to succeed made of it
          lost        \* history: the power failed

vars == <<file, durable, backups, run, outcome, before, job, safe, lost>>

-------------------------------------------------------------------------------
(* Records in a file.                                                      *)

Magic == [magic |-> TRUE]
Part(op, v, i) == [x \in {op} |-> [v |-> v, i |-> i]]

\* append_record, for a body of n cells.
Record(op, v, n) == <<[op |-> op, len |-> n]>> \o [i \in 1..n |-> Part(op, v, i)]

DATA_END_RECORD_LEN == 2
FOOTER_RECORD_LEN == 2

\* The cell at an offset.
At(cells, off) == cells[off + 1]

IsRecord(cells, off) ==
    /\ off \in 0..(Len(cells) - 1)
    /\ "op" \in DOMAIN At(cells, off)
    /\ LET head == At(cells, off) IN
       /\ head.len \in 1..(Len(cells) - off - 1)
       /\ \A i \in 1..head.len :
             /\ DOMAIN At(cells, off + i) = {head.op}
             /\ At(cells, off + i)[head.op] = [v |-> At(cells, off + 1)[head.op].v, i |-> i]

RecordAt(cells, off) ==
    LET head == At(cells, off) IN
    [op |-> head.op, v |-> At(cells, off + 1)[head.op].v, at |-> off, len |-> 1 + head.len]

Garbage == [op |-> "Garbage", at |-> 0, len |-> 0]

\* The records from an offset up to the footer, or up to what is not a record.
RecordsFrom(cells, from) ==
    LET Walk[off \in 0..(Len(cells) + 1)] ==
            IF ~IsRecord(cells, off) THEN <<Garbage>>
            ELSE LET r == RecordAt(cells, off) IN
                 IF r.op = "Footer" THEN <<r>> ELSE <<r>> \o Walk[off + r.len]
    IN Walk[Min({from, Len(cells) + 1})]

HasFooter(cells) ==
    /\ Len(cells) >= 1 + FOOTER_RECORD_LEN + 1
    /\ cells[1] = Magic /\ Last(cells) = Magic
    /\ DOMAIN cells[Len(cells) - 1] = {"Footer"}

Footer(cells) == cells[Len(cells) - 1].Footer.v

-------------------------------------------------------------------------------
(* parse_existing_layout.                                                  *)

DataEndOffset(cells) ==
    IF Footer(cells).summary_start > 0 THEN Footer(cells).summary_start - DATA_END_RECORD_LEN
    ELSE Len(cells) - 1 - FOOTER_RECORD_LEN - DATA_END_RECORD_LEN

ParseDataEnd_SlipAnyRecord(cells, off) == off \in 0..(Len(cells) - 1)

\* parse_data_end finds a DataEnd record there.
ParseDataEnd(cells, off) ==
    /\ IsRecord(cells, off)
    /\ RecordAt(cells, off).op = "DataEnd"

HasLayout(cells) == HasFooter(cells) /\ ParseDataEnd(cells, DataEndOffset(cells))

Layout(cells) ==
    LET off == DataEndOffset(cells)
        crc == IF IsRecord(cells, off) THEN RecordAt(cells, off).v ELSE <<>> IN
    [old_data_end_offset |-> off,
     old_data_end_crc |-> crc,
     emit_summary_offsets |-> Footer(cells).summary_offset_start # 0,
     data_crc_enabled |-> crc # <<>>,
     summary_crc_enabled |-> Footer(cells).summary_crc # <<>>]

-------------------------------------------------------------------------------
(* collect_existing_summary.                                               *)

NoSummary ==
    [statistics |-> <<>>, acc |-> NoChannels, chunk_indexes |-> <<>>,
     attachment_indexes |-> <<>>, metadata_indexes |-> <<>>, error |-> "none"]

\* A definition goes into a map by its id, as `add` says.
Define(data, res) ==
    [data EXCEPT !.acc = res.acc, !.error = IF @ = "none" THEN res.error ELSE @]

CollectIndex(data, r) ==
    CASE r.op = "Statistics" -> [data EXCEPT !.statistics = <<r.v>>]
      [] r.op = "ChunkIndex" -> [data EXCEPT !.chunk_indexes = Append(@, r.v)]
      [] r.op = "AttachmentIndex" -> [data EXCEPT !.attachment_indexes = Append(@, r.v)]
      [] r.op = "MetadataIndex" -> [data EXCEPT !.metadata_indexes = Append(@, r.v)]
      [] r.op = "Garbage" -> [data EXCEPT !.error = "record"]
      [] OTHER -> data

\* Summary::read, see SummaryReader.
ReadSummaryRecord(data, r) ==
    CASE r.op = "Schema" -> Define(data, AddSchema(data.acc, r.v))
      [] r.op = "Channel" -> Define(data, AddChannel(data.acc, r.v))
      [] OTHER -> CollectIndex(data, r)

\* collect_record: the first definition of an id stays, another one is refused.
Insert(map, x) ==
    IF ~Known(map, x.id) THEN [map |-> With(map, x.id, x), error |-> "none"]
    ELSE [map |-> map, error |-> IF map[x.id] = x THEN "none" ELSE "conflict"]

CollectRecord(data, r) ==
    CASE r.op = "Schema" ->
           LET ins == Insert(data.acc.schemas, r.v) IN
           Define(data, [acc |-> [data.acc EXCEPT !.schemas = ins.map], error |-> ins.error])
      [] r.op = "Channel" ->
           LET ins == Insert(data.acc.channels, r.v) IN
           Define(data, [acc |-> [data.acc EXCEPT !.channels = ins.map], error |-> ins.error])
      [] OTHER -> CollectIndex(data, r)

\* Also the records inside a chunk.
CollectNested(data, r) ==
    IF r.op = "Chunk" THEN FoldLeft(CollectRecord, data, r.v) ELSE CollectRecord(data, r)

CollectExistingSummary(cells) ==
    IF Footer(cells).summary_start # 0
    THEN FoldLeft(ReadSummaryRecord, NoSummary, RecordsFrom(cells, Footer(cells).summary_start))
    ELSE FoldLeft(CollectNested, NoSummary, RecordsFrom(cells, 1))

-------------------------------------------------------------------------------
(* build_summary_bytes.                                                    *)

ById(map) ==
    LET ids == SortedSet(DOMAIN map, LAMBDA a, b : a < b) IN
    [i \in DOMAIN ids |-> map[ids[i]]]

MergeIndexes(old, new) == StableSort(old \o new, LAMBDA a, b : a.offset < b.offset)

Groups(data, attachments, metadata) ==
    << <<"Schema", ById(data.acc.schemas)>>,
       <<"Channel", ById(data.acc.channels)>>,
       <<"Statistics", data.statistics>>,
       <<"ChunkIndex", data.chunk_indexes>>,
       <<"AttachmentIndex", MergeIndexes(data.attachment_indexes, attachments)>>,
       <<"MetadataIndex", MergeIndexes(data.metadata_indexes, metadata)>> >>

\* One group of records of the same opcode, and its summary offset.
AddGroup(build, group) ==
    IF group[2] = <<>> THEN build
    ELSE LET bytes == FlattenSeq([i \in DOMAIN group[2] |-> Record(group[1], group[2][i], 1)]) IN
         [build EXCEPT !.bytes = @ \o bytes,
                       !.offsets = Append(@, [op |-> group[1],
                                              start |-> build.start + Len(build.bytes),
                                              length |-> Len(bytes)])]

BuildSummary(data, attachments, metadata, start, emit) ==
    LET build == FoldLeft(AddGroup, [bytes |-> <<>>, offsets |-> <<>>, start |-> start],
                          Groups(data, attachments, metadata))
        emits == emit /\ build.offsets # <<>>
        offsets == [i \in DOMAIN build.offsets |-> Record("SummaryOffset", build.offsets[i], 1)]
    IN [bytes |-> IF emits THEN build.bytes \o FlattenSeq(offsets) ELSE build.bytes,
        summary_start |-> IF build.offsets = <<>> THEN 0 ELSE start,
        summary_offset_start |-> IF emits THEN start + Len(build.bytes) ELSE 0]

\* compute_summary_crc: the summary and the footer up to the CRC itself.
SummaryCrc(build) ==
    Append(build.bytes, [footer |-> <<build.summary_start, build.summary_offset_start>>])

FooterRecord(layout, build) ==
    Record("Footer",
           [summary_start |-> build.summary_start,
            summary_offset_start |-> build.summary_offset_start,
            summary_crc |-> IF layout.summary_crc_enabled THEN SummaryCrc(build) ELSE <<>>], 1)

\* u32::saturating_add.
SaturatingAdd(a, b) == Min({a + b, MaxCount})

AddToStatistics(data, n, m) ==
    IF data.statistics = <<>> THEN data
    ELSE [data EXCEPT !.statistics[1].attachment_count = SaturatingAdd(@, n),
                      !.statistics[1].metadata_count = SaturatingAdd(@, m)]

AttachmentRecord(a) == Record("Attachment", a, a.size)
MetadataRecord(m) == Record("Metadata", m, 1)
IndexOf(r, v, off) == [offset |-> off, length |-> Len(r), of |-> v]

-------------------------------------------------------------------------------
Idle == [at |-> "idle"]
None == [kind |-> "none"]

Init ==
    /\ file \in Files
    /\ durable = file /\ before = file /\ safe = file
    /\ backups = <<>>
    /\ run = Idle /\ outcome = None
    /\ job = [attachments |-> <<>>, metadata |-> <<>>]
    /\ lost = FALSE

Ended(o) == run' = Idle /\ outcome' = o
Write(cells, next) == run' = [run EXCEPT !.at = next, !.out = cells]
History == UNCHANGED <<before, job, safe, lost>>

\* amend_mcap_bytes: what the amended file should be, the CRC going on from `hashed`.
AmendBytes(cells, j, hashed) ==
    LET layout == Layout(cells)
        data == CollectExistingSummary(cells)
        records == [i \in DOMAIN j.attachments |-> AttachmentRecord(j.attachments[i])]
                   \o [i \in DOMAIN j.metadata |-> MetadataRecord(j.metadata[i])]
        added == FlattenSeq(records)
        off(i) == layout.old_data_end_offset + Len(FlattenSeq(SubSeq(records, 1, i - 1)))
        n == Len(j.attachments)
        crc == IF layout.data_crc_enabled THEN hashed \o added ELSE <<>>
        start == layout.old_data_end_offset + Len(added) + DATA_END_RECORD_LEN
        build == BuildSummary(AddToStatistics(data, n, Len(j.metadata)),
                     [i \in 1..n |-> IndexOf(records[i], j.attachments[i], off(i))],
                     [i \in DOMAIN j.metadata |->
                         IndexOf(records[n + i], j.metadata[i], off(n + i))],
                     start, layout.emit_summary_offsets)
    IN SubSeq(cells, 1, layout.old_data_end_offset) \o added \o Record("DataEnd", crc, 1)
       \o build.bytes \o FooterRecord(layout, build) \o <<Magic>>

\* The layout is read, the tail goes to a backup of its own name.
Begin(j) ==
    /\ run = Idle
    /\ Len(backups) < MaxRuns
    /\ \/ /\ ~HasLayout(file)
          /\ outcome' = [kind |-> "refused"]
          /\ UNCHANGED <<file, durable, backups, run>>
          /\ History
       \/ /\ HasLayout(file)
          /\ LET layout == Layout(file) IN
             run' = [at |-> "backup", layout |-> layout, job |-> j, summary |-> NoSummary,
                     pos |-> 0, crc |-> <<>>, attachments |-> <<>>, metadata |-> <<>>,
                     build |-> <<>>,
                     out |-> SubSeq(file, layout.old_data_end_offset + 1, Len(file))]
          /\ backups' = Append(backups, [cells |-> <<>>, synced |-> FALSE])
          /\ outcome' = None
          /\ before' = file /\ job' = j
          /\ UNCHANGED <<file, durable, safe, lost>>

\* A write to the backup or to the file gets n cells further.
Overwrite(cells, pos, out) ==
    SubSeq(cells, 1, pos) \o out \o SubSeq(cells, pos + Len(out) + 1, Len(cells))

WriteSome(n) ==
    /\ run # Idle
    /\ n \in 1..Len(run.out)
    /\ LET out == SubSeq(run.out, 1, n) IN
       IF run.at = "backup"
       THEN /\ backups' = [backups EXCEPT ![Len(backups)].cells = @ \o out]
            /\ run' = [run EXCEPT !.out = SubSeq(@, n + 1, Len(@))]
            /\ UNCHANGED file
       ELSE /\ file' = Overwrite(file, run.pos, out)
            /\ run' = [run EXCEPT !.out = SubSeq(@, n + 1, Len(@)), !.pos = @ + n]
            /\ UNCHANGED backups
    /\ UNCHANGED <<durable, outcome>>
    /\ History

\* The last write is complete and the command is at this place.
Reached(at) == run.at = at /\ run.out = <<>>

SyncBackup_SlipNoSync ==
    /\ Reached("backup")
    /\ run' = [run EXCEPT !.at = "collect"]
    /\ UNCHANGED <<file, durable, outcome, backups>>
    /\ History

\* sync_all of the backup.  Its directory is not synced: that its name survives a
\* power failure with it is assumed of the file system.
SyncBackup ==
    /\ Reached("backup")
    /\ backups' = [backups EXCEPT ![Len(backups)].synced = TRUE]
    /\ run' = [run EXCEPT !.at = "collect"]
    /\ UNCHANGED <<file, durable, outcome>>
    /\ History

Collect ==
    /\ Reached("collect")
    /\ LET summary == CollectExistingSummary(file) IN
       IF summary.error = "none"
       THEN run' = [run EXCEPT !.at = "open", !.summary = summary] /\ UNCHANGED outcome
       ELSE Ended([kind |-> "error", hint |-> <<>>])
    /\ UNCHANGED <<file, durable, backups>>
    /\ History

DataHasher_SlipFresh(layout) == <<>>

\* Hasher::new_with_initial(old_data_end_crc).
DataHasher(layout) == layout.old_data_end_crc

OpenForUpdate ==
    /\ Reached("open")
    /\ run' = [run EXCEPT !.at = "records", !.pos = run.layout.old_data_end_offset,
                          !.crc = DataHasher(run.layout)]
    /\ UNCHANGED <<file, durable, backups, outcome>>
    /\ History

Hash(cells) == IF run.layout.data_crc_enabled THEN run.crc \o cells ELSE <<>>

\* The next attachment, or the next metadata record once they are written.
WriteRecord ==
    /\ Reached("records")
    /\ \/ /\ run.job.attachments # <<>>
          /\ LET a == Head(run.job.attachments)
                 r == AttachmentRecord(a) IN
             run' = [run EXCEPT !.out = r, !.crc = Hash(r),
                                !.attachments = Append(@, IndexOf(r, a, run.pos)),
                                !.job.attachments = Tail(@)]
       \/ /\ run.job.attachments = <<>> /\ run.job.metadata # <<>>
          /\ LET m == Head(run.job.metadata)
                 r == MetadataRecord(m) IN
             run' = [run EXCEPT !.out = r, !.crc = Hash(r),
                                !.metadata = Append(@, IndexOf(r, m, run.pos)),
                                !.job.metadata = Tail(@)]
    /\ UNCHANGED <<file, durable, backups, outcome>>
    /\ History

WriteDataEnd ==
    /\ Reached("records")
    /\ run.job.attachments = <<>> /\ run.job.metadata = <<>>
    /\ run' = [run EXCEPT !.at = "summary", !.out = Record("DataEnd", Hash(<<>>), 1),
                          !.summary = AddToStatistics(@, Len(run.attachments),
                                                         Len(run.metadata))]
    /\ UNCHANGED <<file, durable, backups, outcome>>
    /\ History

WriteSummary ==
    /\ Reached("summary")
    /\ LET build == BuildSummary(run.summary, run.attachments, run.metadata, run.pos,
                                 run.layout.emit_summary_offsets) IN
       run' = [run EXCEPT !.at = "footer", !.out = build.bytes, !.build = build]
    /\ UNCHANGED <<file, durable, backups, outcome>>
    /\ History

WriteFooter ==
    /\ Reached("footer")
    /\ Write(FooterRecord(run.layout, run.build), "magic")
    /\ UNCHANGED <<file, durable, backups, outcome>>
    /\ History

WriteMagic ==
    /\ Reached("magic")
    /\ Write(<<Magic>>, "truncate")
    /\ UNCHANGED <<file, durable, backups, outcome>>
    /\ History

SetLen_SlipKeep(pos) == file

SetLen(pos) == SubSeq(file, 1, pos)

Truncate ==
    /\ Reached("truncate")
    /\ file' = SetLen(run.pos)
    /\ run' = [run EXCEPT !.at = "sync"]
    /\ UNCHANGED <<durable, backups, outcome>>
    /\ History

\* flush and sync_all.
Sync ==
    /\ Reached("sync")
    /\ durable' = file
    /\ run' = [run EXCEPT !.at = "remove"]
    /\ UNCHANGED <<file, backups, outcome>>
    /\ History

\* The backup is removed; that it cannot be is only a warning.
RemoveBackup(ok) ==
    /\ Reached("remove")
    /\ backups' = IF ok THEN [backups EXCEPT ![Len(backups)] = [cells |-> <<>>, synced |-> FALSE]]
                  ELSE backups
    /\ Ended([kind |-> "done"])
    /\ safe' = IF before = safe THEN file ELSE safe
    /\ UNCHANGED <<file, durable, before, job, lost>>

Hint_SlipSummaryStart(layout, backup) ==
    <<[backup |-> backup, offset |-> layout.old_data_end_offset + DATA_END_RECORD_LEN]>>

\* "truncate to .. bytes and append the backup file contents"
Hint(layout, backup) == <<[backup |-> backup, offset |-> layout.old_data_end_offset]>>

\* A call of the file system fails: the error says how to restore the file
\* once the file was opened for writing.
IoError ==
    /\ run.at \notin {"idle", "collect", "remove"}
    /\ Ended([kind |-> "error",
              hint |-> IF run.at = "backup" THEN <<>> ELSE Hint(run.layout, Len(backups))])
    /\ UNCHANGED <<file, durable, backups>>
    /\ History

Crash ==
    /\ run # Idle
    /\ Ended([kind |-> "crashed"])
    /\ UNCHANGED <<file, durable, backups>>
    /\ History

\* Any of the pages that were written may have reached the disk.
Dirty ==
    {i \in 1..Max({Len(file), Len(durable)}) :
        IF i <= Len(file) /\ i <= Len(durable) THEN file[i] # durable[i] ELSE TRUE}
Pages == {(i - 1) \div Page : i \in Dirty}

OnDisk(pages, len) ==
    [i \in 1..len |->
        LET seen == IF (i - 1) \div Page \in pages THEN file ELSE durable IN
        IF i <= Len(seen) THEN seen[i] ELSE [hole |-> TRUE]]

PowerLoss ==
    /\ ~lost
    /\ file # durable \/ run # Idle
    /\ \E pages \in SUBSET Pages, len \in {Len(file), Len(durable)} :
          file' = OnDisk(pages, len) /\ durable' = file'
    /\ backups' = [i \in DOMAIN backups |->
                      IF backups[i].synced THEN backups[i]
                      ELSE [cells |-> <<>>, synced |-> FALSE]]
    /\ Ended([kind |-> "lost"])
    /\ lost' = TRUE
    /\ UNCHANGED <<before, job, safe>>

-------------------------------------------------------------------------------
Next ==
    \/ \E j \in Jobs : Begin(j)
    \/ \E n \in 1..(IF run = Idle THEN 0 ELSE Len(run.out)) : WriteSome(n)
    \/ SyncBackup \/ Collect \/ OpenForUpdate \/ WriteRecord \/ WriteDataEnd \/ WriteSummary
    \/ WriteFooter \/ WriteMagic \/ Truncate \/ Sync
    \/ \E ok \in BOOLEAN : RemoveBackup(ok)
    \/ IoError \/ Crash \/ PowerLoss

Spec == Init /\ [][Next]_vars
===============================================================================
