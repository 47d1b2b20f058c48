---------------------------- MODULE AmendProperties ----------------------------
(* What `mcap add` promises for the file it amends in place.               *)
EXTENDS Amend

\* A command is at one of its steps with its file position inside the file,
\* backups are kept per command, and what is on the disk is a file of cells.
AmendTypeOK ==
    /\ run = Idle \/
         /\ run.at \in {"backup", "collect", "open", "records", "summary", "footer", "magic",
                        "truncate", "sync", "remove"}
         /\ run.pos \in 0..Len(file)
         /\ run.at \notin {"backup", "collect", "open"} =>
               run.pos >= run.layout.old_data_end_offset
         /\ run.at \in {"sync", "remove"} => run.pos = Len(file)
    /\ outcome.kind \in {"none", "refused", "done", "error", "crashed", "lost"}
    /\ DOMAIN backups \subseteq 1..MaxRuns
    /\ Len(file) > 0 /\ Len(durable) > 0

Restored(cells, backup, offset) == SubSeq(cells, 1, offset) \o backup.cells

\* Whenever a command stops - it is killed, a call fails, the power fails
\* before or after the sync - the file is what it was or what the last command
\* that succeeded made of it, or a backup on the disk is its tail and
\* everything before the tail is untouched.
Recoverable ==
    \/ file = safe
    \/ \E i \in DOMAIN backups :
          /\ backups[i].synced
          /\ Restored(file, backups[i], Layout(safe).old_data_end_offset) = safe

\* An error of amend_mcap_file leaves the file as it was, or its message names
\* the backup and the length that restore it.
HintRestores ==
    outcome.kind = "error" =>
       \/ file = before
       \/ /\ outcome.hint # <<>>
          /\ LET hint == outcome.hint[1] IN
             Restored(file, backups[hint.backup], hint.offset) = before

\* A file that an earlier command left half amended is refused before anything
\* is written: its footer does not lead to a DataEnd record.
HalfAmendedRefused ==
    [][ run = Idle /\ run' # Idle /\ ~lost =>
           file \in {before, AmendBytes(before, job, Layout(before).old_data_end_crc)} ]_vars

-------------------------------------------------------------------------------
DataRecords(cells) ==
    LET all == RecordsFrom(cells, 1)
        end == SelectInSeq(all, LAMBDA r : r.op = "DataEnd") IN SubSeq(all, 1, end - 1)

DataCrcOf(cells) == RecordAt(cells, DataEndOffset(cells)).v
CrcRight(cells) == DataCrcOf(cells) = SubSeq(cells, 1, DataEndOffset(cells))

OfKind(cells, op) == {r \in ToSet(DataRecords(cells)) : r.op = op}

\* The indexes are in the order of the file, each at a record of its kind that
\* holds what it says.
IndexesPoint(cells, indexes, op) ==
    /\ \A i, j \in DOMAIN indexes : i < j => indexes[i].offset < indexes[j].offset
    /\ \A i \in DOMAIN indexes :
          [op |-> op, v |-> indexes[i].of, at |-> indexes[i].offset, len |-> indexes[i].length]
             \in OfKind(cells, op)

Indexed(indexes) == {indexes[i].offset : i \in DOMAIN indexes}
Offsets(records) == {r.at : r \in records}

\* The new offsets are those of the records that were not there before.
IndexesKept(new, old, ni, oi, op) ==
    /\ IndexesPoint(new, ni, op)
    /\ Indexed(ni) = Indexed(oi) \cup (Offsets(OfKind(new, op)) \ Offsets(OfKind(old, op)))

CountsKept(ns, os) ==
    /\ (ns = <<>>) = (os = <<>>)
    /\ ns # <<>> =>
         /\ ns[1].attachment_count =
              Min({MaxCount, os[1].attachment_count + Len(job.attachments)})
         /\ ns[1].metadata_count = Min({MaxCount, os[1].metadata_count + Len(job.metadata)})

\* The summary offset records name each run of records of one opcode.
OffsetsExact(cells) ==
    LET start == Footer(cells).summary_start
        records == RecordsFrom(cells, start)
        offs == {r \in ToSet(records) : r.op = "SummaryOffset"}
        rest == {r \in ToSet(records) : r.op \notin {"SummaryOffset", "Footer"}} IN
    Footer(cells).summary_offset_start # 0 =>
       /\ Footer(cells).summary_offset_start \in {r.at : r \in offs}
       /\ \A r \in rest : \E o \in offs :
             o.v.op = r.op /\ r.at \in o.v.start..(o.v.start + o.v.length - r.len)
       /\ \A o \in offs, r \in rest :
             r.at \in o.v.start..(o.v.start + o.v.length - 1) => r.op = o.v.op

\* A command that succeeds leaves a file with the records of the old data
\* section and the new ones, whose data CRC is right exactly if the old one
\* was, whose summary still says what it said and indexes old and new records
\* at their places, counted up to u32::MAX, whose summary offsets and summary
\* CRC match, and that ends at its magic; the reference of add_common.rs,
\* amend_mcap_bytes, makes the same file when the old CRC was right.
AmendedExact ==
    outcome.kind = "done" /\ ~lost =>
       LET old == CollectExistingSummary(before)
           new == CollectExistingSummary(file)
           off == Layout(before).old_data_end_offset
           start == Footer(file).summary_start IN
       /\ HasLayout(file)
       /\ SubSeq(file, 1, off) = SubSeq(before, 1, off)
       /\ LET d == SubSeq(DataRecords(file), Len(DataRecords(before)) + 1,
                          Len(DataRecords(file))) IN
          [i \in DOMAIN d |-> d[i].v] = job.attachments \o job.metadata
       /\ DataCrcOf(before) = <<>> => DataCrcOf(file) = <<>>
       /\ DataCrcOf(before) # <<>> => CrcRight(file) = CrcRight(before)
       /\ new.error = "none"
       /\ new.acc = old.acc /\ new.chunk_indexes = old.chunk_indexes
       /\ CountsKept(new.statistics, old.statistics)
       /\ IndexesKept(file, before, new.attachment_indexes, old.attachment_indexes, "Attachment")
       /\ IndexesKept(file, before, new.metadata_indexes, old.metadata_indexes, "Metadata")
       /\ OffsetsExact(file)
       /\ Footer(file).summary_crc # <<>> =>
             Front(Footer(file).summary_crc) = SubSeq(file, start + 1, Len(file) - 3)
       /\ CrcRight(before) => file = AmendBytes(before, job, SubSeq(before, 1, off))

\* At every step of every command, killed or failed anywhere, the file is in a
\* state from which the old or the new contents can be had.
AlwaysRecoverable == AmendTypeOK /\ Recoverable
===============================================================================
