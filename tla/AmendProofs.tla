------------------------------ MODULE AmendProofs ------------------------------
(***************************************************************************)
(* Proofs about `mcap add`: whatever stops a command, and whatever the     *)
(* commands after it do, the file or its backup can be had back.           *)
(***************************************************************************)
EXTENDS AmendProperties, SequenceFacts

-------------------------------------------------------------------------------
(* The inductive invariant.                                                *)

IsFooter(cell) == DOMAIN cell = {"Footer"}
IsChunk(cell) == DOMAIN cell = {"Chunk"}
Inert(cell) == ~IsFooter(cell) /\ ~IsChunk(cell)

\* A footer here leads to no place before `off`.
LeadsPast(cell, off) ==
    LET start == cell.Footer.v.summary_start IN
    start \in Nat /\ (start = 0 \/ start >= off + DATA_END_RECORD_LEN)

\* Whichever footer such a file ends with, its data section reaches up to `off`.
Sound(cells, off) ==
    /\ IsSeq(cells) /\ Len(cells) >= off + 5
    /\ \A i \in 1..Len(cells) :
          /\ IsChunk(cells[i]) => IsSeq(cells[i].Chunk.v)
          /\ i > off /\ IsFooter(cells[i]) => LeadsPast(cells[i], off)

SameUpTo(a, b, off) == \A i \in 1..off : a[i] = b[i]

TailOf(cells) == SubSeq(cells, DataEndOffset(cells) + 1, Len(cells))

\* A file the footer of which is at its end, if anywhere.
Fresh(cells) ==
    /\ IsSeq(cells) /\ Len(cells) > 0
    /\ HasLayout(cells) => DataEndOffset(cells) \in Nat /\ Sound(cells, DataEndOffset(cells))

\* A backup that restores the file.
Saves(i) == backups[i].synced /\ backups[i].cells = TailOf(safe)

Backed ==
    /\ Sound(file, DataEndOffset(safe)) /\ SameUpTo(file, safe, DataEndOffset(safe))
    /\ Sound(durable, DataEndOffset(safe)) /\ SameUpTo(durable, safe, DataEndOffset(safe))
    /\ (file = safe /\ durable = safe) \/ \E i \in 1..Len(backups) : Saves(i)
    /\ run # Idle /\ before # safe => \E i \in 1..(Len(backups) - 1) : Saves(i)

Untouched == file = safe /\ durable = safe /\ run = Idle

BackupsOK ==
    /\ IsSeq(backups) /\ Len(backups) <= MaxRuns
    /\ \A i \in 1..Len(backups) :
          DOMAIN backups[i] = {"cells", "synced"} /\ backups[i].synced \in BOOLEAN

-------------------------------------------------------------------------------
(* The command that is running.                                            *)

RunFields == {"at", "layout", "job", "summary", "pos", "crc", "attachments", "metadata",
              "build", "out"}

ChannelsOK(acc) ==
    /\ DOMAIN acc = {"schemas", "channels"}
    /\ IsFiniteSet(DOMAIN acc.schemas) /\ IsFiniteSet(DOMAIN acc.channels)

SummaryOK(s) ==
    /\ DOMAIN s = {"statistics", "acc", "chunk_indexes", "attachment_indexes",
                   "metadata_indexes", "error"}
    /\ IsSeq(s.statistics) /\ IsSeq(s.chunk_indexes)
    /\ IsSeq(s.attachment_indexes) /\ IsSeq(s.metadata_indexes)
    /\ ChannelsOK(s.acc)

JobOK(j) ==
    /\ DOMAIN j = {"attachments", "metadata"}
    /\ IsSeq(j.attachments) /\ IsSeq(j.metadata)
    /\ \A a \in ToSet(j.attachments) : a.size \in Nat

RunOK ==
    /\ DOMAIN run = RunFields
    /\ JobOK(run.job) /\ SummaryOK(run.summary)
    /\ IsSeq(run.attachments) /\ IsSeq(run.metadata)
    /\ IsSeq(run.out) /\ run.pos \in Nat
    /\ outcome = None
    /\ HasLayout(before) /\ IsSeq(before)
    /\ DataEndOffset(before) \in Nat /\ DataEndOffset(before) < Len(before)
    /\ run.layout = Layout(before)
    /\ HasLayout(safe) /\ DataEndOffset(safe) <= DataEndOffset(before)
    /\ Len(backups) >= 1

From == DataEndOffset(before)
LastBackup == backups[Len(backups)]

\* Nothing but the backup was written.
Saving ==
    /\ file = before /\ run.pos = 0
    /\ run.at = "backup" =>
         /\ ~LastBackup.synced /\ IsSeq(LastBackup.cells)
         /\ LastBackup.cells \o run.out = TailOf(before)
    /\ run.at # "backup" =>
         run.out = <<>> /\ LastBackup.synced /\ LastBackup.cells = TailOf(before)

\* The new tail: what was written of it and what is to be written next.
NewCell(cells, pos, out, i) == IF i <= pos THEN cells[i] ELSE out[i - pos]

\* The cells of the new tail are no footers but for one, which leads into it.
LeadsInto(from, start, end) == start \in Nat /\ (start = 0 \/ start \in (from + 2)..end)

FooterOnlyAt(cells, pos, out, from, at, end) ==
    \A i \in (from + 1)..(pos + Len(out)) :
       LET cell == NewCell(cells, pos, out, i) IN
       /\ ~IsChunk(cell)
       /\ IsFooter(cell) => i = at /\ LeadsInto(from, cell.Footer.v.summary_start, end)

\* How much of the new tail a command has made at each of its steps.
NewTail(at, cells, pos, out, from) ==
    LET end == pos + Len(out) IN
    CASE at = "records" -> FooterOnlyAt(cells, pos, out, from, 0, 0)
      [] at \in {"summary", "footer"} ->
           FooterOnlyAt(cells, pos, out, from, 0, 0) /\ end >= from + 2
      [] at = "magic" -> FooterOnlyAt(cells, pos, out, from, end, end - 2) /\ end >= from + 4
      [] OTHER -> FooterOnlyAt(cells, pos, out, from, end - 1, end - 3) /\ end >= from + 5

Writing ==
    /\ LastBackup.synced /\ LastBackup.cells = TailOf(before)
    /\ SameUpTo(file, before, From)
    /\ From <= run.pos /\ run.pos <= Len(file)
    /\ NewTail(run.at, file, run.pos, run.out, From)
    /\ run.at = "footer" => LeadsInto(From, run.build.summary_start, run.pos + Len(run.out))
    /\ run.at \in {"sync", "remove"} => run.pos = Len(file) /\ run.out = <<>>
    /\ run.at = "remove" => durable = file

SavingAt == {"backup", "collect", "open"}
WritingAt == {"records", "summary", "footer", "magic", "truncate", "sync", "remove"}

Running ==
    run # Idle =>
       /\ RunOK
       /\ run.at \in SavingAt \cup WritingAt
       /\ run.at \in SavingAt => Saving
       /\ run.at \in WritingAt => Writing

\* What the last command said.
Said ==
    /\ outcome.kind \in {"none", "refused", "done", "error", "crashed", "lost"}
    /\ HintRestores

\* The inductive invariant.
AmendInv ==
    /\ Fresh(safe)
    /\ IF HasLayout(safe) THEN Backed ELSE Untouched
    /\ BackupsOK
    /\ Running
    /\ Said

-------------------------------------------------------------------------------
(* Cells and records.                                                      *)

\* An encoded record is its head cell and n payload cells; only footers and chunks are told
\* apart by a reader of the tail.
LEMMA RecordFacts ==
    ASSUME NEW op, NEW v, NEW n \in Nat
    PROVE  /\ IsSeq(Record(op, v, n)) /\ Len(Record(op, v, n)) = n + 1
           /\ Record(op, v, n)[1] = [op |-> op, len |-> n]
           /\ \A i \in 1..n : Record(op, v, n)[i + 1] = Part(op, v, i)
           /\ op \notin {"Footer", "Chunk"} => \A c \in ToSet(Record(op, v, n)) : Inert(c)
  <1>. DEFINE head == <<[op |-> op, len |-> n]>>
              body == [i \in 1..n |-> Part(op, v, i)]
  <1>1. IsSeq(head) /\ Len(head) = 1 /\ head[1] = [op |-> op, len |-> n]
        /\ ToSet(head) = {[op |-> op, len |-> n]}
    BY SingletonFacts
  <1>2. IsSeq(body) /\ Len(body) = n /\ \A i \in 1..n : body[i] = Part(op, v, i)
    <2>1. DOMAIN body = 1..n /\ body = [i \in 1..n |-> body[i]]
      OBVIOUS
    <2>. QED  BY <2>1, FunctionIsSeq
  <1>3. Record(op, v, n) = head \o body
    BY DEF Record
  <1>. HIDE DEF head, body
  <1>. DEFINE all == head \o body
  <1>4. /\ IsSeq(all) /\ Len(all) = n + 1
        /\ all[1] = head[1]
        /\ \A i \in 1..n : all[i + 1] = body[i]
        /\ ToSet(all) = ToSet(head) \cup ToSet(body)
    <2>1. /\ IsSeq(all) /\ Len(all) = Len(head) + Len(body)
          /\ \A i \in 1..(Len(head) + Len(body)) :
               all[i] = IF i <= Len(head) THEN head[i] ELSE body[i - Len(head)]
      BY <1>1, <1>2, ConcatFacts
    <2>2. ToSet(all) = ToSet(head) \cup ToSet(body)
      BY <1>1, <1>2, ConcatElements
    <2>. HIDE DEF all
    <2>3. \A i \in 1..n : (i + 1) - 1 = i /\ i + 1 \in 1..(1 + n) /\ ~(i + 1 <= 1)
      OBVIOUS
    <2>. QED  BY <2>1, <2>2, <2>3, <1>1, <1>2
  <1>. HIDE DEF all
  <1>5. op \notin {"Footer", "Chunk"} => \A c \in ToSet(all) : Inert(c)
    <2>. SUFFICES ASSUME op \notin {"Footer", "Chunk"}, NEW c \in ToSet(head) \cup ToSet(body)
                  PROVE  Inert(c)
      BY <1>4
    <2>1. CASE c \in ToSet(head)
      <3>1. DOMAIN c = {"op", "len"}
        BY <2>1, <1>1
      <3>. QED  BY <3>1 DEF Inert, IsFooter, IsChunk
    <2>2. CASE c \in ToSet(body)
      <3>0. PICK i \in 1..n : c = body[i]
        BY <2>2, <1>2, IsSeqFacts DEF ToSet
      <3>1. DOMAIN c = {op}
        BY <3>0, <1>2 DEF Part
      <3>. QED  BY <3>1 DEF Inert, IsFooter, IsChunk
    <2>. QED  BY <2>1, <2>2
  <1>6. Record(op, v, n) = all
    BY <1>3 DEF all
  <1>. QED  BY <1>1, <1>2, <1>4, <1>5, <1>6

\* An encoded footer carries the summary start the build gives it.
LEMMA FooterRecordFacts ==
    ASSUME NEW layout, NEW build
    PROVE  LET r == FooterRecord(layout, build) IN
           /\ IsSeq(r) /\ Len(r) = 2
           /\ Inert(r[1]) /\ ~IsChunk(r[2])
           /\ r[2].Footer.v.summary_start = build.summary_start
  <1>. DEFINE v == [summary_start |-> build.summary_start,
                    summary_offset_start |-> build.summary_offset_start,
                    summary_crc |-> IF layout.summary_crc_enabled THEN SummaryCrc(build)
                                    ELSE <<>>]
              r == Record("Footer", v, 1)
  <1>1. FooterRecord(layout, build) = r
    BY DEF FooterRecord
  <1>2. v.summary_start = build.summary_start
    OBVIOUS
  <1>. HIDE DEF v
  <1>3. IsSeq(r) /\ Len(r) = 2 /\ r[1] = [op |-> "Footer", len |-> 1]
        /\ r[2] = Part("Footer", v, 1)
    <2>1. /\ IsSeq(r) /\ Len(r) = 1 + 1
          /\ r[1] = [op |-> "Footer", len |-> 1]
          /\ \A i \in 1..1 : r[i + 1] = Part("Footer", v, i)
      BY RecordFacts, 1 \in Nat
    <2>. QED  BY <2>1
  <1>. HIDE DEF r
  <1>4. DOMAIN r[1] = {"op", "len"} /\ DOMAIN r[2] = {"Footer"} /\ r[2].Footer.v = v
    BY <1>3 DEF Part
  <1>5. Inert(r[1]) /\ ~IsChunk(r[2])
    BY <1>4 DEF Inert, IsFooter, IsChunk
  <1>. QED  BY <1>1, <1>2, <1>3, <1>4, <1>5

\* A write at an offset within the file replaces exactly the cells it covers, growing the
\* file where it passes its end.
LEMMA OverwriteFacts ==
    ASSUME NEW cells, IsSeq(cells), NEW out, IsSeq(out), NEW pos \in 0..Len(cells)
    PROVE  LET new == Overwrite(cells, pos, out) IN
           /\ IsSeq(new)
           /\ Len(new) >= Len(cells) /\ Len(new) >= pos + Len(out)
           /\ \A i \in 1..Len(new) :
                new[i] = IF i > pos /\ i <= pos + Len(out) THEN out[i - pos] ELSE cells[i]
           /\ \A i \in 1..Len(new) : i <= pos + Len(out) \/ i <= Len(cells)
  <1>. DEFINE pre == SubSeq(cells, 1, pos)
              post == SubSeq(cells, pos + Len(out) + 1, Len(cells))
  <1>0. Len(cells) \in Nat /\ Len(out) \in Nat /\ pos \in Nat
    BY IsSeqFacts
  <1>1. IsSeq(pre) /\ Len(pre) = pos /\ \A i \in 1..pos : pre[i] = cells[i]
    BY <1>0, SubSeqFacts
  <1>2. /\ IsSeq(post)
        /\ pos + Len(out) <= Len(cells) => Len(post) = Len(cells) - (pos + Len(out))
        /\ pos + Len(out) > Len(cells) => Len(post) = 0
        /\ \A i \in 1..Len(post) : post[i] = cells[pos + Len(out) + i]
    <2>1. CASE pos + Len(out) <= Len(cells)
      <3>. DEFINE m == pos + Len(out) + 1
      <3>0. m \in Nat /\ 1 <= m /\ m <= Len(cells) + 1
        BY <1>0, <2>1
      <3>1. post = SubSeq(cells, m, Len(cells))
        OBVIOUS
      <3>2. m = pos + Len(out) + 1
        OBVIOUS
      <3>. HIDE DEF post, m
      <3>3. /\ IsSeq(post) /\ Len(post) = Len(cells) - m + 1
            /\ \A i \in 1..(Len(cells) - m + 1) : post[i] = cells[m + i - 1]
        BY <1>0, <3>0, <3>1, SubSeqFacts
      <3>4. Len(post) = Len(cells) - (pos + Len(out))
        BY <3>2, <3>3, <1>0
      <3>5. ASSUME NEW i \in 1..Len(post) PROVE post[i] = cells[pos + Len(out) + i]
        <4>1. m + i - 1 = pos + Len(out) + i /\ i \in 1..(Len(cells) - m + 1)
          BY <3>2, <3>3, <1>0
        <4>. QED  BY <3>3, <4>1
      <3>6. ~(pos + Len(out) > Len(cells))
        BY <2>1, <1>0
      <3>. QED  BY <3>3, <3>4, <3>5, <3>6
    <2>2. CASE pos + Len(out) > Len(cells)
      <3>1. post = <<>>
        BY <2>2, <1>0 DEF IsSeq
      <3>. HIDE DEF post
      <3>2. IsSeq(post) /\ Len(post) = 0
        BY <3>1 DEF IsSeq, ToSet
      <3>. QED  BY <3>2, <2>2, <1>0
    <2>. QED  BY <2>1, <2>2, <1>0
  <1>3. Overwrite(cells, pos, out) = (pre \o out) \o post
    BY DEF Overwrite
  <1>. HIDE DEF pre, post
  <1>. DEFINE first == pre \o out
              new == first \o post
  <1>4. /\ IsSeq(first) /\ Len(first) = pos + Len(out)
        /\ \A i \in 1..(pos + Len(out)) :
             first[i] = IF i <= pos THEN pre[i] ELSE out[i - pos]
    BY <1>1, ConcatFacts
  <1>. HIDE DEF first
  <1>5. /\ IsSeq(new) /\ Len(new) = Len(first) + Len(post)
        /\ \A i \in 1..(Len(first) + Len(post)) :
             new[i] = IF i <= Len(first) THEN first[i] ELSE post[i - Len(first)]
    BY <1>2, <1>4, ConcatFacts
  <1>8. Overwrite(cells, pos, out) = new
    BY <1>3 DEF first
  <1>. HIDE DEF new
  <1>6. Len(post) \in Nat /\ Len(new) \in Nat /\ Len(new) = pos + Len(out) + Len(post)
    BY <1>0, <1>2, <1>4, <1>5, IsSeqFacts
  <1>7. ASSUME NEW i \in 1..Len(new)
        PROVE  new[i] = IF i > pos /\ i <= pos + Len(out) THEN out[i - pos] ELSE cells[i]
    <2>1. CASE i <= pos + Len(out)
      <3>1. new[i] = IF i <= pos THEN pre[i] ELSE out[i - pos]
        BY <2>1, <1>0, <1>4, <1>5, <1>6
      <3>. QED  BY <3>1, <2>1, <1>0, <1>1
    <2>2. CASE i > pos + Len(out)
      <3>1. i - (pos + Len(out)) \in 1..Len(post) /\ new[i] = post[i - (pos + Len(out))]
        BY <2>2, <1>0, <1>4, <1>5, <1>6
      <3>2. post[i - (pos + Len(out))] = cells[pos + Len(out) + (i - (pos + Len(out)))]
        BY <3>1, <1>2
      <3>3. pos + Len(out) + (i - (pos + Len(out))) = i
        BY <1>0
      <3>. QED  BY <3>1, <3>2, <3>3, <2>2
    <2>. QED  BY <2>1, <2>2, <1>0
  <1>9. /\ Len(new) >= Len(cells) /\ Len(new) >= pos + Len(out)
        /\ \A i \in 1..Len(new) : i <= pos + Len(out) \/ i <= Len(cells)
    BY <1>0, <1>2, <1>6
  <1>. QED  BY <1>0, <1>5, <1>7, <1>8, <1>9

\* A file is its first cells and the rest of them.
LEMMA RestoredFacts ==
    ASSUME NEW a, IsSeq(a), NEW b, IsSeq(b), NEW off \in Nat, off <= Len(a), off <= Len(b),
           SameUpTo(a, b, off)
    PROVE  SubSeq(a, 1, off) \o SubSeq(b, off + 1, Len(b)) = b
  <1>. DEFINE pre == SubSeq(a, 1, off)
              post == SubSeq(b, off + 1, Len(b))
  <1>0. Len(a) \in Nat /\ Len(b) \in Nat
    BY IsSeqFacts
  <1>1. IsSeq(pre) /\ Len(pre) = off /\ \A i \in 1..off : pre[i] = a[i]
    BY <1>0, SubSeqFacts
  <1>2. IsSeq(post) /\ Len(post) = Len(b) - off /\ \A i \in 1..(Len(b) - off) : post[i] = b[off + i]
    <2>1. /\ IsSeq(post) /\ Len(post) = Len(b) - (off + 1) + 1
          /\ \A i \in 1..(Len(b) - (off + 1) + 1) : post[i] = b[(off + 1) + i - 1]
      BY <1>0, SubSeqFacts
    <2>. HIDE DEF post
    <2>. QED  BY <2>1, <1>0
  <1>. HIDE DEF pre, post
  <1>. DEFINE all == pre \o post
  <1>3. /\ IsSeq(all) /\ Len(all) = Len(b)
        /\ \A i \in 1..Len(b) : all[i] = IF i <= off THEN pre[i] ELSE post[i - off]
    <2>1. /\ IsSeq(all) /\ Len(all) = off + (Len(b) - off)
          /\ \A i \in 1..(off + (Len(b) - off)) :
               all[i] = IF i <= off THEN pre[i] ELSE post[i - off]
      BY <1>1, <1>2, ConcatFacts
    <2>. HIDE DEF all
    <2>2. off + (Len(b) - off) = Len(b)
      BY <1>0
    <2>. QED  BY <2>1, <2>2
  <1>. HIDE DEF all
  <1>4. \A i \in 1..Len(b) : all[i] = b[i]
    <2>. TAKE i \in 1..Len(b)
    <2>1. CASE i <= off
      BY <2>1, <1>0, <1>1, <1>3 DEF SameUpTo
    <2>2. CASE i > off
      <3>1. i - off \in 1..(Len(b) - off) /\ off + (i - off) = i
        BY <2>2, <1>0
      <3>. QED  BY <3>1, <2>2, <1>2, <1>3
    <2>. QED  BY <2>1, <2>2, <1>0
  <1>5. all = b
    BY <1>3, <1>4, SeqExtensional
  <1>. QED  BY <1>5 DEF all, pre, post

\* The layout of a file is found at or after the place its footers lead past.
LEMMA LayoutFacts ==
    ASSUME NEW cells, NEW off \in Nat, Sound(cells, off), HasLayout(cells)
    PROVE  /\ DataEndOffset(cells) \in Nat
           /\ off <= DataEndOffset(cells) /\ DataEndOffset(cells) < Len(cells)
           /\ Footer(cells).summary_start \in Nat
  <1>. DEFINE n == Len(cells)
              start == Footer(cells).summary_start
  <1>1. n \in Nat /\ n >= off + 5
    BY IsSeqFacts DEF Sound
  <1>2. n - 1 \in 1..n /\ n - 1 > off
    BY <1>1
  <1>3. IsFooter(cells[n - 1])
    BY DEF HasLayout, HasFooter, IsFooter
  <1>4. LeadsPast(cells[n - 1], off)
    BY <1>2, <1>3 DEF Sound
  <1>5. start \in Nat /\ (start = 0 \/ start >= off + 2)
    BY <1>4 DEF LeadsPast, Footer, DATA_END_RECORD_LEN
  <1>6. DataEndOffset(cells) = IF start > 0 THEN start - 2 ELSE n - 1 - 2 - 2
    BY DEF DataEndOffset, DATA_END_RECORD_LEN, FOOTER_RECORD_LEN
  <1>7. DataEndOffset(cells) \in 0..(n - 1)
    BY DEF HasLayout, ParseDataEnd, IsRecord
  <1>. QED  BY <1>1, <1>5, <1>6, <1>7

-------------------------------------------------------------------------------
(* collect_existing_summary and build_summary_bytes.                       *)

\* The records a scan yields form a sequence, and every chunk it yields holds a sequence.
LEMMA RecordsFromFacts ==
    ASSUME NEW cells, IsSeq(cells), NEW from \in Nat,
           \A i \in 1..Len(cells) : IsChunk(cells[i]) => IsSeq(cells[i].Chunk.v)
    PROVE  /\ IsSeq(RecordsFrom(cells, from))
           /\ \A r \in ToSet(RecordsFrom(cells, from)) : r.op = "Chunk" => IsSeq(r.v)
  <1>. DEFINE N == Len(cells) + 1
              Body(f, off) == IF ~IsRecord(cells, off) THEN <<Garbage>>
                              ELSE IF RecordAt(cells, off).op = "Footer"
                                   THEN <<RecordAt(cells, off)>>
                                   ELSE <<RecordAt(cells, off)>>
                                        \o f[off + RecordAt(cells, off).len]
              Is(f, k) == f = [off \in k..N |-> Body(f, off)]
              T == {m \in Nat : m <= N => \E f : Is(f, N - m)}
  <1>0. N \in Nat /\ N >= 1 /\ DOMAIN cells = 1..Len(cells) /\ Len(cells) = N - 1
    BY IsSeqFacts
  <1>. HIDE DEF N
  <1>1. ASSUME NEW off \in 0..N, IsRecord(cells, off)
        PROVE  off + RecordAt(cells, off).len \in (off + 1)..N
    <2>1. At(cells, off).len \in 1..(Len(cells) - off - 1) /\ off \in 0..(Len(cells) - 1)
      BY <1>1 DEF IsRecord
    <2>2. RecordAt(cells, off).len = 1 + At(cells, off).len
      BY DEF RecordAt
    <2>. QED  BY <2>1, <2>2, <1>0
  <1>2. ASSUME NEW off \in 0..N, IsRecord(cells, off)
        PROVE  RecordAt(cells, off).op = "Chunk" => IsSeq(RecordAt(cells, off).v)
    <2>. SUFFICES ASSUME RecordAt(cells, off).op = "Chunk"
                  PROVE  IsSeq(RecordAt(cells, off).v)
      OBVIOUS
    <2>1. At(cells, off).op = "Chunk" /\ RecordAt(cells, off).v = At(cells, off + 1)["Chunk"].v
      BY DEF RecordAt
    <2>2. At(cells, off).len \in 1..(Len(cells) - off - 1) /\ off \in 0..(Len(cells) - 1)
      BY <1>2 DEF IsRecord
    <2>3. 1 \in 1..At(cells, off).len /\ off + 1 + 1 \in 1..Len(cells)
      BY <2>2, <1>0
    <2>4. DOMAIN At(cells, off + 1) = {At(cells, off).op}
      BY <1>2, <2>3 DEF IsRecord
    <2>5. IsChunk(cells[off + 1 + 1])
      BY <2>1, <2>4 DEF IsChunk, At
    <2>6. IsSeq(cells[off + 1 + 1].Chunk.v)
      BY <2>3, <2>5
    <2>. QED  BY <2>1, <2>6 DEF At
  <1>3. 0 \in T
    <2>. DEFINE f == [off \in (N - 0)..N |-> <<Garbage>>]
    <2>1. \A off \in (N - 0)..N : ~IsRecord(cells, off)
      BY <1>0 DEF IsRecord
    <2>2. Is(f, N - 0)
      BY <2>1
    <2>. HIDE DEF f, Is
    <2>. QED  BY <2>2
  <1>4. ASSUME NEW m \in Nat, m \in T PROVE m + 1 \in T
    <2>. SUFFICES ASSUME m + 1 <= N PROVE \E f : Is(f, N - (m + 1))
      OBVIOUS
    <2>. DEFINE k == N - m
                j == N - (m + 1)
    <2>0. k \in Nat /\ j \in Nat /\ j + 1 = k /\ k <= N /\ m <= N
      BY <1>0
    <2>1. PICK f : Is(f, k)
      BY <1>4, <2>0
    <2>. HIDE DEF k, j
    <2>. DEFINE g == [off \in j..N |-> IF off = j THEN Body(f, j) ELSE f[off]]
    <2>2. ASSUME NEW off \in j..N PROVE g[off] = Body(g, off)
      <3>0. off \in 0..N
        BY <2>0, <1>0
      <3>1. IsRecord(cells, off) => LET n == off + RecordAt(cells, off).len IN
                                    n \in k..N /\ n \in j..N /\ n # j
        BY <3>0, <1>1, <2>0, <1>0
      <3>2. IsRecord(cells, off) => g[off + RecordAt(cells, off).len]
                                    = f[off + RecordAt(cells, off).len]
        BY <3>1
      <3>3. Body(g, off) = Body(f, off)
        BY <3>2
      <3>4. CASE off = j
        BY <3>3, <3>4
      <3>5. CASE off # j
        <4>1. off \in k..N /\ g[off] = f[off]
          BY <3>5, <2>0, <1>0
        <4>2. f[off] = Body(f, off)
          <5>. HIDE DEF Body
          <5>. QED  BY <2>1, <4>1
        <4>. QED  BY <4>1, <4>2, <3>3
      <3>. QED  BY <3>4, <3>5
    <2>3. Is(g, j)
      <3>. HIDE DEF Body
      <3>. QED  BY <2>2
    <2>. HIDE DEF g, Is
    <2>. QED  BY <2>3 DEF j
  <1>5. \E f : Is(f, 0)
    <2>. HIDE DEF T
    <2>1. Nat \subseteq T
      BY <1>3, <1>4, SetInduction
    <2>2. N \in T /\ N - N = 0
      BY <2>1, <1>0
    <2>. QED  BY <2>2, <1>0 DEF T
  <1>. DEFINE Walk == CHOOSE f : Is(f, 0)
  <1>6. Is(Walk, 0)
    <2>. HIDE DEF Is
    <2>. QED  BY <1>5
  <1>7. RecordsFrom(cells, from) = Walk[Min({from, N})]
    BY DEF RecordsFrom, N
  <1>. HIDE DEF Walk
  <1>8. \A off \in 0..N : Walk[off] = Body(Walk, off)
    <2>. HIDE DEF Body
    <2>. QED  BY <1>6
  <1>. HIDE DEF Is
  <1>. DEFINE Good(s) == IsSeq(s) /\ \A r \in ToSet(s) : r.op = "Chunk" => IsSeq(r.v)
              U == {m \in Nat : \A off \in 0..N : off >= N - m => Good(Walk[off])}
  <1>9. ASSUME NEW off \in 0..N, \A n \in (off + 1)..N : Good(Walk[n])
        PROVE  Good(Walk[off])
    <2>1. CASE ~IsRecord(cells, off)
      <3>1. Walk[off] = <<Garbage>> /\ Garbage.op = "Garbage"
        BY <2>1, <1>8 DEF Garbage
      <3>2. IsSeq(<<Garbage>>) /\ ToSet(<<Garbage>>) = {Garbage}
        BY SingletonFacts
      <3>. QED  BY <3>1, <3>2
    <2>2. CASE IsRecord(cells, off)
      <3>. DEFINE r == RecordAt(cells, off)
      <3>1. r.op = "Chunk" => IsSeq(r.v)
        BY <2>2, <1>2
      <3>2. Good(Walk[off + r.len])
        BY <2>2, <1>1, <1>9
      <3>3. IsSeq(<<r>>) /\ ToSet(<<r>>) = {r}
        BY SingletonFacts
      <3>4. Walk[off] = <<r>> \/ Walk[off] = <<r>> \o Walk[off + r.len]
        BY <2>2, <1>8
      <3>. HIDE DEF r
      <3>5. CASE Walk[off] = <<r>>
        BY <3>5, <3>1, <3>3
      <3>6. CASE Walk[off] = <<r>> \o Walk[off + r.len]
        <4>1. IsSeq(Walk[off]) /\ ToSet(Walk[off]) = ToSet(<<r>>) \cup ToSet(Walk[off + r.len])
          BY <3>2, <3>3, <3>6, ConcatFacts, ConcatElements
        <4>. QED  BY <4>1, <3>1, <3>2, <3>3
      <3>. QED  BY <3>4, <3>5, <3>6
    <2>. QED  BY <2>1, <2>2
  <1>. HIDE DEF Good
  <1>10. 0 \in U
    <2>1. \A off \in 0..N : off >= N - 0 => \A n \in (off + 1)..N : Good(Walk[n])
      BY <1>0
    <2>. QED  BY <2>1, <1>9
  <1>11. ASSUME NEW m \in Nat, m \in U PROVE m + 1 \in U
    <2>. SUFFICES ASSUME NEW off \in 0..N, off >= N - (m + 1) PROVE Good(Walk[off])
      OBVIOUS
    <2>1. \A n \in (off + 1)..N : n \in 0..N /\ n >= N - m
      BY <1>0
    <2>. QED  BY <2>1, <1>9, <1>11
  <1>12. Nat \subseteq U
    <2>. HIDE DEF U
    <2>. QED  BY <1>10, <1>11, SetInduction
  <1>13. \A off \in 0..N : Good(Walk[off])
    <2>1. N \in U
      <3>. HIDE DEF U
      <3>. QED  BY <1>12, <1>0
    <2>2. \A off \in 0..N : off >= N - N
      BY <1>0
    <2>. QED  BY <2>1, <2>2
  <1>14. Min({from, N}) \in 0..N
    <2>1. \E x \in {from, N} : \A y \in {from, N} : x <= y
      BY <1>0
    <2>. DEFINE x == Min({from, N})
    <2>2. x \in {from, N} /\ \A y \in {from, N} : x <= y
      BY <2>1 DEF Min
    <2>. HIDE DEF x
    <2>3. x \in 0..N
      BY <2>2, <1>0
    <2>. QED  BY <2>3 DEF x
  <1>. QED  BY <1>7, <1>13, <1>14 DEF Good

\* Replacing one schema or channel keeps the two maps finite.
LEMMA WithFacts ==
    ASSUME NEW acc, ChannelsOK(acc), NEW id, NEW x
    PROVE  /\ ChannelsOK([acc EXCEPT !.schemas = With(@, id, x)])
           /\ ChannelsOK([acc EXCEPT !.channels = With(@, id, x)])
  <1>1. ASSUME NEW map, IsFiniteSet(DOMAIN map) PROVE IsFiniteSet(DOMAIN With(map, id, x))
    <2>1. DOMAIN With(map, id, x) = DOMAIN map \cup {id}
      BY DEF With
    <2>. QED  BY <1>1, <2>1, FS_AddElement
  <1>. QED  BY <1>1 DEF ChannelsOK

\* A definition read from a chunk keeps the collected summary well formed.
LEMMA DefineFacts ==
    ASSUME NEW data, SummaryOK(data), NEW res, ChannelsOK(res.acc)
    PROVE  SummaryOK(Define(data, res))
  BY DEF SummaryOK, Define

\* An index record keeps the collected summary well formed.
LEMMA CollectIndexFacts ==
    ASSUME NEW data, SummaryOK(data), NEW r
    PROVE  SummaryOK(CollectIndex(data, r))
  <1>1. IsSeq(<<r.v>>)
    BY SingletonFacts
  <1>2. \A s : IsSeq(s) => IsSeq(Append(s, r.v))
    BY AppendFacts
  <1>3. /\ SummaryOK([data EXCEPT !.statistics = <<r.v>>])
        /\ SummaryOK([data EXCEPT !.error = "record"])
    BY <1>1 DEF SummaryOK
  <1>4. SummaryOK([data EXCEPT !.chunk_indexes = Append(@, r.v)])
    BY <1>2 DEF SummaryOK
  <1>5. SummaryOK([data EXCEPT !.attachment_indexes = Append(@, r.v)])
    BY <1>2 DEF SummaryOK
  <1>6. SummaryOK([data EXCEPT !.metadata_indexes = Append(@, r.v)])
    BY <1>2 DEF SummaryOK
  <1>. QED  BY <1>3, <1>4, <1>5, <1>6 DEF CollectIndex

\* A record of the old summary section keeps the collected summary well formed.
LEMMA ReadSummaryRecordFacts ==
    ASSUME NEW data, SummaryOK(data), NEW r
    PROVE  SummaryOK(ReadSummaryRecord(data, r))
  <1>0. ChannelsOK(data.acc)
    BY DEF SummaryOK
  <1>1. ChannelsOK(AddSchema(data.acc, r.v).acc)
    BY <1>0, WithFacts DEF AddSchema, Accepted, Refused
  <1>2. ChannelsOK(AddChannel(data.acc, r.v).acc)
    BY <1>0, WithFacts DEF AddChannel, Accepted, Refused
  <1>. QED  BY <1>1, <1>2, DefineFacts, CollectIndexFacts DEF ReadSummaryRecord

\* Any record of the old file keeps the collected summary well formed.
LEMMA CollectRecordFacts ==
    ASSUME NEW data, SummaryOK(data), NEW r
    PROVE  SummaryOK(CollectRecord(data, r))
  <1>0. ChannelsOK(data.acc)
    BY DEF SummaryOK
  <1>1. ChannelsOK([data.acc EXCEPT !.schemas = Insert(data.acc.schemas, r.v).map])
    <2>1. CASE Known(data.acc.schemas, r.v.id)
      BY <2>1, <1>0 DEF Insert, ChannelsOK
    <2>2. CASE ~Known(data.acc.schemas, r.v.id)
      BY <2>2, <1>0, WithFacts DEF Insert
    <2>. QED  BY <2>1, <2>2
  <1>2. ChannelsOK([data.acc EXCEPT !.channels = Insert(data.acc.channels, r.v).map])
    <2>1. CASE Known(data.acc.channels, r.v.id)
      BY <2>1, <1>0 DEF Insert, ChannelsOK
    <2>2. CASE ~Known(data.acc.channels, r.v.id)
      BY <2>2, <1>0, WithFacts DEF Insert
    <2>. QED  BY <2>1, <2>2
  <1>. QED  BY <1>1, <1>2, DefineFacts, CollectIndexFacts DEF CollectRecord

\* The loops over the records of a summary and of a chunk.
KeepsSummary(c, data) == SummaryOK(data)

Reading == INSTANCE Induction WITH Holds <- KeepsSummary, Step <- ReadSummaryRecord
Collecting == INSTANCE Induction WITH Holds <- KeepsSummary, Step <- CollectRecord
Nesting == INSTANCE Induction WITH Holds <- KeepsSummary, Step <- CollectNested

\* The summary collected from a file is well formed.
LEMMA CollectFacts ==
    ASSUME NEW cells, IsSeq(cells), Footer(cells).summary_start \in Nat,
           \A i \in 1..Len(cells) : IsChunk(cells[i]) => IsSeq(cells[i].Chunk.v)
    PROVE  SummaryOK(CollectExistingSummary(cells))
  <1>1. SummaryOK(NoSummary)
    BY EmptyFacts, FS_EmptySet DEF SummaryOK, NoSummary, ChannelsOK, NoChannels
  <1>2. CASE Footer(cells).summary_start # 0
    <2>. DEFINE s == RecordsFrom(cells, Footer(cells).summary_start)
    <2>1. IsSeq(s)
      BY RecordsFromFacts
    <2>. HIDE DEF s
    <2>2. \A data : \A r \in ToSet(s) : SummaryOK(data) => SummaryOK(ReadSummaryRecord(data, r))
      BY ReadSummaryRecordFacts
    <2>3. SummaryOK(FoldLeft(ReadSummaryRecord, NoSummary, s))
      BY <1>1, <2>1, <2>2, Reading!FoldInvariant
            DEF KeepsSummary, Reading!IsSeq, Reading!ToSet, Reading!FoldLeft, Reading!MapThenFoldSet, Reading!Max,
                FoldLeft, MapThenFoldSet, Max, IsSeq, ToSet
    <2>. QED  BY <1>2, <2>3 DEF CollectExistingSummary, s
  <1>3. CASE Footer(cells).summary_start = 0
    <2>. DEFINE s == RecordsFrom(cells, 1)
    <2>1. IsSeq(s) /\ \A r \in ToSet(s) : r.op = "Chunk" => IsSeq(r.v)
      BY RecordsFromFacts
    <2>. HIDE DEF s
    <2>2. ASSUME NEW data, NEW r \in ToSet(s), SummaryOK(data)
          PROVE  SummaryOK(CollectNested(data, r))
      <3>1. CASE r.op # "Chunk"
        BY <2>2, <3>1, CollectRecordFacts DEF CollectNested
      <3>2. CASE r.op = "Chunk"
        <4>1. IsSeq(r.v)
          BY <2>1, <3>2
        <4>2. \A d : \A x \in ToSet(r.v) : SummaryOK(d) => SummaryOK(CollectRecord(d, x))
          BY CollectRecordFacts
        <4>3. SummaryOK(FoldLeft(CollectRecord, data, r.v))
          BY <2>2, <4>1, <4>2, Collecting!FoldInvariant
            DEF KeepsSummary, Collecting!IsSeq, Collecting!ToSet, Collecting!FoldLeft, Collecting!MapThenFoldSet, Collecting!Max,
                FoldLeft, MapThenFoldSet, Max, IsSeq, ToSet
        <4>. QED  BY <3>2, <4>3 DEF CollectNested
      <3>. QED  BY <3>1, <3>2
    <2>3. SummaryOK(FoldLeft(CollectNested, NoSummary, s))
      BY <1>1, <2>1, <2>2, Nesting!FoldInvariant
            DEF KeepsSummary, Nesting!IsSeq, Nesting!ToSet, Nesting!FoldLeft, Nesting!MapThenFoldSet, Nesting!Max,
                FoldLeft, MapThenFoldSet, Max, IsSeq, ToSet
    <2>. QED  BY <1>3, <2>3 DEF CollectExistingSummary, s
  <1>. QED  BY <1>2, <1>3

\* The sorted lists the new summary is written from are sequences.
LEMMA SortedFacts ==
    /\ \A map : IsFiniteSet(DOMAIN map) => IsSeq(ById(map))
    /\ \A old, new : IsSeq(old) /\ IsSeq(new) => IsSeq(MergeIndexes(old, new))
  <1>1. ASSUME NEW map, IsFiniteSet(DOMAIN map) PROVE IsSeq(ById(map))
    <2>. DEFINE n == Cardinality(DOMAIN map)
                at(i) == CHOOSE x \in DOMAIN map : Cardinality({y \in DOMAIN map : y < x}) = i - 1
                r == [i \in 1..n |-> at(i)]
                ids == SortedSet(DOMAIN map, LAMBDA a, b : a < b)
                s == ById(map)
    <2>0. n \in Nat
      BY <1>1, FS_CardinalityType
    <2>a. ids = r \o <<>> /\ s = [i \in DOMAIN ids |-> map[ids[i]]]
      BY DEF ById, SortedSet
    <2>. HIDE DEF n, at, ids
    <2>b. DOMAIN r = 1..n /\ r = [i \in 1..n |-> r[i]]
      OBVIOUS
    <2>. HIDE DEF r
    <2>c. IsSeq(r)
      BY <2>0, <2>b, FunctionIsSeq
    <2>1. n \in Nat /\ ids = r /\ DOMAIN ids = 1..n
      BY <2>0, <2>a, <2>b, <2>c, ConcatEmpty
    <2>2. DOMAIN s = 1..n /\ s = [i \in 1..n |-> s[i]]
      BY <2>1, <2>a
    <2>. HIDE DEF n, s
    <2>3. IsSeq(s)
      BY <2>1, <2>2, FunctionIsSeq
    <2>. QED  BY <2>3 DEF s
  <1>2. ASSUME NEW old, NEW new, IsSeq(old), IsSeq(new) PROVE IsSeq(MergeIndexes(old, new))
    <2>. DEFINE all == old \o new
                s == MergeIndexes(old, new)
    <2>1. IsSeq(all)
      BY <1>2, ConcatFacts
    <2>2. DOMAIN s = DOMAIN all /\ s = [i \in DOMAIN all |-> s[i]]
      BY DEF MergeIndexes, StableSort
    <2>. HIDE DEF all, s
    <2>3. Len(all) \in Nat /\ DOMAIN all = 1..Len(all)
      BY <2>1, IsSeqFacts
    <2>4. IsSeq(s)
      BY <2>2, <2>3, FunctionIsSeq
    <2>. QED  BY <2>4 DEF s
  <1>. QED  BY <1>1, <1>2

SummaryOps ==
    {"Schema", "Channel", "Statistics", "ChunkIndex", "AttachmentIndex", "MetadataIndex"}

IsGroup(g) == g[1] \in SummaryOps /\ IsSeq(g[2])

\* The groups of the new summary are sequences of records that are neither footers nor
\* chunks.
LEMMA GroupsFacts ==
    ASSUME NEW data, SummaryOK(data), NEW a, IsSeq(a), NEW m, IsSeq(m)
    PROVE  IsSeq(Groups(data, a, m)) /\ \A g \in ToSet(Groups(data, a, m)) : IsGroup(g)
  <1>. DEFINE g1 == <<"Schema", ById(data.acc.schemas)>>
              g2 == <<"Channel", ById(data.acc.channels)>>
              g3 == <<"Statistics", data.statistics>>
              g4 == <<"ChunkIndex", data.chunk_indexes>>
              g5 == <<"AttachmentIndex", MergeIndexes(data.attachment_indexes, a)>>
              g6 == <<"MetadataIndex", MergeIndexes(data.metadata_indexes, m)>>
              s == <<g1, g2, g3, g4, g5, g6>>
  <1>1. IsGroup(g1) /\ IsGroup(g2) /\ IsGroup(g3) /\ IsGroup(g4) /\ IsGroup(g5) /\ IsGroup(g6)
    BY SortedFacts DEF IsGroup, SummaryOps, SummaryOK, ChannelsOK
  <1>2. Groups(data, a, m) = s
    BY DEF Groups
  <1>. HIDE DEF g1, g2, g3, g4, g5, g6
  <1>3. s \in Seq({g1, g2, g3, g4, g5, g6})
    OBVIOUS
  <1>. HIDE DEF s
  <1>4. IsSeq(s) /\ ToSet(s) \subseteq {g1, g2, g3, g4, g5, g6}
    BY <1>3, SeqType
  <1>. QED  BY <1>1, <1>2, <1>4

\* The records of a sequence of values.
RecordsOf(op, values) == FlattenSeq([i \in DOMAIN values |-> Record(op, values[i], 1)])

\* The encoded records of a group hold neither a footer nor a chunk.
LEMMA RecordsOfFacts ==
    ASSUME NEW op, op \notin {"Footer", "Chunk"}, NEW values, IsSeq(values)
    PROVE  IsSeq(RecordsOf(op, values)) /\ \A c \in ToSet(RecordsOf(op, values)) : Inert(c)
  <1>. DEFINE n == Len(values)
              s == [i \in DOMAIN values |-> Record(op, values[i], 1)]
  <1>0. n \in Nat /\ DOMAIN values = 1..n
    BY IsSeqFacts
  <1>1. DOMAIN s = 1..n /\ s = [i \in 1..n |-> s[i]] /\ \A i \in 1..n : s[i] = Record(op, values[i], 1)
    BY <1>0
  <1>2. RecordsOf(op, values) = FlattenSeq(s)
    BY DEF RecordsOf
  <1>. HIDE DEF s, n
  <1>3. IsSeq(s) /\ Len(s) = n
    BY <1>0, <1>1, FunctionIsSeq
  <1>4. ASSUME NEW i \in 1..n PROVE IsSeq(s[i]) /\ \A c \in ToSet(s[i]) : Inert(c)
    <2>1. LET r == Record(op, values[i], 1) IN IsSeq(r) /\ \A c \in ToSet(r) : Inert(c)
      BY RecordFacts, 1 \in Nat
    <2>. QED  BY <1>1, <2>1
  <1>5. /\ IsSeq(FlattenSeq(s))
        /\ \A x \in ToSet(FlattenSeq(s)) : \E i \in 1..Len(s) : x \in ToSet(s[i])
    BY <1>3, <1>4, FlattenFacts
  <1>. QED  BY <1>2, <1>3, <1>4, <1>5

BuildOK(build) ==
    /\ DOMAIN build = {"bytes", "offsets", "start"}
    /\ IsSeq(build.bytes) /\ \A x \in ToSet(build.bytes) : Inert(x)
    /\ IsSeq(build.offsets)

\* Adding one group keeps the summary under construction well formed.
LEMMA AddGroupFacts ==
    ASSUME NEW build, BuildOK(build), NEW g, IsGroup(g)
    PROVE  BuildOK(AddGroup(build, g))
  <1>. DEFINE bytes == RecordsOf(g[1], g[2])
              off == [op |-> g[1], start |-> build.start + Len(build.bytes),
                      length |-> Len(bytes)]
              new == [build EXCEPT !.bytes = @ \o bytes, !.offsets = Append(@, off)]
  <1>1. IsSeq(bytes) /\ \A x \in ToSet(bytes) : Inert(x)
    BY RecordsOfFacts DEF IsGroup, SummaryOps
  <1>2. AddGroup(build, g) = build \/ AddGroup(build, g) = new
    BY DEF AddGroup, RecordsOf
  <1>. HIDE DEF bytes, off
  <1>3. /\ IsSeq(build.bytes \o bytes)
        /\ \A x \in ToSet(build.bytes \o bytes) : Inert(x)
        /\ IsSeq(Append(build.offsets, off))
    BY <1>1, ConcatFacts, ConcatElements, AppendFacts DEF BuildOK
  <1>4. /\ DOMAIN new = DOMAIN build /\ new.bytes = build.bytes \o bytes
        /\ new.offsets = Append(build.offsets, off)
    BY DEF BuildOK
  <1>. HIDE DEF new
  <1>5. BuildOK(new)
    BY <1>3, <1>4 DEF BuildOK
  <1>. QED  BY <1>2, <1>5

KeepsBuild(c, build) == BuildOK(build)

Grouping == INSTANCE Induction WITH Holds <- KeepsBuild, Step <- AddGroup

\* Adding all the groups keeps the summary under construction well formed.
LEMMA AddGroupsFacts ==
    ASSUME NEW base, BuildOK(base), NEW groups, IsSeq(groups),
           \A g \in ToSet(groups) : IsGroup(g)
    PROVE  BuildOK(FoldLeft(AddGroup, base, groups))
  <1>1. \A value : \A g \in ToSet(groups) : BuildOK(value) => BuildOK(AddGroup(value, g))
    BY AddGroupFacts
  <1>. QED  BY <1>1, Grouping!FoldInvariant
            DEF KeepsBuild, Grouping!IsSeq, Grouping!ToSet, Grouping!FoldLeft, Grouping!MapThenFoldSet,
                Grouping!Max, FoldLeft, MapThenFoldSet, Max, IsSeq, ToSet

\* The bytes of a new summary hold neither a footer nor a chunk, and its start is absent or
\* where it was told to start.
LEMMA BuildSummaryFacts ==
    ASSUME NEW data, SummaryOK(data), NEW a, IsSeq(a), NEW m, IsSeq(m), NEW start, NEW emit
    PROVE  LET build == BuildSummary(data, a, m, start, emit) IN
           /\ IsSeq(build.bytes) /\ \A x \in ToSet(build.bytes) : Inert(x)
           /\ build.summary_start \in {0, start}
  <1>. DEFINE groups == Groups(data, a, m)
              base == [bytes |-> <<>>, offsets |-> <<>>, start |-> start]
              b == FoldLeft(AddGroup, base, groups)
              offs == RecordsOf("SummaryOffset", b.offsets)
              build == BuildSummary(data, a, m, start, emit)
  <1>1. IsSeq(groups) /\ \A g \in ToSet(groups) : IsGroup(g)
    BY GroupsFacts
  <1>2. BuildOK(base)
    BY EmptyFacts DEF BuildOK
  <1>3. BuildOK(b)
    BY <1>1, <1>2, AddGroupsFacts DEF FoldLeft, MapThenFoldSet
  <1>4. /\ build.bytes = b.bytes \/ build.bytes = b.bytes \o offs
        /\ build.summary_start \in {0, start}
    BY DEF BuildSummary, RecordsOf
  <1>. HIDE DEF b, groups, base, build
  <1>5. IsSeq(offs) /\ \A x \in ToSet(offs) : Inert(x)
    BY <1>3, RecordsOfFacts DEF BuildOK
  <1>. HIDE DEF offs
  <1>6. IsSeq(b.bytes \o offs) /\ \A x \in ToSet(b.bytes \o offs) : Inert(x)
    BY <1>3, <1>5, ConcatFacts, ConcatElements DEF BuildOK
  <1>7. IsSeq(build.bytes) /\ \A x \in ToSet(build.bytes) : Inert(x)
    BY <1>3, <1>4, <1>6 DEF BuildOK
  <1>. QED  BY <1>4, <1>7 DEF build

\* Counting the new records keeps the collected summary well formed.
LEMMA AddToStatisticsFacts ==
    ASSUME NEW data, SummaryOK(data), NEW n, NEW m
    PROVE  SummaryOK(AddToStatistics(data, n, m))
  <1>1. CASE data.statistics = <<>>
    BY <1>1 DEF AddToStatistics
  <1>2. CASE data.statistics # <<>>
    <2>. DEFINE new == AddToStatistics(data, n, m)
                s == new.statistics
    <2>1. /\ DOMAIN new = DOMAIN data
          /\ \A f \in DOMAIN data \ {"statistics"} : new[f] = data[f]
      BY <1>2 DEF AddToStatistics, SummaryOK
    <2>2. DOMAIN s = DOMAIN data.statistics /\ s = [i \in DOMAIN data.statistics |-> s[i]]
      BY <1>2 DEF AddToStatistics, SummaryOK
    <2>. HIDE DEF new
    <2>3. IsSeq(s)
      <3>. HIDE DEF s
      <3>1. IsSeq(data.statistics)
        BY DEF SummaryOK
      <3>2. Len(data.statistics) \in Nat /\ DOMAIN data.statistics = 1..Len(data.statistics)
        BY <3>1, IsSeqFacts
      <3>. QED  BY <2>2, <3>2, FunctionIsSeq
    <2>4. SummaryOK(new)
      BY <2>1, <2>3 DEF SummaryOK
    <2>. QED  BY <2>4 DEF new
  <1>. QED  BY <1>1, <1>2

-------------------------------------------------------------------------------
(* The new tail.                                                           *)

\* Writing a part of what is to be written changes nothing of the new tail.
LEMMA WriteSomeTail ==
    ASSUME NEW cells, IsSeq(cells), NEW pos \in 0..Len(cells), NEW out, IsSeq(out),
           NEW n \in 1..Len(out), NEW from \in Nat, from <= pos, NEW at,
           NewTail(at, cells, pos, out, from)
    PROVE  LET new == Overwrite(cells, pos, SubSeq(out, 1, n))
               rest == SubSeq(out, n + 1, Len(out)) IN
           /\ IsSeq(rest) /\ IsSeq(new) /\ Len(new) >= pos + n
           /\ NewTail(at, new, pos + n, rest, from)
  <1>. DEFINE part == SubSeq(out, 1, n)
              rest == SubSeq(out, n + 1, Len(out))
              new == Overwrite(cells, pos, part)
  <1>0. Len(cells) \in Nat /\ Len(out) \in Nat /\ pos \in Nat /\ n \in Nat /\ n <= Len(out)
    BY IsSeqFacts
  <1>1. IsSeq(part) /\ Len(part) = n /\ \A i \in 1..n : part[i] = out[i]
    BY <1>0, SubSeqFacts
  <1>2. IsSeq(rest) /\ Len(rest) = Len(out) - n /\ \A i \in 1..(Len(out) - n) : rest[i] = out[n + i]
    <2>1. n + 1 \in Nat /\ 1 <= n + 1 /\ n + 1 <= Len(out) + 1
      BY <1>0
    <2>2. /\ IsSeq(rest) /\ Len(rest) = Len(out) - (n + 1) + 1
          /\ \A i \in 1..(Len(out) - (n + 1) + 1) : rest[i] = out[(n + 1) + i - 1]
      BY <1>0, <2>1, SubSeqFacts
    <2>. HIDE DEF rest
    <2>3. Len(out) - (n + 1) + 1 = Len(out) - n
      BY <1>0
    <2>4. \A i \in 1..(Len(out) - n) : (n + 1) + i - 1 = n + i
      BY <1>0
    <2>. QED  BY <2>2, <2>3, <2>4
  <1>. HIDE DEF part, rest
  <1>3. /\ IsSeq(new) /\ Len(new) >= Len(cells) /\ Len(new) >= pos + Len(part)
        /\ \A i \in 1..Len(new) :
             new[i] = IF i > pos /\ i <= pos + Len(part) THEN part[i - pos] ELSE cells[i]
    BY <1>1, OverwriteFacts
  <1>. HIDE DEF new
  <1>4. Len(new) \in Nat
    BY <1>3, IsSeqFacts
  <1>5. (pos + n) + Len(rest) = pos + Len(out)
    BY <1>0, <1>2
  <1>6. ASSUME NEW i \in (from + 1)..(pos + Len(out))
        PROVE  NewCell(new, pos + n, rest, i) = NewCell(cells, pos, out, i)
    <2>0. i \in Nat /\ i >= 1
      BY <1>0
    <2>1. CASE i <= pos
      BY <2>1, <2>0, <1>0, <1>1, <1>3, <1>4 DEF NewCell
    <2>2. CASE i > pos /\ i <= pos + n
      <3>1. i \in 1..Len(new) /\ i - pos \in 1..n
        BY <2>2, <2>0, <1>0, <1>1, <1>3, <1>4
      <3>2. new[i] = part[i - pos] /\ part[i - pos] = out[i - pos]
        BY <3>1, <2>2, <1>1, <1>3
      <3>. QED  BY <3>2, <2>2, <2>0, <1>0 DEF NewCell
    <2>3. CASE i > pos + n
      <3>1. i - (pos + n) \in 1..(Len(out) - n) /\ n + (i - (pos + n)) = i - pos
            /\ ~(i <= pos) /\ ~(i <= pos + n)
        BY <2>3, <2>0, <1>0
      <3>. QED  BY <3>1, <1>2 DEF NewCell
    <2>. QED  BY <2>1, <2>2, <2>3, <2>0, <1>0
  <1>7. \A a, e : FooterOnlyAt(cells, pos, out, from, a, e)
                     => FooterOnlyAt(new, pos + n, rest, from, a, e)
    <2>. HIDE DEF new, rest
    <2>. QED  BY <1>5, <1>6 DEF FooterOnlyAt
  <1>8. NewTail(at, new, pos + n, rest, from)
    BY <1>5, <1>7 DEF NewTail
  <1>9. Len(new) >= pos + n
    BY <1>0, <1>1, <1>3, <1>4
  <1>. QED  BY <1>2, <1>3, <1>8, <1>9 DEF new, part, rest

\* Once all is written, something more is to be written.
LEMMA NextTail ==
    ASSUME NEW cells, NEW pos \in Nat, NEW out, IsSeq(out), NEW from \in Nat, from <= pos,
           FooterOnlyAt(cells, pos, <<>>, from, 0, 0), \A c \in ToSet(out) : Inert(c)
    PROVE  FooterOnlyAt(cells, pos, out, from, 0, 0)
  <1>0. Len(out) \in Nat /\ \A i \in 1..Len(out) : out[i] \in ToSet(out)
    BY IsSeqFacts
  <1>1. ASSUME NEW i \in (from + 1)..(pos + Len(out))
        PROVE  ~IsChunk(NewCell(cells, pos, out, i)) /\ ~IsFooter(NewCell(cells, pos, out, i))
    <2>1. CASE i <= pos
      <3>1. i \in (from + 1)..(pos + Len(<<>>)) /\ i # 0
            /\ NewCell(cells, pos, out, i) = NewCell(cells, pos, <<>>, i)
        BY <2>1, EmptyFacts DEF NewCell
      <3>. QED  BY <3>1 DEF FooterOnlyAt
    <2>2. CASE i > pos
      <3>1. i - pos \in 1..Len(out) /\ ~(i <= pos)
        BY <2>2, <1>0
      <3>. QED  BY <3>1, <1>0 DEF NewCell, Inert
    <2>. QED  BY <2>1, <2>2, <1>0
  <1>. QED  BY <1>1 DEF FooterOnlyAt

\* Once the footer is written, the only footer of the new tail is that one, and it leads into
\* the tail.
LEMMA FooterTail ==
    ASSUME NEW cells, NEW pos \in Nat, NEW from \in Nat, from <= pos, NEW layout, NEW build,
           FooterOnlyAt(cells, pos, <<>>, from, 0, 0), LeadsInto(from, build.summary_start, pos)
    PROVE  FooterOnlyAt(cells, pos, FooterRecord(layout, build), from, pos + 2, pos)
  <1>. DEFINE r == FooterRecord(layout, build)
  <1>0. Len(r) = 2 /\ Inert(r[1]) /\ ~IsChunk(r[2])
        /\ r[2].Footer.v.summary_start = build.summary_start
    BY FooterRecordFacts
  <1>. HIDE DEF r
  <1>1. ASSUME NEW i \in (from + 1)..(pos + Len(r))
        PROVE  LET cell == NewCell(cells, pos, r, i) IN
               /\ ~IsChunk(cell)
               /\ IsFooter(cell) =>
                    i = pos + 2 /\ LeadsInto(from, cell.Footer.v.summary_start, pos)
    <2>1. CASE i <= pos
      <3>1. i \in (from + 1)..(pos + Len(<<>>)) /\ i # 0
            /\ NewCell(cells, pos, r, i) = NewCell(cells, pos, <<>>, i)
        BY <2>1, EmptyFacts DEF NewCell
      <3>. QED  BY <3>1 DEF FooterOnlyAt
    <2>2. CASE i = pos + 1
      <3>1. NewCell(cells, pos, r, i) = r[1]
        BY <2>2 DEF NewCell
      <3>. QED  BY <3>1, <1>0 DEF Inert
    <2>3. CASE i = pos + 2
      <3>1. NewCell(cells, pos, r, i) = r[2]
        BY <2>3 DEF NewCell
      <3>. QED  BY <2>3, <3>1, <1>0
    <2>. QED  BY <2>1, <2>2, <2>3, <1>0
  <1>2. FooterOnlyAt(cells, pos, r, from, pos + 2, pos)
    BY <1>1 DEF FooterOnlyAt
  <1>. QED  BY <1>2 DEF r

\* The closing magic adds no footer to the tail.
LEMMA MagicTail ==
    ASSUME NEW cells, NEW pos \in Nat, NEW from \in Nat, from <= pos, NEW end,
           FooterOnlyAt(cells, pos, <<>>, from, pos, end)
    PROVE  FooterOnlyAt(cells, pos, <<Magic>>, from, pos, end)
  <1>0. Len(<<Magic>>) = 1 /\ <<Magic>>[1] = Magic /\ DOMAIN Magic = {"magic"}
    BY SingletonFacts DEF Magic
  <1>1. ~IsChunk(Magic) /\ ~IsFooter(Magic)
    BY <1>0 DEF IsChunk, IsFooter
  <1>. DEFINE r == <<Magic>>
  <1>2. Len(r) = 1 /\ r[1] = Magic
    BY <1>0
  <1>. HIDE DEF r
  <1>3. ASSUME NEW i \in (from + 1)..(pos + Len(r))
        PROVE  LET cell == NewCell(cells, pos, r, i) IN
               /\ ~IsChunk(cell)
               /\ IsFooter(cell) =>
                    i = pos /\ LeadsInto(from, cell.Footer.v.summary_start, end)
    <2>1. CASE i <= pos
      <3>1. i \in (from + 1)..(pos + Len(<<>>))
            /\ NewCell(cells, pos, r, i) = NewCell(cells, pos, <<>>, i)
        BY <2>1, EmptyFacts DEF NewCell
      <3>. QED  BY <3>1 DEF FooterOnlyAt
    <2>2. CASE i = pos + 1
      <3>1. NewCell(cells, pos, r, i) = r[1]
        BY <2>2 DEF NewCell
      <3>. QED  BY <3>1, <1>1, <1>2
    <2>. QED  BY <2>1, <2>2, <1>2
  <1>4. FooterOnlyAt(cells, pos, r, from, pos, end)
    BY <1>3 DEF FooterOnlyAt
  <1>. QED  BY <1>4 DEF r

\* A new tail that begins at or after `off` has no footer that leads before it.
LEMMA TailPast ==
    ASSUME NEW at, NEW cells, NEW pos \in Nat, NEW out, IsSeq(out), NEW from \in Nat,
           NEW off \in Nat, off <= from, NewTail(at, cells, pos, out, from),
           NEW i \in (from + 1)..(pos + Len(out))
    PROVE  LET cell == NewCell(cells, pos, out, i) IN
           ~IsChunk(cell) /\ (IsFooter(cell) => LeadsPast(cell, off))
  <1>. DEFINE cell == NewCell(cells, pos, out, i)
  <1>0. Len(out) \in Nat
    BY IsSeqFacts
  <1>1. \E a, e : FooterOnlyAt(cells, pos, out, from, a, e) /\ e \in Int
    BY <1>0 DEF NewTail
  <1>2. PICK a, e : FooterOnlyAt(cells, pos, out, from, a, e) /\ e \in Int
    BY <1>1
  <1>3. ~IsChunk(cell) /\ (IsFooter(cell) => LeadsInto(from, cell.Footer.v.summary_start, e))
    BY <1>2 DEF FooterOnlyAt
  <1>. HIDE DEF cell
  <1>4. IsFooter(cell) => LeadsPast(cell, off)
    BY <1>2, <1>3 DEF LeadsPast, LeadsInto, DATA_END_RECORD_LEN
  <1>. QED  BY <1>3, <1>4 DEF cell

\* Writing any prefix of a sound tail behind the data section keeps the file sound, and the
\* data section untouched.
LEMMA SoundOverwrite ==
    ASSUME NEW at, NEW cells, NEW pos \in 0..Len(cells), NEW out, IsSeq(out),
           NEW n \in 1..Len(out), NEW from \in Nat, from <= pos,
           NEW off \in Nat, off <= from, Sound(cells, off), NewTail(at, cells, pos, out, from)
    PROVE  LET new == Overwrite(cells, pos, SubSeq(out, 1, n)) IN
           Sound(new, off) /\ SameUpTo(new, cells, pos)
  <1>. DEFINE part == SubSeq(out, 1, n)
              new == Overwrite(cells, pos, part)
  <1>0. /\ IsSeq(cells) /\ Len(cells) \in Nat /\ Len(out) \in Nat /\ pos \in Nat
        /\ n \in Nat /\ n <= Len(out) /\ Len(cells) >= off + 5
    BY IsSeqFacts DEF Sound
  <1>1. IsSeq(part) /\ Len(part) = n /\ \A i \in 1..n : part[i] = out[i]
    BY <1>0, SubSeqFacts
  <1>. HIDE DEF part
  <1>2. /\ IsSeq(new) /\ Len(new) >= Len(cells)
        /\ \A i \in 1..Len(new) :
             new[i] = IF i > pos /\ i <= pos + Len(part) THEN part[i - pos] ELSE cells[i]
        /\ \A i \in 1..Len(new) : i <= pos + Len(part) \/ i <= Len(cells)
    BY <1>0, <1>1, OverwriteFacts
  <1>. HIDE DEF new
  <1>3. Len(new) \in Nat
    BY <1>2, IsSeqFacts
  <1>4. ASSUME NEW i \in 1..Len(new)
        PROVE  /\ IsChunk(new[i]) => IsSeq(new[i].Chunk.v)
               /\ i > off /\ IsFooter(new[i]) => LeadsPast(new[i], off)
    <2>1. CASE i > pos /\ i <= pos + n
      <3>1. i - pos \in 1..n /\ i \in (from + 1)..(pos + Len(out)) /\ ~(i <= pos)
        BY <2>1, <1>0, <1>3
      <3>2. new[i] = NewCell(cells, pos, out, i)
        BY <2>1, <3>1, <1>1, <1>2 DEF NewCell
      <3>3. ~IsChunk(NewCell(cells, pos, out, i))
            /\ (IsFooter(NewCell(cells, pos, out, i)) => LeadsPast(NewCell(cells, pos, out, i), off))
        BY <3>1, <1>0, TailPast
      <3>. QED  BY <3>2, <3>3
    <2>2. CASE ~(i > pos /\ i <= pos + n)
      <3>1. new[i] = cells[i] /\ i \in 1..Len(cells)
        BY <2>2, <1>0, <1>1, <1>2, <1>3
      <3>. QED  BY <3>1 DEF Sound
    <2>. QED  BY <2>1, <2>2
  <1>5. Len(new) >= off + 5
    BY <1>0, <1>2, <1>3
  <1>6. \A i \in 1..pos : new[i] = cells[i]
    BY <1>0, <1>2, <1>3
  <1>7. Sound(new, off)
    BY <1>2, <1>4, <1>5 DEF Sound
  <1>8. SameUpTo(new, cells, pos)
    BY <1>6 DEF SameUpTo
  <1>. QED  BY <1>7, <1>8 DEF new, part

\* Cutting a file behind its DataEnd keeps it sound.
LEMMA SoundTruncate ==
    ASSUME NEW cells, NEW off \in Nat, Sound(cells, off),
           NEW pos \in 0..Len(cells), pos >= off + 5
    PROVE  LET new == SubSeq(cells, 1, pos) IN
           Sound(new, off) /\ Len(new) = pos /\ \A i \in 1..pos : new[i] = cells[i]
  <1>. DEFINE new == SubSeq(cells, 1, pos)
  <1>0. IsSeq(cells) /\ Len(cells) \in Nat /\ pos \in Nat /\ pos <= Len(cells)
    BY IsSeqFacts DEF Sound
  <1>1. IsSeq(new) /\ Len(new) = pos /\ \A i \in 1..pos : new[i] = cells[i]
    BY <1>0, SubSeqFacts
  <1>. HIDE DEF new
  <1>2. \A i \in 1..pos : i \in 1..Len(cells)
    BY <1>0
  <1>3. Sound(new, off)
    BY <1>1, <1>2 DEF Sound
  <1>. QED  BY <1>1, <1>3 DEF new

\* An amended file can be amended again.
LEMMA AmendedFresh ==
    ASSUME NEW cells, NEW off \in Nat, Sound(cells, off), NEW from \in Nat,
           NewTail("remove", cells, Len(cells), <<>>, from)
    PROVE  Fresh(cells)
  <1>. DEFINE n == Len(cells)
              start == Footer(cells).summary_start
              e == DataEndOffset(cells)
  <1>0. IsSeq(cells) /\ n \in Nat
    BY IsSeqFacts DEF Sound
  <1>1. FooterOnlyAt(cells, n, <<>>, from, n - 1, n - 3) /\ n >= from + 5
    BY <1>0, EmptyFacts DEF NewTail
  <1>2. ASSUME NEW i \in (from + 1)..n, IsFooter(cells[i])
        PROVE  i = n - 1 /\ LeadsInto(from, cells[i].Footer.v.summary_start, n - 3)
    <2>1. i \in (from + 1)..(n + Len(<<>>)) /\ NewCell(cells, n, <<>>, i) = cells[i]
      BY <1>0, EmptyFacts DEF NewCell
    <2>. QED  BY <1>1, <1>2, <2>1 DEF FooterOnlyAt
  <1>3. ASSUME HasLayout(cells) PROVE e \in Nat /\ Sound(cells, e)
    <2>1. IsFooter(cells[n - 1]) /\ n - 1 \in (from + 1)..n
      BY <1>0, <1>1, <1>3 DEF HasLayout, HasFooter, IsFooter
    <2>2. start \in Nat /\ (start = 0 \/ start \in (from + 2)..(n - 3))
      BY <2>1, <1>2 DEF LeadsInto, Footer
    <2>3. e = IF start > 0 THEN start - 2 ELSE n - 1 - 2 - 2
      BY DEF DataEndOffset, DATA_END_RECORD_LEN, FOOTER_RECORD_LEN
    <2>. HIDE DEF e
    <2>4. e \in Nat /\ e >= from /\ n >= e + 5 /\ (start = 0 \/ start >= e + 2)
      BY <1>0, <1>1, <2>2, <2>3
    <2>5. ASSUME NEW i \in 1..n, i > e, IsFooter(cells[i]) PROVE LeadsPast(cells[i], e)
      <3>1. i \in (from + 1)..n
        BY <2>4, <2>5, <1>0
      <3>2. i = n - 1
        BY <3>1, <2>5, <1>2
      <3>. QED  BY <3>2, <2>2, <2>4 DEF LeadsPast, Footer, DATA_END_RECORD_LEN
    <2>. QED  BY <2>4, <2>5, <1>0 DEF Sound
  <1>4. n > 0
    BY <1>0, <1>1
  <1>. QED  BY <1>0, <1>3, <1>4 DEF Fresh

\* Every file a command may be started on is complete and sound.
LEMMA FilesFresh ==
    ASSUME NEW f \in Files
    PROVE  Fresh(f)
  <1>. DEFINE n == Len(f)
              start == Footer(f).summary_start
              e == DataEndOffset(f)
  <1>0. IsSeq(f) /\ n \in Nat /\ n > 0 /\ DOMAIN f = 1..n
    <2>1. IsSeq(f) /\ f # <<>>
      BY FilesAssumption DEF IsSeq
    <2>2. n \in Nat /\ DOMAIN f = 1..n
      BY <2>1, IsSeqFacts
    <2>3. n # 0
      BY <2>1 DEF IsSeq
    <2>. QED  BY <2>1, <2>2, <2>3
  <1>1. ASSUME NEW i \in 1..n
        PROVE  /\ IsFooter(f[i]) => /\ i = n - 1 /\ "op" \in DOMAIN f[i - 1]
                                    /\ f[i].Footer.v.summary_start \in Nat
               /\ IsChunk(f[i]) => IsSeq(f[i].Chunk.v)
    BY <1>0, FilesAssumption DEF IsFooter, IsChunk, IsSeq
  <1>2. ASSUME HasLayout(f) PROVE e \in Nat /\ Sound(f, e)
    <2>1. n >= 4 /\ IsFooter(f[n - 1]) /\ n - 1 \in 1..n /\ n - 1 - 1 = n - 2
      BY <1>0, <1>2 DEF HasLayout, HasFooter, IsFooter, FOOTER_RECORD_LEN
    <2>2. start \in Nat /\ "op" \in DOMAIN f[n - 2]
      BY <2>1, <1>1 DEF Footer
    <2>3. e = IF start > 0 THEN start - 2 ELSE n - 1 - 2 - 2
      BY DEF DataEndOffset, DATA_END_RECORD_LEN, FOOTER_RECORD_LEN
    <2>4. IsRecord(f, e) /\ f[e + 1].op = "DataEnd"
      BY <1>2 DEF HasLayout, ParseDataEnd, RecordAt, At
    <2>5. f[n] = Magic
      BY <1>2 DEF HasLayout, HasFooter, Last
    <2>. HIDE DEF e
    <2>6. e \in 0..(n - 1) /\ f[e + 1].len \in 1..(n - e - 1)
      BY <2>4 DEF IsRecord, At
    <2>7. 1 \in 1..f[e + 1].len
      BY <2>6, <1>0
    <2>8. "op" \in DOMAIN f[e + 1] /\ DOMAIN f[e + 1 + 1] = {"DataEnd"}
      BY <2>4, <2>7 DEF IsRecord, At
    <2>9. e + 1 + 1 # n - 1
      BY <2>8, <2>1 DEF IsFooter
    <2>10. e + 1 + 1 # n
      <3>1. DOMAIN f[n] = {"magic"}
        BY <2>5 DEF Magic
      <3>. QED  BY <2>8, <3>1
    <2>11. e + 1 + 1 # n - 2
      BY <2>8, <2>2
    <2>12. e \in Nat /\ e + 1 + 1 <= n
      BY <2>6, <1>0
    <2>13. e \in Nat /\ n >= e + 5 /\ (start = 0 \/ start >= e + 2)
      <3>. HIDE DEF n, start
      <3>1. e + 2 <= n - 3
        BY <2>9, <2>10, <2>11, <2>12, <1>0
      <3>. QED  BY <3>1, <2>2, <2>3, <2>12, <1>0
    <2>14. ASSUME NEW i \in 1..n, IsFooter(f[i]) PROVE LeadsPast(f[i], e)
      <3>1. i = n - 1
        BY <2>14, <1>1
      <3>. QED  BY <3>1, <2>2, <2>13 DEF LeadsPast, Footer, DATA_END_RECORD_LEN
    <2>. QED  BY <2>13, <2>14, <1>0, <1>1 DEF Sound
  <1>. QED  BY <1>0, <1>2 DEF Fresh

-------------------------------------------------------------------------------
(* The invariant holds at first, and every step keeps it.                  *)

\* The initial states satisfy the inductive invariant.
LEMMA AmendInvInit == Init => AmendInv
  <1>. SUFFICES ASSUME Init PROVE AmendInv
    OBVIOUS
  <1>1. file \in Files /\ durable = file /\ before = file /\ safe = file
        /\ backups = <<>> /\ run = Idle /\ outcome = None
    BY DEF Init
  <1>2. Fresh(safe)
    BY <1>1, FilesFresh
  <1>3. HasLayout(safe) => Backed
    BY <1>1, <1>2 DEF Fresh, Backed, SameUpTo
  <1>4. ~HasLayout(safe) => Untouched
    BY <1>1 DEF Untouched
  <1>5. BackupsOK
    BY <1>1, EmptyFacts, AmendConstants DEF BackupsOK
  <1>6. Running /\ Said
    BY <1>1 DEF Running, Said, HintRestores, None
  <1>. QED  BY <1>2, <1>3, <1>4, <1>5, <1>6 DEF AmendInv

\* While a command runs there is a layout to go back to.
LEMMA RunningFacts ==
    ASSUME AmendInv, run # Idle
    PROVE  /\ HasLayout(safe) /\ Backed /\ RunOK /\ BackupsOK
           /\ DataEndOffset(safe) \in Nat /\ IsSeq(safe) /\ Len(safe) \in Nat
           /\ DataEndOffset(safe) + 5 <= Len(safe)
           /\ Len(backups) \in Nat /\ Len(backups) >= 1 /\ DOMAIN backups = 1..Len(backups)
           /\ Len(file) \in Nat /\ Len(run.out) \in Nat
           /\ run.at \in SavingAt => Saving
           /\ run.at \in WritingAt => Writing
  <1>1. RunOK /\ BackupsOK /\ HasLayout(safe) /\ Fresh(safe)
        /\ (run.at \in SavingAt => Saving) /\ (run.at \in WritingAt => Writing)
    BY DEF AmendInv, Running, RunOK
  <1>2. Backed
    BY <1>1 DEF AmendInv
  <1>3. DataEndOffset(safe) \in Nat /\ IsSeq(safe) /\ Len(safe) >= DataEndOffset(safe) + 5
    BY <1>1 DEF Fresh, Sound
  <1>4. IsSeq(file) /\ IsSeq(backups) /\ IsSeq(run.out)
    BY <1>1, <1>2 DEF Backed, Sound, BackupsOK, RunOK
  <1>5. Len(safe) \in Nat /\ Len(backups) \in Nat /\ DOMAIN backups = 1..Len(backups)
        /\ Len(file) \in Nat /\ Len(run.out) \in Nat
    BY <1>3, <1>4, IsSeqFacts
  <1>6. Len(backups) >= 1
    BY <1>1 DEF RunOK
  <1>7. DataEndOffset(safe) + 5 <= Len(safe)
    BY <1>3, <1>5
  <1>. QED  BY <1>1, <1>2, <1>3, <1>5, <1>6, <1>7

\* A step of a running command that writes nothing.
LEMMA Steady ==
    ASSUME AmendInv, run # Idle, UNCHANGED <<file, durable, safe, before, backups>>
    PROVE  Fresh(safe)' /\ HasLayout(safe)' /\ Backed' /\ BackupsOK'
  <1>1. HasLayout(safe) /\ Backed /\ BackupsOK /\ Fresh(safe)
    BY RunningFacts DEF AmendInv
  <1>2. (\E i \in 1..Len(backups) : Saves(i)) => (\E i \in 1..Len(backups) : Saves(i))'
    BY DEF Saves
  <1>3. (\E i \in 1..(Len(backups) - 1) : Saves(i)) => (\E i \in 1..(Len(backups) - 1) : Saves(i))'
    BY DEF Saves
  <1>4. Backed'
    BY <1>1, <1>2, <1>3 DEF Backed
  <1>. QED  BY <1>1, <1>4 DEF BackupsOK

\* A step that only changes what the command has in hand.
LEMMA StepInHand ==
    ASSUME AmendInv, run # Idle, UNCHANGED <<file, durable, safe, before, backups, outcome>>,
           Running'
    PROVE  AmendInv'
  <1>1. Fresh(safe)' /\ HasLayout(safe)' /\ Backed' /\ BackupsOK'
    BY Steady
  <1>2. outcome = None
    BY RunningFacts DEF RunOK
  <1>3. Said'
    BY <1>2 DEF Said, HintRestores, None
  <1>. QED  BY <1>1, <1>3 DEF AmendInv

\* A command ends without writing anything.
LEMMA StepEnds ==
    ASSUME AmendInv, run # Idle, UNCHANGED <<file, durable, safe, before, backups>>,
           run' = Idle, Said'
    PROVE  AmendInv'
  <1>1. Fresh(safe)' /\ HasLayout(safe)' /\ Backed' /\ BackupsOK'
    BY Steady
  <1>2. Running'
    BY DEF Running
  <1>. QED  BY <1>1, <1>2 DEF AmendInv

\* A command that is at some step is running.
LEMMA NotIdle ==
    ASSUME AmendInv, run.at # "idle"
    PROVE  run # Idle
  BY DEF Idle

\* Collecting the existing summary keeps the invariant.
LEMMA CollectKeeps ==
    ASSUME AmendInv, Collect
    PROVE  AmendInv'
  <1>0. run # Idle /\ run.at = "collect" /\ run.out = <<>>
    BY DEF Collect, Reached, Idle
  <1>1. RunOK /\ Saving /\ Backed
    BY <1>0, RunningFacts DEF SavingAt
  <1>. DEFINE summary == CollectExistingSummary(file)
  <1>2. CASE summary.error = "none"
    <2>1. run' = [run EXCEPT !.at = "open", !.summary = summary]
          /\ UNCHANGED <<file, durable, safe, before, backups, outcome>>
      BY <1>2 DEF Collect, History
    <2>2. SummaryOK(summary)
      <3>1. Sound(file, DataEndOffset(safe)) /\ HasLayout(file) /\ DataEndOffset(safe) \in Nat
        BY <1>0, <1>1, RunningFacts DEF Backed, RunOK, Saving
      <3>2. Footer(file).summary_start \in Nat
        BY <3>1, LayoutFacts
      <3>3. IsSeq(file) /\ \A i \in 1..Len(file) : IsChunk(file[i]) => IsSeq(file[i].Chunk.v)
        BY <3>1 DEF Sound
      <3>. QED  BY <3>2, <3>3, CollectFacts
    <2>. HIDE DEF summary
    <2>3. /\ DOMAIN run' = RunFields /\ run'.at = "open" /\ run'.summary = summary
          /\ run'.pos = run.pos /\ run'.out = run.out /\ run'.layout = run.layout
          /\ run'.job = run.job /\ run'.attachments = run.attachments
          /\ run'.metadata = run.metadata
      BY <1>1, <2>1 DEF RunOK, RunFields
    <2>4. RunOK'
      BY <1>1, <2>1, <2>2, <2>3 DEF RunOK
    <2>5. Saving'
      BY <1>0, <1>1, <2>1, <2>3 DEF Saving, LastBackup
    <2>6. Running'
      BY <2>3, <2>4, <2>5 DEF Running, SavingAt, WritingAt
    <2>. QED  BY <1>0, <2>1, <2>6, StepInHand
  <1>3. CASE summary.error # "none"
    <2>1. /\ run' = Idle /\ outcome' = [kind |-> "error", hint |-> <<>>]
          /\ UNCHANGED <<file, durable, safe, before, backups>>
      BY <1>3 DEF Collect, History, Ended
    <2>2. Said'
      BY <1>1, <2>1 DEF Said, HintRestores, Saving
    <2>. QED  BY <1>0, <2>1, <2>2, StepEnds
  <1>. QED  BY <1>2, <1>3

\* Opening the file for update keeps the invariant.
LEMMA OpenForUpdateKeeps ==
    ASSUME AmendInv, OpenForUpdate
    PROVE  AmendInv'
  <1>0. run # Idle /\ run.at = "open" /\ run.out = <<>>
    BY DEF OpenForUpdate, Reached, Idle
  <1>1. RunOK /\ Saving /\ Backed
    BY <1>0, RunningFacts DEF SavingAt
  <1>2. /\ run' = [run EXCEPT !.at = "records", !.pos = run.layout.old_data_end_offset,
                              !.crc = DataHasher(run.layout)]
        /\ UNCHANGED <<file, durable, safe, before, backups, outcome>>
    BY DEF OpenForUpdate, History
  <1>3. run.layout.old_data_end_offset = From
    BY <1>1 DEF RunOK, Layout, From
  <1>4. /\ DOMAIN run' = RunFields /\ run'.at = "records" /\ run'.pos = From
        /\ run'.out = <<>> /\ run'.layout = run.layout
        /\ run'.job = run.job /\ run'.attachments = run.attachments
        /\ run'.metadata = run.metadata /\ run'.summary = run.summary
    BY <1>0, <1>1, <1>2, <1>3 DEF RunOK, RunFields
  <1>5. RunOK'
    BY <1>0, <1>1, <1>2, <1>4 DEF RunOK, From
  <1>6. From \in Nat /\ From < Len(file) /\ Len(file) \in Nat
    BY <1>0, <1>1, RunningFacts DEF RunOK, From, Saving
  <1>7. NewTail("records", file, From, <<>>, From)
    <2>1. (From + 1)..(From + Len(<<>>)) = {}
      BY <1>6, EmptyFacts
    <2>. QED  BY <2>1 DEF NewTail, FooterOnlyAt
  <1>8. Writing'
    <2>1. From' = From /\ LastBackup' = LastBackup
      BY <1>2 DEF From, LastBackup
    <2>2. SameUpTo(file, before, From)
      BY <1>1 DEF SameUpTo, Saving
    <2>. QED  BY <1>0, <1>1, <1>2, <1>4, <1>6, <1>7, <2>1, <2>2 DEF Writing, Saving
  <1>9. Running'
    BY <1>4, <1>5, <1>8 DEF Running, SavingAt, WritingAt
  <1>. QED  BY <1>0, <1>2, <1>9, StepInHand

\* What a step of the writing phase needs to show.
LEMMA WritingKept ==
    ASSUME AmendInv, Writing, RunOK, run # Idle,
           UNCHANGED <<file, durable, safe, before, backups, outcome>>,
           DOMAIN run' = RunFields, run'.layout = run.layout, run'.pos = run.pos,
           run'.at \in {"records", "summary", "footer", "magic", "truncate"},
           JobOK(run'.job), SummaryOK(run'.summary), IsSeq(run'.attachments),
           IsSeq(run'.metadata), IsSeq(run'.out),
           NewTail(run'.at, file, run.pos, run'.out, From),
           run'.at = "footer" =>
              LeadsInto(From, run'.build.summary_start, run.pos + Len(run'.out))
    PROVE  AmendInv'
  <1>1. RunOK'
    BY DEF RunOK
  <1>2. Writing'
    <2>1. From' = From /\ LastBackup' = LastBackup
      BY DEF From, LastBackup
    <2>. QED  BY <2>1 DEF Writing
  <1>3. Running'
    BY <1>1, <1>2 DEF Running, SavingAt, WritingAt
  <1>. QED  BY <1>3, StepInHand

\* The head of a sequence is one of its elements, and so is every element of its tail.
LEMMA TailFacts ==
    ASSUME NEW s, IsSeq(s), s # <<>>
    PROVE  Head(s) \in ToSet(s) /\ IsSeq(Tail(s)) /\ ToSet(Tail(s)) \subseteq ToSet(s)
  <1>1. s \in Seq(ToSet(s))
    BY DEF IsSeq
  <1>2. Head(s) \in ToSet(s) /\ Tail(s) \in Seq(ToSet(s))
    BY <1>1
  <1>. QED  BY <1>2, SeqType

\* A record that is no footer and no chunk is written next.
LEMMA NextRecord ==
    ASSUME AmendInv, Reached("records") \/ Reached("summary"),
           NEW out, IsSeq(out), \A c \in ToSet(out) : Inert(c)
    PROVE  /\ run # Idle /\ RunOK /\ Writing /\ From \in Nat /\ run.pos \in Nat
           /\ From <= run.pos
           /\ FooterOnlyAt(file, run.pos, out, From, 0, 0)
           /\ Reached("summary") => run.pos >= From + 2
  <1>1. run # Idle /\ run.at \in {"records", "summary"} /\ run.out = <<>>
    BY DEF Reached, Idle
  <1>2. RunOK /\ Writing
    BY <1>1, RunningFacts DEF WritingAt
  <1>3. From \in Nat /\ run.pos \in Nat /\ From <= run.pos
    BY <1>2 DEF RunOK, Writing, From
  <1>4. FooterOnlyAt(file, run.pos, <<>>, From, 0, 0)
        /\ (run.at = "summary" => run.pos + Len(<<>>) >= From + 2)
    BY <1>1, <1>2 DEF Writing, NewTail
  <1>5. FooterOnlyAt(file, run.pos, out, From, 0, 0)
    BY <1>3, <1>4, NextTail
  <1>6. Reached("summary") => run.pos >= From + 2
    BY <1>3, <1>4, EmptyFacts DEF Reached
  <1>. QED  BY <1>1, <1>2, <1>3, <1>5, <1>6

\* Buffering the next new record keeps the invariant.
LEMMA WriteRecordKeeps ==
    ASSUME AmendInv, WriteRecord
    PROVE  AmendInv'
  <1>0. Reached("records") /\ run # Idle /\ run.at = "records"
    BY DEF WriteRecord, Reached, Idle
  <1>1. UNCHANGED <<file, durable, safe, before, backups, outcome>>
    BY DEF WriteRecord, History
  <1>2. RunOK /\ Writing /\ From \in Nat /\ run.pos \in Nat
    BY <1>0, EmptyFacts, NextRecord
  <1>3. CASE run.job.attachments # <<>>
    <2>. DEFINE a == Head(run.job.attachments)
                r == AttachmentRecord(a)
    <2>1. /\ a \in ToSet(run.job.attachments) /\ IsSeq(Tail(run.job.attachments))
          /\ ToSet(Tail(run.job.attachments)) \subseteq ToSet(run.job.attachments)
      BY <1>2, <1>3, TailFacts DEF RunOK, JobOK
    <2>2. a.size \in Nat
      BY <1>2, <2>1 DEF RunOK, JobOK
    <2>3. run' = [run EXCEPT !.out = r, !.crc = Hash(r),
                             !.attachments = Append(@, IndexOf(r, a, run.pos)),
                             !.job.attachments = Tail(@)]
      BY <1>3 DEF WriteRecord
    <2>4. IsSeq(r) /\ \A c \in ToSet(r) : Inert(c)
      BY <2>2, RecordFacts DEF AttachmentRecord
    <2>. HIDE DEF a, r
    <2>5. /\ DOMAIN run' = RunFields /\ run'.at = "records" /\ run'.pos = run.pos
          /\ run'.out = r /\ run'.layout = run.layout /\ run'.summary = run.summary
          /\ run'.attachments = Append(run.attachments, IndexOf(r, a, run.pos))
          /\ run'.metadata = run.metadata
          /\ run'.job = [run.job EXCEPT !.attachments = Tail(@)]
      BY <1>0, <1>2, <2>3 DEF RunOK, RunFields
    <2>6. JobOK(run'.job)
      BY <1>2, <2>1, <2>5 DEF RunOK, JobOK
    <2>7. IsSeq(run'.attachments)
      BY <1>2, <2>5, AppendFacts DEF RunOK
    <2>8. FooterOnlyAt(file, run.pos, r, From, 0, 0)
      BY <1>0, <2>4, NextRecord
    <2>9. NewTail(run'.at, file, run.pos, run'.out, From)
      BY <2>5, <2>8 DEF NewTail
    <2>. QED  BY <1>0, <1>1, <1>2, <2>4, <2>5, <2>6, <2>7, <2>9, WritingKept DEF RunOK
  <1>4. CASE run.job.attachments = <<>>
    <2>. DEFINE m == Head(run.job.metadata)
                r == MetadataRecord(m)
    <2>0. run.job.metadata # <<>>
      BY <1>4 DEF WriteRecord
    <2>1. IsSeq(Tail(run.job.metadata))
      BY <1>2, <2>0, TailFacts DEF RunOK, JobOK
    <2>3. run' = [run EXCEPT !.out = r, !.crc = Hash(r),
                             !.metadata = Append(@, IndexOf(r, m, run.pos)),
                             !.job.metadata = Tail(@)]
      BY <1>4 DEF WriteRecord
    <2>4. IsSeq(r) /\ \A c \in ToSet(r) : Inert(c)
      BY RecordFacts, 1 \in Nat DEF MetadataRecord
    <2>. HIDE DEF m, r
    <2>5. /\ DOMAIN run' = RunFields /\ run'.at = "records" /\ run'.pos = run.pos
          /\ run'.out = r /\ run'.layout = run.layout /\ run'.summary = run.summary
          /\ run'.metadata = Append(run.metadata, IndexOf(r, m, run.pos))
          /\ run'.attachments = run.attachments
          /\ run'.job = [run.job EXCEPT !.metadata = Tail(@)]
      BY <1>0, <1>2, <2>3 DEF RunOK, RunFields
    <2>6. JobOK(run'.job)
      BY <1>2, <2>1, <2>5 DEF RunOK, JobOK
    <2>7. IsSeq(run'.metadata)
      BY <1>2, <2>5, AppendFacts DEF RunOK
    <2>8. FooterOnlyAt(file, run.pos, r, From, 0, 0)
      BY <1>0, <2>4, NextRecord
    <2>9. NewTail(run'.at, file, run.pos, run'.out, From)
      BY <2>5, <2>8 DEF NewTail
    <2>. QED  BY <1>0, <1>1, <1>2, <2>4, <2>5, <2>6, <2>7, <2>9, WritingKept DEF RunOK
  <1>. QED  BY <1>3, <1>4

\* Buffering the new DataEnd keeps the invariant.
LEMMA WriteDataEndKeeps ==
    ASSUME AmendInv, WriteDataEnd
    PROVE  AmendInv'
  <1>. DEFINE r == Record("DataEnd", Hash(<<>>), 1)
              summary == AddToStatistics(run.summary, Len(run.attachments), Len(run.metadata))
  <1>0. Reached("records") /\ run # Idle
    BY DEF WriteDataEnd, Reached, Idle
  <1>1. UNCHANGED <<file, durable, safe, before, backups, outcome>>
    BY DEF WriteDataEnd, History
  <1>2. RunOK /\ Writing /\ From \in Nat /\ run.pos \in Nat /\ From <= run.pos
    BY <1>0, EmptyFacts, NextRecord
  <1>3. IsSeq(r) /\ Len(r) = 1 + 1 /\ \A c \in ToSet(r) : Inert(c)
    BY RecordFacts, 1 \in Nat
  <1>4. SummaryOK(summary)
    BY <1>2, AddToStatisticsFacts DEF RunOK
  <1>5. run' = [run EXCEPT !.at = "summary", !.out = r, !.summary = summary]
    BY DEF WriteDataEnd
  <1>. HIDE DEF r, summary
  <1>6. /\ DOMAIN run' = RunFields /\ run'.at = "summary" /\ run'.pos = run.pos
        /\ run'.out = r /\ run'.layout = run.layout /\ run'.summary = summary
        /\ run'.attachments = run.attachments /\ run'.metadata = run.metadata
        /\ run'.job = run.job
    BY <1>2, <1>5 DEF RunOK, RunFields
  <1>7. FooterOnlyAt(file, run.pos, r, From, 0, 0)
    BY <1>0, <1>3, NextRecord
  <1>8. run.pos + Len(r) >= From + 2
    BY <1>2, <1>3
  <1>9. NewTail(run'.at, file, run.pos, run'.out, From)
    BY <1>6, <1>7, <1>8 DEF NewTail
  <1>. QED  BY <1>0, <1>1, <1>2, <1>3, <1>4, <1>6, <1>9, WritingKept DEF RunOK

\* Buffering the new summary keeps the invariant.
LEMMA WriteSummaryKeeps ==
    ASSUME AmendInv, WriteSummary
    PROVE  AmendInv'
  <1>. DEFINE build == BuildSummary(run.summary, run.attachments, run.metadata, run.pos,
                                    run.layout.emit_summary_offsets)
  <1>0. Reached("summary") /\ run # Idle
    BY DEF WriteSummary, Reached, Idle
  <1>1. UNCHANGED <<file, durable, safe, before, backups, outcome>>
    BY DEF WriteSummary, History
  <1>2. RunOK /\ Writing /\ From \in Nat /\ run.pos \in Nat /\ run.pos >= From + 2
    BY <1>0, EmptyFacts, NextRecord
  <1>3. /\ IsSeq(build.bytes) /\ \A c \in ToSet(build.bytes) : Inert(c)
        /\ build.summary_start \in {0, run.pos}
    BY <1>2, BuildSummaryFacts DEF RunOK
  <1>4. run' = [run EXCEPT !.at = "footer", !.out = build.bytes, !.build = build]
    BY DEF WriteSummary
  <1>. HIDE DEF build
  <1>5. /\ DOMAIN run' = RunFields /\ run'.at = "footer" /\ run'.pos = run.pos
        /\ run'.out = build.bytes /\ run'.layout = run.layout /\ run'.summary = run.summary
        /\ run'.attachments = run.attachments /\ run'.metadata = run.metadata
        /\ run'.job = run.job /\ run'.build = build
    BY <1>2, <1>4 DEF RunOK, RunFields
  <1>6. FooterOnlyAt(file, run.pos, build.bytes, From, 0, 0)
    BY <1>0, <1>3, NextRecord
  <1>7. Len(build.bytes) \in Nat
    BY <1>3, IsSeqFacts
  <1>8. NewTail(run'.at, file, run.pos, run'.out, From)
    <2>1. run.pos + Len(build.bytes) >= From + 2
      BY <1>2, <1>7
    <2>. QED  BY <1>5, <1>6, <2>1 DEF NewTail
  <1>9. LeadsInto(From, build.summary_start, run.pos + Len(build.bytes))
    BY <1>2, <1>3, <1>7 DEF LeadsInto
  <1>. QED  BY <1>0, <1>1, <1>2, <1>3, <1>5, <1>8, <1>9, WritingKept DEF RunOK

\* Buffering the new footer keeps the invariant.
LEMMA WriteFooterKeeps ==
    ASSUME AmendInv, WriteFooter
    PROVE  AmendInv'
  <1>. DEFINE r == FooterRecord(run.layout, run.build)
  <1>0. run # Idle /\ run.at = "footer" /\ run.out = <<>>
    BY DEF WriteFooter, Reached, Idle
  <1>1. UNCHANGED <<file, durable, safe, before, backups, outcome>>
    BY DEF WriteFooter, History
  <1>2. RunOK /\ Writing
    BY <1>0, RunningFacts DEF WritingAt
  <1>3. From \in Nat /\ run.pos \in Nat /\ From <= run.pos
    BY <1>2 DEF RunOK, Writing, From
  <1>4. /\ FooterOnlyAt(file, run.pos, <<>>, From, 0, 0) /\ run.pos >= From + 2
        /\ LeadsInto(From, run.build.summary_start, run.pos)
    <2>1. /\ FooterOnlyAt(file, run.pos, <<>>, From, 0, 0) /\ run.pos + Len(<<>>) >= From + 2
          /\ LeadsInto(From, run.build.summary_start, run.pos + Len(<<>>))
      BY <1>0, <1>2 DEF Writing, NewTail
    <2>2. run.pos + Len(<<>>) = run.pos
      BY <1>3, EmptyFacts
    <2>. QED  BY <2>1, <2>2
  <1>5. IsSeq(r) /\ Len(r) = 2
    BY FooterRecordFacts
  <1>6. FooterOnlyAt(file, run.pos, r, From, run.pos + 2, run.pos)
    BY <1>3, <1>4, FooterTail
  <1>7. run' = [run EXCEPT !.at = "magic", !.out = r]
    BY DEF WriteFooter, Write
  <1>. HIDE DEF r
  <1>8. /\ DOMAIN run' = RunFields /\ run'.at = "magic" /\ run'.pos = run.pos
        /\ run'.out = r /\ run'.layout = run.layout /\ run'.summary = run.summary
        /\ run'.attachments = run.attachments /\ run'.metadata = run.metadata
        /\ run'.job = run.job
    BY <1>2, <1>7 DEF RunOK, RunFields
  <1>9. NewTail(run'.at, file, run.pos, run'.out, From)
    <2>1. /\ run.pos + Len(r) = run.pos + 2 /\ (run.pos + 2) - 2 = run.pos
          /\ run.pos + 2 >= From + 4
      BY <1>3, <1>4, <1>5
    <2>. QED  BY <1>6, <1>8, <2>1 DEF NewTail
  <1>. QED  BY <1>0, <1>1, <1>2, <1>5, <1>8, <1>9, WritingKept DEF RunOK

\* Buffering the closing magic keeps the invariant.
LEMMA WriteMagicKeeps ==
    ASSUME AmendInv, WriteMagic
    PROVE  AmendInv'
  <1>0. run # Idle /\ run.at = "magic" /\ run.out = <<>>
    BY DEF WriteMagic, Reached, Idle
  <1>1. UNCHANGED <<file, durable, safe, before, backups, outcome>>
    BY DEF WriteMagic, History
  <1>2. RunOK /\ Writing
    BY <1>0, RunningFacts DEF WritingAt
  <1>3. From \in Nat /\ run.pos \in Nat /\ From <= run.pos
    BY <1>2 DEF RunOK, Writing, From
  <1>4. FooterOnlyAt(file, run.pos, <<>>, From, run.pos, run.pos - 2) /\ run.pos >= From + 4
    <2>. DEFINE end == run.pos + Len(run.out)
    <2>1. NewTail("magic", file, run.pos, run.out, From)
      BY <1>0, <1>2 DEF Writing
    <2>2. FooterOnlyAt(file, run.pos, run.out, From, end, end - 2) /\ end >= From + 4
      BY <2>1 DEF NewTail
    <2>3. end = run.pos
      BY <1>0, <1>3, EmptyFacts
    <2>. HIDE DEF end
    <2>. QED  BY <1>0, <2>2, <2>3
  <1>. DEFINE r == <<Magic>>
  <1>5. IsSeq(r) /\ Len(r) = 1
    BY SingletonFacts
  <1>6. FooterOnlyAt(file, run.pos, r, From, run.pos, run.pos - 2)
    BY <1>3, <1>4, MagicTail
  <1>7. run' = [run EXCEPT !.at = "truncate", !.out = r]
    BY DEF WriteMagic, Write
  <1>. HIDE DEF r
  <1>8. /\ DOMAIN run' = RunFields /\ run'.at = "truncate" /\ run'.pos = run.pos
        /\ run'.out = r /\ run'.layout = run.layout /\ run'.summary = run.summary
        /\ run'.attachments = run.attachments /\ run'.metadata = run.metadata
        /\ run'.job = run.job
    BY <1>2, <1>7 DEF RunOK, RunFields
  <1>9. NewTail(run'.at, file, run.pos, run'.out, From)
    <2>1. /\ (run.pos + Len(r)) - 1 = run.pos /\ (run.pos + Len(r)) - 3 = run.pos - 2
          /\ run.pos + Len(r) >= From + 5
      BY <1>3, <1>4, <1>5
    <2>. QED  BY <1>6, <1>8, <2>1 DEF NewTail
  <1>. QED  BY <1>0, <1>1, <1>2, <1>5, <1>8, <1>9, WritingKept DEF RunOK

\* While a command writes, a backup holds what the file was.
LEMMA SavedWhileWriting ==
    ASSUME AmendInv, run # Idle, Writing
    PROVE  \E i \in 1..Len(backups) : Saves(i)
  <1>1. Backed /\ Len(backups) \in Nat /\ Len(backups) >= 1
    BY RunningFacts
  <1>2. CASE before = safe
    <2>1. Saves(Len(backups))
      BY <1>2 DEF Saves, Writing, LastBackup
    <2>. QED  BY <1>1, <2>1
  <1>3. CASE before # safe
    <2>1. PICK i \in 1..(Len(backups) - 1) : Saves(i)
      BY <1>1, <1>3 DEF Backed
    <2>2. i \in 1..Len(backups)
      BY <1>1
    <2>. QED  BY <2>1, <2>2
  <1>. QED  BY <1>2, <1>3

\* A step that changes only the file, or what of it is durable, keeps the invariant when both
\* stay sound and keep the data section.
LEMMA StepOnFile ==
    ASSUME AmendInv, run # Idle, Writing, UNCHANGED <<safe, before, backups, outcome>>, Running',
           Sound(file', DataEndOffset(safe)), SameUpTo(file', safe, DataEndOffset(safe)),
           Sound(durable', DataEndOffset(safe)), SameUpTo(durable', safe, DataEndOffset(safe))
    PROVE  AmendInv'
  <1>1. HasLayout(safe) /\ Fresh(safe) /\ BackupsOK /\ Backed
    BY RunningFacts DEF AmendInv
  <1>2. outcome = None
    BY RunningFacts DEF RunOK
  <1>3. (\E i \in 1..Len(backups) : Saves(i))'
    <2>1. \E i \in 1..Len(backups) : Saves(i)
      BY SavedWhileWriting
    <2>. QED  BY <2>1 DEF Saves
  <1>4. (run # Idle /\ before # safe)' => (\E i \in 1..(Len(backups) - 1) : Saves(i))'
    <2>1. before # safe => \E i \in 1..(Len(backups) - 1) : Saves(i)
      BY <1>1 DEF Backed
    <2>. QED  BY <2>1 DEF Saves
  <1>5. Backed'
    BY <1>3, <1>4 DEF Backed
  <1>6. Said'
    BY <1>2 DEF Said, HintRestores, None
  <1>. QED  BY <1>1, <1>5, <1>6 DEF AmendInv, BackupsOK

\* What is before the new tail is what it was.
LEMMA FilePrefix ==
    ASSUME AmendInv, run # Idle, Writing
    PROVE  /\ Sound(file, DataEndOffset(safe)) /\ SameUpTo(file, safe, DataEndOffset(safe))
           /\ Sound(durable, DataEndOffset(safe)) /\ SameUpTo(durable, safe, DataEndOffset(safe))
           /\ DataEndOffset(safe) \in Nat /\ From \in Nat /\ run.pos \in Nat
           /\ DataEndOffset(safe) <= From /\ From <= run.pos /\ run.pos <= Len(file)
           /\ Len(file) \in Nat /\ IsSeq(file)
  BY RunningFacts DEF Backed, RunOK, Writing, From, Sound

\* A write to the file, of however many cells, keeps the invariant.
LEMMA WriteFileKeeps ==
    ASSUME AmendInv, NEW n \in Nat, WriteSome(n), run.at # "backup"
    PROVE  AmendInv'
  <1>. DEFINE O == DataEndOffset(safe)
              part == SubSeq(run.out, 1, n)
              rest == SubSeq(run.out, n + 1, Len(run.out))
              new == Overwrite(file, run.pos, part)
  <1>0. run # Idle /\ n \in 1..Len(run.out)
    BY DEF WriteSome
  <1>1. /\ file' = new /\ run' = [run EXCEPT !.out = rest, !.pos = @ + n]
        /\ UNCHANGED <<durable, safe, before, backups, outcome>>
    BY DEF WriteSome, History
  <1>2. RunOK /\ (run.at \in SavingAt => Saving) /\ (run.at \in WritingAt => Writing)
        /\ run.at \in SavingAt \cup WritingAt /\ IsSeq(run.out) /\ run.pos \in Nat
    BY <1>0, RunningFacts DEF AmendInv, Running, RunOK
  <1>3. run.at \in {"records", "summary", "footer", "magic", "truncate"} /\ Writing
    <2>1. run.out # <<>>
      BY <1>0, EmptyFacts
    <2>2. run.at \notin {"sync", "remove"}
      BY <1>2, <2>1 DEF Writing, WritingAt
    <2>3. run.at \notin {"collect", "open"}
      <3>1. run.at \in SavingAt => Saving /\ run.at # "backup"
        BY <1>2
      <3>. QED  BY <3>1, <2>1, <1>2 DEF Saving, SavingAt
    <2>. QED  BY <1>2, <2>2, <2>3 DEF SavingAt, WritingAt
  <1>4. /\ Sound(file, O) /\ SameUpTo(file, safe, O)
        /\ Sound(durable, O) /\ SameUpTo(durable, safe, O)
        /\ O \in Nat /\ From \in Nat /\ O <= From /\ From <= run.pos /\ run.pos <= Len(file)
        /\ run.pos \in 0..Len(file) /\ IsSeq(file) /\ Len(file) \in Nat
    BY <1>0, <1>3, FilePrefix
  <1>5. NewTail(run.at, file, run.pos, run.out, From)
    BY <1>3 DEF Writing
  <1>6. Sound(new, O) /\ \A i \in 1..run.pos : new[i] = file[i]
    <2>. DEFINE out == run.out
                pos == run.pos
                at == run.at
                from == From
    <2>1. /\ pos \in 0..Len(file) /\ IsSeq(out) /\ n \in 1..Len(out)
          /\ from \in Nat /\ from <= pos /\ O \in Nat /\ O <= from
          /\ Sound(file, O) /\ NewTail(at, file, pos, out, from)
      BY <1>0, <1>2, <1>4, <1>5
    <2>2. new = Overwrite(file, pos, SubSeq(out, 1, n))
      OBVIOUS
    <2>. HIDE DEF out, pos, at, from, O, new
    <2>3. LET nw == Overwrite(file, pos, SubSeq(out, 1, n)) IN
          Sound(nw, O) /\ SameUpTo(nw, file, pos)
      BY <2>1, SoundOverwrite
    <2>4. Sound(new, O) /\ \A i \in 1..pos : new[i] = file[i]
      BY <2>2, <2>3 DEF SameUpTo
    <2>. QED  BY <2>4 DEF pos
  <1>7. /\ IsSeq(rest) /\ IsSeq(new) /\ Len(new) >= run.pos + n
        /\ NewTail(run.at, new, run.pos + n, rest, From)
    BY <1>0, <1>2, <1>4, <1>5, WriteSomeTail
  <1>8. Len(rest) = Len(run.out) - n /\ Len(run.out) \in Nat
    <2>1. n + 1 \in Nat /\ 1 <= n + 1 /\ n + 1 <= Len(run.out) + 1 /\ Len(run.out) \in Nat
      BY <1>0, <1>2, IsSeqFacts
    <2>2. Len(rest) = Len(run.out) - (n + 1) + 1
      BY <1>2, <2>1, SubSeqFacts
    <2>. HIDE DEF rest
    <2>. QED  BY <2>1, <2>2
  <1>. HIDE DEF new, rest
  <1>9. /\ DOMAIN run' = RunFields /\ run'.at = run.at /\ run'.pos = run.pos + n
        /\ run'.out = rest /\ run'.layout = run.layout /\ run'.summary = run.summary
        /\ run'.attachments = run.attachments /\ run'.metadata = run.metadata
        /\ run'.job = run.job /\ run'.build = run.build
    BY <1>1, <1>2 DEF RunOK, RunFields
  <1>10. RunOK'
    BY <1>1, <1>2, <1>7, <1>9 DEF RunOK
  <1>11. SameUpTo(new, safe, O)
    BY <1>4, <1>6 DEF SameUpTo
  <1>12. Writing'
    <2>1. From' = From /\ LastBackup' = LastBackup
      BY <1>1 DEF From, LastBackup
    <2>2. SameUpTo(new, before, From)
      BY <1>3, <1>4, <1>6 DEF SameUpTo, Writing
    <2>3. From <= run.pos + n /\ (run.pos + n) + Len(rest) = run.pos + Len(run.out)
      <3>. DEFINE pos == run.pos
                  len == Len(run.out)
                  left == Len(rest)
                  from == From
      <3>1. pos \in Nat /\ from \in Nat /\ from <= pos
        BY <1>2, <1>4
      <3>2. len \in Nat /\ left = len - n
        BY <1>8
      <3>. HIDE DEF pos, len, left, from
      <3>3. from <= pos + n /\ (pos + n) + left = pos + len
        BY <3>1, <3>2
      <3>. QED  BY <3>3 DEF pos, len, left, from
    <2>. QED  BY <1>1, <1>3, <1>7, <1>9, <2>1, <2>2, <2>3 DEF Writing
  <1>13. Running'
    BY <1>3, <1>9, <1>10, <1>12 DEF Running, SavingAt, WritingAt
  <1>. QED  BY <1>0, <1>1, <1>3, <1>4, <1>6, <1>11, <1>13, StepOnFile

\* Cutting the file to its new length keeps the invariant.
LEMMA TruncateKeeps ==
    ASSUME AmendInv, Truncate
    PROVE  AmendInv'
  <1>. DEFINE O == DataEndOffset(safe)
              new == SubSeq(file, 1, run.pos)
  <1>0. run # Idle /\ run.at = "truncate" /\ run.out = <<>>
    BY DEF Truncate, Reached, Idle
  <1>1. /\ file' = new /\ run' = [run EXCEPT !.at = "sync"]
        /\ UNCHANGED <<durable, safe, before, backups, outcome>>
    BY DEF Truncate, History, SetLen
  <1>2. RunOK /\ Writing
    BY <1>0, RunningFacts DEF WritingAt
  <1>3. /\ Sound(file, O) /\ SameUpTo(file, safe, O)
        /\ Sound(durable, O) /\ SameUpTo(durable, safe, O)
        /\ O \in Nat /\ From \in Nat /\ O <= From /\ From <= run.pos
        /\ run.pos \in 0..Len(file) /\ run.pos \in Nat /\ IsSeq(file)
    BY <1>0, <1>2, FilePrefix
  <1>4. /\ FooterOnlyAt(file, run.pos, <<>>, From, run.pos - 1, run.pos - 3)
        /\ run.pos >= From + 5
    <2>. DEFINE end == run.pos + Len(run.out)
    <2>1. NewTail("truncate", file, run.pos, run.out, From)
      BY <1>0, <1>2 DEF Writing
    <2>2. FooterOnlyAt(file, run.pos, run.out, From, end - 1, end - 3) /\ end >= From + 5
      BY <2>1 DEF NewTail
    <2>3. end = run.pos
      BY <1>0, <1>3, EmptyFacts
    <2>. HIDE DEF end
    <2>. QED  BY <1>0, <2>2, <2>3
  <1>5. Sound(new, O) /\ Len(new) = run.pos /\ \A i \in 1..run.pos : new[i] = file[i]
    <2>1. run.pos >= O + 5
      BY <1>3, <1>4
    <2>. QED  BY <1>3, <2>1, SoundTruncate
  <1>. HIDE DEF new
  <1>6. /\ DOMAIN run' = RunFields /\ run'.at = "sync" /\ run'.pos = run.pos
        /\ run'.out = <<>> /\ run'.layout = run.layout /\ run'.summary = run.summary
        /\ run'.attachments = run.attachments /\ run'.metadata = run.metadata
        /\ run'.job = run.job /\ run'.build = run.build
    BY <1>0, <1>1, <1>2 DEF RunOK, RunFields
  <1>7. RunOK'
    BY <1>0, <1>1, <1>2, <1>6 DEF RunOK
  <1>8. FooterOnlyAt(new, run.pos, <<>>, From, run.pos - 1, run.pos - 3)
    <2>1. run.pos + Len(<<>>) = run.pos
      BY <1>3, EmptyFacts
    <2>2. \A i \in (From + 1)..run.pos : NewCell(new, run.pos, <<>>, i) = NewCell(file, run.pos, <<>>, i)
      BY <1>3, <1>5 DEF NewCell
    <2>. QED  BY <1>4, <2>1, <2>2 DEF FooterOnlyAt
  <1>9. NewTail("sync", new, run.pos, <<>>, From)
    <2>1. run.pos + Len(<<>>) = run.pos
      BY <1>3, EmptyFacts
    <2>. QED  BY <1>4, <1>8, <2>1 DEF NewTail
  <1>10. Writing'
    <2>1. From' = From /\ LastBackup' = LastBackup
      BY <1>1 DEF From, LastBackup
    <2>2. SameUpTo(new, before, From)
      BY <1>2, <1>3, <1>5 DEF SameUpTo, Writing
    <2>. QED  BY <1>1, <1>2, <1>3, <1>5, <1>6, <1>9, <2>1, <2>2 DEF Writing
  <1>11. Running'
    BY <1>6, <1>7, <1>10 DEF Running, SavingAt, WritingAt
  <1>12. SameUpTo(new, safe, O)
    BY <1>3, <1>5 DEF SameUpTo
  <1>. QED  BY <1>0, <1>1, <1>2, <1>3, <1>5, <1>11, <1>12, StepOnFile

\* Syncing the file keeps the invariant.
LEMMA SyncKeeps ==
    ASSUME AmendInv, Sync
    PROVE  AmendInv'
  <1>0. run # Idle /\ run.at = "sync" /\ run.out = <<>>
    BY DEF Sync, Reached, Idle
  <1>1. /\ durable' = file /\ run' = [run EXCEPT !.at = "remove"]
        /\ UNCHANGED <<file, safe, before, backups, outcome>>
    BY DEF Sync, History
  <1>2. RunOK /\ Writing
    BY <1>0, RunningFacts DEF WritingAt
  <1>3. /\ DOMAIN run' = RunFields /\ run'.at = "remove" /\ run'.pos = run.pos
        /\ run'.out = <<>> /\ run'.layout = run.layout /\ run'.summary = run.summary
        /\ run'.attachments = run.attachments /\ run'.metadata = run.metadata
        /\ run'.job = run.job /\ run'.build = run.build
    BY <1>0, <1>1, <1>2 DEF RunOK, RunFields
  <1>4. RunOK'
    BY <1>0, <1>1, <1>2, <1>3 DEF RunOK
  <1>5. NewTail("remove", file, run.pos, <<>>, From)
    <2>1. NewTail("sync", file, run.pos, <<>>, From)
      BY <1>0, <1>2 DEF Writing
    <2>. QED  BY <2>1 DEF NewTail
  <1>6. Writing'
    <2>1. From' = From /\ LastBackup' = LastBackup
      BY <1>1 DEF From, LastBackup
    <2>. QED  BY <1>0, <1>1, <1>2, <1>3, <1>5, <2>1 DEF Writing
  <1>7. Running'
    BY <1>3, <1>4, <1>6 DEF Running, SavingAt, WritingAt
  <1>. QED  BY <1>0, <1>1, <1>2, <1>7, FilePrefix, StepOnFile

\* A step on the backup that is being written, which is not relied on yet.
LEMMA StepOnBackup ==
    ASSUME AmendInv, run # Idle, UNCHANGED <<file, durable, safe, before, outcome>>, Running',
           ~LastBackup.synced, NEW b, DOMAIN b = {"cells", "synced"}, b.synced \in BOOLEAN,
           NEW m, m = Len(backups), IsSeq(backups'), Len(backups') = m, backups'[m] = b,
           \A i \in 1..(m - 1) : backups'[i] = backups[i]
    PROVE  AmendInv'
  <1>1. /\ HasLayout(safe) /\ Backed /\ BackupsOK /\ RunOK /\ Fresh(safe)
        /\ m \in Nat /\ m >= 1
    BY RunningFacts DEF AmendInv
  <1>2. /\ IsSeq(backups') /\ Len(backups') = m /\ backups'[m] = b
        /\ \A i \in 1..(m - 1) : backups'[i] = backups[i]
    OBVIOUS
  <1>3. ASSUME NEW i \in 1..(m - 1) PROVE Saves(i) => Saves(i)'
    BY <1>2, <1>3 DEF Saves
  <1>4. (\E i \in 1..m : Saves(i)) => \E i \in 1..(m - 1) : Saves(i)
    <2>1. ~Saves(m)
      BY DEF Saves, LastBackup
    <2>2. \A i \in 1..m : i = m \/ i \in 1..(m - 1)
      BY <1>1
    <2>. QED  BY <2>1, <2>2
  <1>5. (\E i \in 1..(m - 1) : Saves(i)) => (\E i \in 1..(Len(backups) - 1) : Saves(i))'
    BY <1>2, <1>3
  <1>6. (\E i \in 1..(Len(backups) - 1) : Saves(i))' => (\E i \in 1..Len(backups) : Saves(i))'
    <2>1. \A i \in 1..(m - 1) : i \in 1..m
      BY <1>1
    <2>. QED  BY <1>2, <2>1
  <1>7. BackupsOK'
    <2>1. m <= MaxRuns
      BY <1>1 DEF BackupsOK
    <2>2. ASSUME NEW i \in 1..m
          PROVE  DOMAIN backups'[i] = {"cells", "synced"} /\ backups'[i].synced \in BOOLEAN
      <3>1. i = m \/ i \in 1..(m - 1)
        BY <1>1
      <3>2. CASE i = m
        BY <1>2, <3>2
      <3>3. CASE i \in 1..(m - 1)
        <4>1. DOMAIN backups[i] = {"cells", "synced"} /\ backups[i].synced \in BOOLEAN
          BY <1>1 DEF BackupsOK
        <4>. QED  BY <1>2, <3>3, <4>1
      <3>. QED  BY <3>1, <3>2, <3>3
    <2>. QED  BY <1>2, <2>1, <2>2 DEF BackupsOK
  <1>8. Backed'
    <2>1. (file = safe /\ durable = safe) \/ \E i \in 1..m : Saves(i)
      BY <1>1 DEF Backed
    <2>2. (file = safe /\ durable = safe)' \/ (\E i \in 1..Len(backups) : Saves(i))'
      BY <2>1, <1>4, <1>5, <1>6
    <2>3. before # safe => \E i \in 1..(m - 1) : Saves(i)
      BY <1>1 DEF Backed
    <2>4. (run # Idle /\ before # safe)' => (\E i \in 1..(Len(backups) - 1) : Saves(i))'
      BY <2>3, <1>5
    <2>5. /\ Sound(file, DataEndOffset(safe))' /\ SameUpTo(file, safe, DataEndOffset(safe))'
          /\ Sound(durable, DataEndOffset(safe))' /\ SameUpTo(durable, safe, DataEndOffset(safe))'
      BY <1>1 DEF Backed
    <2>. QED  BY <2>2, <2>4, <2>5 DEF Backed
  <1>9. Said'
    <2>1. outcome = None
      BY <1>1 DEF RunOK
    <2>. QED  BY <2>1 DEF Said, HintRestores, None
  <1>. QED  BY <1>1, <1>7, <1>8, <1>9 DEF AmendInv

\* The cells of the backup and those to be written to it are the tail.
LEMMA SavingFacts ==
    ASSUME AmendInv, run # Idle, run.at = "backup"
    PROVE  /\ RunOK /\ Saving /\ ~LastBackup.synced /\ IsSeq(LastBackup.cells)
           /\ LastBackup.cells \o run.out = TailOf(before) /\ IsSeq(run.out)
           /\ DOMAIN LastBackup = {"cells", "synced"}
  <1>1. RunOK /\ Saving /\ BackupsOK /\ Len(backups) \in Nat /\ Len(backups) >= 1
    BY RunningFacts DEF SavingAt
  <1>2. Len(backups) \in 1..Len(backups)
    BY <1>1
  <1>. QED  BY <1>1, <1>2 DEF Saving, RunOK, BackupsOK, LastBackup

\* A write to the backup, of however many cells, keeps the invariant.
LEMMA WriteBackupKeeps ==
    ASSUME AmendInv, NEW n \in Nat, WriteSome(n), run.at = "backup"
    PROVE  AmendInv'
  <1>. DEFINE part == SubSeq(run.out, 1, n)
              rest == SubSeq(run.out, n + 1, Len(run.out))
              cells == LastBackup.cells \o part
              b == [LastBackup EXCEPT !.cells = cells]
  <1>0. run # Idle /\ n \in 1..Len(run.out)
    BY DEF WriteSome
  <1>1. /\ backups' = WithLast(backups, b)
        /\ run' = [run EXCEPT !.out = rest]
        /\ UNCHANGED <<file, durable, safe, before, outcome>>
    BY DEF WriteSome, History, LastBackup, WithLast
  <1>2. /\ RunOK /\ Saving /\ ~LastBackup.synced /\ IsSeq(LastBackup.cells)
        /\ LastBackup.cells \o run.out = TailOf(before) /\ IsSeq(run.out)
        /\ DOMAIN LastBackup = {"cells", "synced"}
    BY <1>0, SavingFacts
  <1>3. n \in Nat /\ n <= Len(run.out) /\ Len(run.out) \in Nat
    BY <1>0, <1>2, IsSeqFacts
  <1>4. part \o rest = run.out
    <2>1. SameUpTo(run.out, run.out, n)
      BY DEF SameUpTo
    <2>. QED  BY <1>2, <1>3, <2>1, RestoredFacts
  <1>5. IsSeq(part)
    BY <1>2, <1>3, SubSeqFacts
  <1>6. IsSeq(rest)
    BY <1>2, <1>3, SubSeqFacts
  <1>. HIDE DEF part, rest
  <1>7. IsSeq(cells)
    BY <1>2, <1>5, ConcatFacts
  <1>8. cells \o rest = TailOf(before)
    <2>1. cells \o rest = LastBackup.cells \o (part \o rest)
      BY <1>2, <1>5, <1>6, JoinAssociative
    <2>. QED  BY <1>2, <1>4, <2>1
  <1>. HIDE DEF cells
  <1>9. DOMAIN b = {"cells", "synced"} /\ b.synced = LastBackup.synced /\ b.cells = cells
    BY <1>2
  <1>. HIDE DEF b
  <1>. DEFINE m == Len(backups)
  <1>10. /\ IsSeq(backups') /\ Len(backups') = m /\ backups'[m] = b
         /\ \A i \in 1..(m - 1) : backups'[i] = backups[i]
    <2>1. IsSeq(backups) /\ Len(backups) >= 1
      BY <1>0, RunningFacts DEF BackupsOK
    <2>. QED  BY <1>1, <2>1, WithLastFacts
  <1>. HIDE DEF m
  <1>16. Len(backups') = Len(backups) /\ LastBackup' = b
    BY <1>10 DEF LastBackup, m
  <1>11. /\ DOMAIN run' = RunFields /\ run'.at = "backup" /\ run'.pos = run.pos
         /\ run'.out = rest /\ run'.layout = run.layout /\ run'.summary = run.summary
         /\ run'.attachments = run.attachments /\ run'.metadata = run.metadata
         /\ run'.job = run.job
    BY <1>1, <1>2 DEF RunOK, RunFields
  <1>12. RunOK'
    BY <1>1, <1>2, <1>6, <1>16, <1>11 DEF RunOK
  <1>13. Saving'
    BY <1>1, <1>2, <1>7, <1>8, <1>9, <1>16, <1>11 DEF Saving
  <1>14. Running'
    BY <1>11, <1>12, <1>13 DEF Running, SavingAt, WritingAt
  <1>15. b.synced \in BOOLEAN
    <2>1. BackupsOK /\ Len(backups) \in 1..Len(backups)
      BY <1>0, RunningFacts
    <2>2. LastBackup.synced \in BOOLEAN
      BY <2>1 DEF BackupsOK, LastBackup
    <2>. QED  BY <1>9, <2>2
  <1>. QED  BY <1>0, <1>1, <1>2, <1>9, <1>10, <1>14, <1>15, StepOnBackup DEF m

\* Syncing the backup keeps the invariant.
LEMMA SyncBackupKeeps ==
    ASSUME AmendInv, SyncBackup
    PROVE  AmendInv'
  <1>. DEFINE b == [LastBackup EXCEPT !.synced = TRUE]
  <1>0. run # Idle /\ run.at = "backup" /\ run.out = <<>>
    BY DEF SyncBackup, Reached, Idle
  <1>1. /\ backups' = WithLast(backups, b)
        /\ run' = [run EXCEPT !.at = "collect"]
        /\ UNCHANGED <<file, durable, safe, before, outcome>>
    BY DEF SyncBackup, History, LastBackup, WithLast
  <1>2. /\ RunOK /\ Saving /\ ~LastBackup.synced /\ IsSeq(LastBackup.cells)
        /\ LastBackup.cells \o run.out = TailOf(before) /\ IsSeq(run.out)
        /\ DOMAIN LastBackup = {"cells", "synced"}
    BY <1>0, SavingFacts
  <1>3. LastBackup.cells = TailOf(before)
    BY <1>0, <1>2, ConcatEmpty
  <1>4. DOMAIN b = {"cells", "synced"} /\ b.synced = TRUE /\ b.cells = TailOf(before)
    BY <1>2, <1>3
  <1>. HIDE DEF b
  <1>. DEFINE m == Len(backups)
  <1>11. /\ IsSeq(backups') /\ Len(backups') = m /\ backups'[m] = b
         /\ \A i \in 1..(m - 1) : backups'[i] = backups[i]
    <2>1. IsSeq(backups) /\ Len(backups) >= 1
      BY <1>0, RunningFacts DEF BackupsOK
    <2>. QED  BY <1>1, <2>1, WithLastFacts
  <1>. HIDE DEF m
  <1>5. Len(backups') = Len(backups) /\ LastBackup' = b
    BY <1>11 DEF LastBackup, m
  <1>6. /\ DOMAIN run' = RunFields /\ run'.at = "collect" /\ run'.pos = run.pos
        /\ run'.out = <<>> /\ run'.layout = run.layout /\ run'.summary = run.summary
        /\ run'.attachments = run.attachments /\ run'.metadata = run.metadata
        /\ run'.job = run.job
    BY <1>0, <1>1, <1>2 DEF RunOK, RunFields
  <1>7. RunOK'
    BY <1>0, <1>1, <1>2, <1>5, <1>6 DEF RunOK
  <1>8. Saving'
    BY <1>1, <1>2, <1>4, <1>5, <1>6 DEF Saving
  <1>9. Running'
    BY <1>6, <1>7, <1>8 DEF Running, SavingAt, WritingAt
  <1>10. b.synced \in BOOLEAN
    BY <1>4
  <1>. QED  BY <1>0, <1>1, <1>2, <1>4, <1>9, <1>10, <1>11, StepOnBackup DEF m

\* Once the command has succeeded the amended file is the one to go back to,
\* unless the command worked on a file that was damaged before.
LEMMA RemoveBackupKeeps ==
    ASSUME AmendInv, NEW ok \in BOOLEAN, RemoveBackup(ok)
    PROVE  AmendInv'
  <1>. DEFINE O == DataEndOffset(safe)
              b == [cells |-> <<>>, synced |-> FALSE]
              m == Len(backups)
  <1>0. run # Idle /\ run.at = "remove" /\ run.out = <<>>
    BY DEF RemoveBackup, Reached, Idle
  <1>1. /\ backups' = IF ok THEN WithLast(backups, b) ELSE backups
        /\ run' = Idle /\ outcome' = [kind |-> "done"]
        /\ safe' = IF before = safe THEN file ELSE safe
        /\ UNCHANGED <<file, durable, before>>
    BY DEF RemoveBackup, Ended, WithLast
  <1>2. RunOK /\ Writing /\ Backed /\ BackupsOK /\ m \in Nat /\ m >= 1 /\ HasLayout(safe)
        /\ Fresh(safe)
    BY <1>0, RunningFacts DEF WritingAt, AmendInv
  <1>3. Sound(file, O) /\ O \in Nat /\ From \in Nat /\ IsSeq(file)
    BY <1>0, <1>2, FilePrefix
  <1>4. durable = file /\ NewTail("remove", file, Len(file), <<>>, From)
    BY <1>0, <1>2 DEF Writing
  <1>5. /\ IsSeq(backups') /\ Len(backups') = m
        /\ \A i \in 1..(m - 1) : backups'[i] = backups[i]
        /\ backups'[m] = b \/ backups'[m] = backups[m]
    <2>1. IsSeq(backups) /\ Len(backups) >= 1
      BY <1>2 DEF BackupsOK
    <2>2. CASE ok
      BY <1>1, <2>1, <2>2, WithLastFacts
    <2>3. CASE ~ok
      BY <1>1, <2>1, <2>3
    <2>. QED  BY <2>2, <2>3
  <1>6. BackupsOK'
    <2>1. m <= MaxRuns
      BY <1>2 DEF BackupsOK
    <2>2. DOMAIN b = {"cells", "synced"} /\ b.synced \in BOOLEAN
      OBVIOUS
    <2>. HIDE DEF b
    <2>3. \A i \in 1..m : DOMAIN backups[i] = {"cells", "synced"} /\ backups[i].synced \in BOOLEAN
      BY <1>2 DEF BackupsOK
    <2>. HIDE DEF m
    <2>4. ASSUME NEW i \in 1..m
          PROVE  DOMAIN backups'[i] = {"cells", "synced"} /\ backups'[i].synced \in BOOLEAN
      <3>1. i = m \/ i \in 1..(m - 1)
        BY <1>2
      <3>. QED  BY <1>5, <2>2, <2>3, <3>1
    <2>. QED  BY <1>5, <2>1, <2>4 DEF BackupsOK
  <1>7. Running'
    BY <1>1 DEF Running
  <1>8. Said'
    BY <1>1 DEF Said, HintRestores
  <1>9. CASE before = safe
    <2>1. safe' = file
      BY <1>1, <1>9
    <2>2. Fresh(file)
      BY <1>3, <1>4, AmendedFresh
    <2>3. HasLayout(file) => Backed'
      <3>1. SUFFICES ASSUME HasLayout(file) PROVE Backed'
        OBVIOUS
      <3>2. Sound(file, DataEndOffset(file)) /\ SameUpTo(file, file, DataEndOffset(file))
        BY <2>2, <3>1 DEF Fresh, SameUpTo
      <3>. QED  BY <1>1, <1>4, <2>1, <3>2 DEF Backed
    <2>4. Untouched'
      BY <1>1, <1>4, <2>1 DEF Untouched
    <2>. QED  BY <1>6, <1>7, <1>8, <2>1, <2>2, <2>3, <2>4 DEF AmendInv
  <1>10. CASE before # safe
    <2>1. safe' = safe
      BY <1>1, <1>10
    <2>2. PICK i \in 1..(m - 1) : Saves(i)
      BY <1>0, <1>2, <1>10 DEF Backed
    <2>3. Saves(i)'
      BY <1>5, <2>1, <2>2 DEF Saves
    <2>4. i \in 1..Len(backups')
      BY <1>2, <1>5
    <2>5. Backed'
      <3>1. (\E k \in 1..Len(backups) : Saves(k))'
        BY <2>3, <2>4
      <3>. QED  BY <1>1, <1>2, <2>1, <3>1 DEF Backed
    <2>. QED  BY <1>2, <1>6, <1>7, <1>8, <2>1, <2>5 DEF AmendInv
  <1>. QED  BY <1>9, <1>10

\* The error of a command that had begun to write says how to undo it.
LEMMA IoErrorKeeps ==
    ASSUME AmendInv, IoError
    PROVE  AmendInv'
  <1>0. run.at \notin {"idle", "collect", "remove"} /\ run # Idle
    BY NotIdle DEF IoError
  <1>1. /\ run' = Idle
        /\ outcome' = [kind |-> "error", hint |-> IF run.at = "backup" THEN <<>>
                                                  ELSE Hint(run.layout, Len(backups))]
        /\ UNCHANGED <<file, durable, safe, before, backups>>
    BY DEF IoError, Ended, History
  <1>2. RunOK /\ run.at \in SavingAt \cup WritingAt
        /\ (run.at \in SavingAt => Saving) /\ (run.at \in WritingAt => Writing)
    BY <1>0, RunningFacts DEF AmendInv, Running
  <1>3. CASE run.at \in SavingAt
    <2>1. file = before
      BY <1>2, <1>3 DEF Saving
    <2>2. Said'
      BY <1>1, <2>1 DEF Said, HintRestores
    <2>. QED  BY <1>0, <1>1, <2>2, StepEnds
  <1>4. CASE run.at \in WritingAt
    <2>1. Writing /\ run.at # "backup"
      BY <1>2, <1>4 DEF WritingAt
    <2>. DEFINE h == [backup |-> Len(backups), offset |-> From]
    <2>2. outcome' = [kind |-> "error", hint |-> <<h>>]
      BY <1>1, <1>2, <2>1 DEF Hint, RunOK, Layout, From
    <2>3. Restored(file, backups[Len(backups)], From) = before
      <3>1. /\ IsSeq(file) /\ IsSeq(before) /\ From \in Nat
            /\ From <= Len(file) /\ From <= Len(before) /\ SameUpTo(file, before, From)
        <4>1. From \in Nat /\ run.pos \in Nat /\ From <= run.pos /\ run.pos <= Len(file)
              /\ Len(file) \in Nat /\ IsSeq(file)
          BY <1>0, <2>1, FilePrefix
        <4>2. From <= Len(file)
          BY <4>1
        <4>3. IsSeq(before) /\ From < Len(before)
          BY <1>2 DEF RunOK, From
        <4>4. From <= Len(before)
          BY <4>1, <4>3, IsSeqFacts
        <4>. QED  BY <2>1, <4>1, <4>2, <4>3, <4>4 DEF Writing
      <3>2. SubSeq(file, 1, From) \o SubSeq(before, From + 1, Len(before)) = before
        BY <3>1, RestoredFacts
      <3>3. backups[Len(backups)].cells = SubSeq(before, From + 1, Len(before))
        BY <2>1 DEF Writing, LastBackup, TailOf, From
      <3>. QED  BY <3>2, <3>3 DEF Restored
    <2>4. Said'
      <3>1. outcome'.kind = "error" /\ outcome'.hint = <<h>> /\ <<h>> # <<>> /\ <<h>>[1] = h
        BY <2>2
      <3>2. h.backup = Len(backups) /\ h.offset = From
        OBVIOUS
      <3>. HIDE DEF h
      <3>3. Restored(file', backups'[h.backup], h.offset) = before'
        BY <1>1, <2>3, <3>2
      <3>4. HintRestores'
        BY <3>1, <3>3 DEF HintRestores
      <3>. QED  BY <3>1, <3>4 DEF Said
    <2>. QED  BY <1>0, <1>1, <2>4, StepEnds
  <1>. QED  BY <1>2, <1>3, <1>4

\* A crash of the process at any step keeps the invariant.
LEMMA CrashKeeps ==
    ASSUME AmendInv, Crash
    PROVE  AmendInv'
  <1>1. /\ run # Idle /\ run' = Idle /\ outcome' = [kind |-> "crashed"]
        /\ UNCHANGED <<file, durable, safe, before, backups>>
    BY DEF Crash, Ended, History
  <1>2. Said'
    BY <1>1 DEF Said, HintRestores
  <1>. QED  BY <1>1, <1>2, StepEnds

\* What is on the disk after a power failure: each cell is one that was
\* written, or one that was there, or a hole.
LEMMA OnDiskFacts ==
    ASSUME IsSeq(file), IsSeq(durable), NEW pages, NEW len \in Nat
    PROVE  LET new == OnDisk(pages, len) IN
           /\ IsSeq(new) /\ Len(new) = len
           /\ \A i \in 1..len : \/ i \in 1..Len(file) /\ new[i] = file[i]
                                \/ i \in 1..Len(durable) /\ new[i] = durable[i]
                                \/ /\ new[i] = [hole |-> TRUE]
                                   /\ i \notin 1..Len(file) \/ i \notin 1..Len(durable)
  <1>. DEFINE new == OnDisk(pages, len)
  <1>0. Len(file) \in Nat /\ Len(durable) \in Nat
    BY IsSeqFacts
  <1>1. DOMAIN new = 1..len /\ new = [i \in 1..len |-> new[i]]
    BY DEF OnDisk
  <1>2. ASSUME NEW i \in 1..len
        PROVE  \/ i \in 1..Len(file) /\ new[i] = file[i]
               \/ i \in 1..Len(durable) /\ new[i] = durable[i]
               \/ /\ new[i] = [hole |-> TRUE]
                  /\ i \notin 1..Len(file) \/ i \notin 1..Len(durable)
    <2>1. CASE (i - 1) \div Page \in pages
      <3>1. new[i] = IF i <= Len(file) THEN file[i] ELSE [hole |-> TRUE]
        BY <2>1 DEF OnDisk
      <3>. QED  BY <3>1, <1>0
    <2>2. CASE (i - 1) \div Page \notin pages
      <3>1. new[i] = IF i <= Len(durable) THEN durable[i] ELSE [hole |-> TRUE]
        BY <2>2 DEF OnDisk
      <3>. QED  BY <3>1, <1>0
    <2>. QED  BY <2>1, <2>2
  <1>. HIDE DEF new
  <1>3. IsSeq(new) /\ Len(new) = len
    BY <1>1, FunctionIsSeq
  <1>. QED  BY <1>2, <1>3 DEF new

\* A power loss at any step, which leaves what was durable, keeps the invariant.
LEMMA PowerLossKeeps ==
    ASSUME AmendInv, PowerLoss
    PROVE  AmendInv'
  <1>. DEFINE O == DataEndOffset(safe)
              m == Len(backups)
  <1>0. /\ file # durable \/ run # Idle
        /\ durable' = file' /\ run' = Idle /\ outcome' = [kind |-> "lost"]
        /\ backups' = [i \in DOMAIN backups |->
                          IF backups[i].synced THEN backups[i]
                          ELSE [cells |-> <<>>, synced |-> FALSE]]
        /\ UNCHANGED <<before, safe>>
    BY DEF PowerLoss, Ended
  <1>1. HasLayout(safe) /\ Backed /\ BackupsOK /\ Fresh(safe)
    BY <1>0 DEF AmendInv, Untouched
  <1>2. /\ O \in Nat /\ Sound(file, O) /\ SameUpTo(file, safe, O) /\ Sound(durable, O)
        /\ SameUpTo(durable, safe, O) /\ IsSeq(safe)
        /\ (file = safe /\ durable = safe) \/ \E i \in 1..m : Saves(i)
    BY <1>1 DEF Backed, Fresh
  <1>3. IsSeq(file) /\ Len(file) \in Nat /\ Len(file) >= O + 5
        /\ IsSeq(durable) /\ Len(durable) \in Nat /\ Len(durable) >= O + 5
    BY <1>2, IsSeqFacts DEF Sound
  <1>4. PICK pages \in SUBSET Pages, len \in {Len(file), Len(durable)} : file' = OnDisk(pages, len)
    BY DEF PowerLoss
  <1>. DEFINE new == OnDisk(pages, len)
  <1>5. len \in Nat /\ len >= O + 5
    BY <1>3, <1>4
  <1>6. /\ IsSeq(new) /\ Len(new) = len
        /\ \A i \in 1..len : \/ i \in 1..Len(file) /\ new[i] = file[i]
                             \/ i \in 1..Len(durable) /\ new[i] = durable[i]
                             \/ /\ new[i] = [hole |-> TRUE]
                                /\ i \notin 1..Len(file) \/ i \notin 1..Len(durable)
    BY <1>3, <1>5, OnDiskFacts
  <1>7. file' = new /\ durable' = new
    BY <1>0, <1>4
  <1>. HIDE DEF new
  <1>8. SameUpTo(new, safe, O)
    <2>1. ASSUME NEW i \in 1..O PROVE new[i] = safe[i]
      <3>1. i \in 1..len /\ i \in 1..Len(file) /\ i \in 1..Len(durable)
        BY <1>2, <1>3, <1>5
      <3>2. file[i] = safe[i] /\ durable[i] = safe[i]
        BY <1>2 DEF SameUpTo
      <3>. QED  BY <1>6, <3>1, <3>2
    <2>. QED  BY <2>1 DEF SameUpTo
  <1>9. Sound(new, O)
    <2>1. ASSUME NEW i \in 1..len
          PROVE  /\ IsChunk(new[i]) => IsSeq(new[i].Chunk.v)
                 /\ i > O /\ IsFooter(new[i]) => LeadsPast(new[i], O)
      <3>1. CASE i \in 1..Len(file) /\ new[i] = file[i]
        BY <1>2, <3>1 DEF Sound
      <3>2. CASE i \in 1..Len(durable) /\ new[i] = durable[i]
        BY <1>2, <3>2 DEF Sound
      <3>3. CASE new[i] = [hole |-> TRUE]
        <4>1. DOMAIN new[i] = {"hole"}
          BY <3>3
        <4>. QED  BY <4>1 DEF IsChunk, IsFooter
      <3>. QED  BY <1>6, <3>1, <3>2, <3>3
    <2>. QED  BY <1>5, <1>6, <2>1 DEF Sound
  <1>10. file = safe /\ durable = safe => new = safe
    <2>1. SUFFICES ASSUME file = safe, durable = safe PROVE new = safe
      OBVIOUS
    <2>2. len = Len(safe)
      BY <2>1
    <2>3. \A i \in 1..len : new[i] = safe[i]
      BY <1>6, <2>1, <2>2
    <2>. QED  BY <1>2, <1>6, <2>2, <2>3, SeqExtensional
  <1>11. /\ IsSeq(backups') /\ Len(backups') = m
         /\ \A i \in 1..m : backups'[i] = IF backups[i].synced THEN backups[i]
                                          ELSE [cells |-> <<>>, synced |-> FALSE]
    <2>1. m \in Nat /\ DOMAIN backups = 1..m
      BY <1>1, IsSeqFacts DEF BackupsOK
    <2>. HIDE DEF m
    <2>2. DOMAIN backups' = 1..m /\ backups' = [i \in 1..m |-> backups'[i]]
      BY <1>0, <2>1
    <2>3. \A i \in 1..m : backups'[i] = IF backups[i].synced THEN backups[i]
                                        ELSE [cells |-> <<>>, synced |-> FALSE]
      BY <1>0, <2>1
    <2>. QED  BY <2>1, <2>2, <2>3, FunctionIsSeq
  <1>. HIDE DEF m
  <1>12. BackupsOK'
    <2>1. /\ m <= MaxRuns
          /\ \A i \in 1..m :
               DOMAIN backups[i] = {"cells", "synced"} /\ backups[i].synced \in BOOLEAN
      BY <1>1 DEF BackupsOK, m
    <2>2. ASSUME NEW i \in 1..m
          PROVE  DOMAIN backups'[i] = {"cells", "synced"} /\ backups'[i].synced \in BOOLEAN
      <3>. DEFINE b == [cells |-> <<>>, synced |-> FALSE]
      <3>1. DOMAIN b = {"cells", "synced"} /\ b.synced \in BOOLEAN
        OBVIOUS
      <3>2. backups'[i] = b \/ backups'[i] = backups[i]
        BY <1>11
      <3>. HIDE DEF b
      <3>. QED  BY <2>1, <3>1, <3>2
    <2>. QED  BY <1>11, <2>1, <2>2 DEF BackupsOK
  <1>13. ASSUME NEW i \in 1..m, Saves(i) PROVE Saves(i)'
    <2>1. backups'[i] = backups[i]
      BY <1>11, <1>13 DEF Saves
    <2>. QED  BY <1>0, <1>13, <2>1 DEF Saves
  <1>14. Backed'
    <2>1. (\E i \in 1..m : Saves(i)) => (\E i \in 1..Len(backups) : Saves(i))'
      BY <1>11, <1>13
    <2>2. (file = safe /\ durable = safe)' \/ (\E i \in 1..Len(backups) : Saves(i))'
      BY <1>0, <1>2, <1>7, <1>10, <2>1
    <2>. QED  BY <1>0, <1>7, <1>8, <1>9, <2>2 DEF Backed
  <1>15. Running' /\ Said'
    BY <1>0 DEF Running, Said, HintRestores
  <1>. QED  BY <1>0, <1>1, <1>12, <1>14, <1>15 DEF AmendInv

\* A file the footer of which does not lead to a DataEnd is left alone.
LEMMA RefusedKeeps ==
    ASSUME AmendInv, run = Idle, UNCHANGED <<file, durable, safe, before, backups, run>>,
           outcome' = [kind |-> "refused"]
    PROVE  AmendInv'
  <1>1. Fresh(safe)' /\ BackupsOK' /\ Running'
    BY DEF AmendInv, BackupsOK, Running
  <1>2. (\E i \in 1..Len(backups) : Saves(i)) => (\E i \in 1..Len(backups) : Saves(i))'
    BY DEF Saves
  <1>3. HasLayout(safe) => Backed'
    BY <1>2 DEF AmendInv, Backed
  <1>4. ~HasLayout(safe) => Untouched'
    BY DEF AmendInv, Untouched
  <1>5. Said'
    BY DEF Said, HintRestores
  <1>. QED  BY <1>1, <1>3, <1>4, <1>5 DEF AmendInv

\* Starting a command keeps the invariant.
LEMMA BeginKeeps ==
    ASSUME AmendInv, NEW j \in Jobs, Begin(j)
    PROVE  AmendInv'
  <1>1. CASE ~HasLayout(file)
    <2>1. /\ run = Idle /\ UNCHANGED <<file, durable, safe, before, backups, run>>
          /\ outcome' = [kind |-> "refused"]
      BY <1>1 DEF Begin, History
    <2>. QED  BY <2>1, RefusedKeeps
  <1>2. CASE HasLayout(file)
    <2>. DEFINE O == DataEndOffset(safe)
                d == DataEndOffset(file)
                b == [cells |-> <<>>, synced |-> FALSE]
                m == Len(backups)
    <2>1. /\ run = Idle /\ m < MaxRuns
          /\ run' = [at |-> "backup", layout |-> Layout(file), job |-> j, summary |-> NoSummary,
                     pos |-> 0, crc |-> <<>>, attachments |-> <<>>, metadata |-> <<>>,
                     build |-> <<>>,
                     out |-> SubSeq(file, Layout(file).old_data_end_offset + 1, Len(file))]
          /\ backups' = Append(backups, b) /\ outcome' = None /\ before' = file
          /\ UNCHANGED <<file, durable, safe>>
      BY <1>2 DEF Begin
    <2>2. HasLayout(safe) /\ Backed /\ BackupsOK /\ Fresh(safe)
      BY <1>2 DEF AmendInv, Untouched
    <2>3. /\ O \in Nat /\ Sound(file, O) /\ IsSeq(file) /\ Len(file) \in Nat
      BY <2>2, IsSeqFacts DEF Backed, Fresh, Sound
    <2>4. d \in Nat /\ O <= d /\ d < Len(file)
      BY <1>2, <2>3, LayoutFacts
    <2>5. /\ run' # Idle /\ DOMAIN run' = RunFields /\ run'.at = "backup" /\ run'.job = j
          /\ run'.layout = Layout(file)
          /\ run'.summary = NoSummary /\ run'.pos = 0 /\ run'.attachments = <<>>
          /\ run'.metadata = <<>> /\ run'.out = TailOf(file)
      <3>1. Layout(file).old_data_end_offset = d
        BY DEF Layout
      <3>2. SubSeq(file, Layout(file).old_data_end_offset + 1, Len(file)) = TailOf(file)
        BY <3>1 DEF TailOf
      <3>3. DOMAIN run' = RunFields /\ run'.at = "backup"
        BY <2>1 DEF RunFields
      <3>4. run' # Idle
        BY <3>3 DEF Idle
      <3>. HIDE DEF d
      <3>. QED  BY <2>1, <3>2, <3>3, <3>4
    <2>6. IsSeq(TailOf(file))
      <3>1. d + 1 \in Nat /\ 1 <= d + 1 /\ d + 1 <= Len(file) + 1
        BY <2>3, <2>4
      <3>. QED  BY <2>3, <3>1, SubSeqFacts DEF TailOf
    <2>7. /\ IsSeq(backups') /\ Len(backups') = m + 1 /\ backups'[m + 1] = b
          /\ \A i \in 1..m : backups'[i] = backups[i]
          /\ m \in Nat
      BY <2>1, <2>2, AppendFacts, IsSeqFacts DEF BackupsOK
    <2>. HIDE DEF m, d, O
    <2>8. JobOK(j) /\ SummaryOK(NoSummary)
      <3>1. JobOK(j)
        BY JobsAssumption DEF JobOK, IsSeq
      <3>2. SummaryOK(NoSummary)
        BY FS_EmptySet, EmptyFacts DEF SummaryOK, NoSummary, NoChannels, ChannelsOK
      <3>. QED  BY <3>1, <3>2
    <2>9. RunOK'
      <3>1. /\ HasLayout(file) /\ DataEndOffset(file) \in Nat /\ DataEndOffset(file) < Len(file)
            /\ DataEndOffset(safe) <= DataEndOffset(file)
        BY <1>2, <2>4 DEF d, O
      <3>2. Len(backups') >= 1
        BY <2>7
      <3>. QED  BY <2>1, <2>2, <2>3, <2>5, <2>6, <2>7, <2>8, <3>1, <3>2, EmptyFacts DEF RunOK
    <2>10. Saving'
      <3>1. LastBackup' = b
        BY <2>7 DEF LastBackup
      <3>2. b.synced = FALSE /\ b.cells = <<>>
        OBVIOUS
      <3>. HIDE DEF b
      <3>3. <<>> \o TailOf(file) = TailOf(file)
        BY <2>6 DEF IsSeq
      <3>. QED  BY <2>1, <2>5, <3>1, <3>2, <3>3, EmptyFacts DEF Saving
    <2>11. Running'
      BY <2>5, <2>9, <2>10 DEF Running, SavingAt, WritingAt
    <2>12. BackupsOK'
      <3>1. m + 1 <= MaxRuns
        BY <2>1, <2>7, AmendConstants
      <3>2. DOMAIN b = {"cells", "synced"} /\ b.synced \in BOOLEAN
        OBVIOUS
      <3>. HIDE DEF b
      <3>3. \A i \in 1..m : DOMAIN backups[i] = {"cells", "synced"} /\ backups[i].synced \in BOOLEAN
        BY <2>2 DEF BackupsOK, m
      <3>4. ASSUME NEW i \in 1..(m + 1)
            PROVE  DOMAIN backups'[i] = {"cells", "synced"} /\ backups'[i].synced \in BOOLEAN
        <4>1. i = m + 1 \/ i \in 1..m
          BY <2>7
        <4>. QED  BY <2>7, <3>2, <3>3, <4>1
      <3>. QED  BY <2>7, <3>1, <3>4 DEF BackupsOK
    <2>13. ASSUME NEW i \in 1..m, Saves(i) PROVE Saves(i)'
      BY <2>1, <2>7, <2>13 DEF Saves
    <2>14. Backed'
      <3>1. (file = safe /\ durable = safe) \/ \E i \in 1..m : Saves(i)
        BY <2>2 DEF Backed, m
      <3>2. (\E i \in 1..m : Saves(i)) => (\E i \in 1..Len(backups) : Saves(i))'
        <4>1. \A i \in 1..m : i \in 1..(m + 1)
          BY <2>7
        <4>. QED  BY <2>7, <2>13, <4>1
      <3>3. (\E i \in 1..m : Saves(i)) => (\E i \in 1..(Len(backups) - 1) : Saves(i))'
        <4>1. Len(backups') - 1 = m
          BY <2>7
        <4>. QED  BY <2>13, <4>1
      <3>4. /\ Sound(file, DataEndOffset(safe))' /\ SameUpTo(file, safe, DataEndOffset(safe))'
            /\ Sound(durable, DataEndOffset(safe))' /\ SameUpTo(durable, safe, DataEndOffset(safe))'
        BY <2>1, <2>2 DEF Backed
      <3>5. (file = safe /\ durable = safe)' \/ (\E i \in 1..Len(backups) : Saves(i))'
        BY <2>1, <3>1, <3>2
      <3>6. (run # Idle /\ before # safe)' => (\E i \in 1..(Len(backups) - 1) : Saves(i))'
        BY <2>1, <3>1, <3>3
      <3>. QED  BY <3>4, <3>5, <3>6 DEF Backed
    <2>15. Said'
      BY <2>1 DEF Said, HintRestores, None
    <2>. QED  BY <2>1, <2>2, <2>11, <2>12, <2>14, <2>15 DEF AmendInv
  <1>. QED  BY <1>1, <1>2

\* Every step keeps the inductive invariant.
LEMMA AmendInvNext ==
    ASSUME AmendInv, [Next]_vars
    PROVE  AmendInv'
  <1>1. CASE UNCHANGED vars
    <2>1. (\E i \in 1..Len(backups) : Saves(i)) => (\E i \in 1..Len(backups) : Saves(i))'
      BY <1>1 DEF vars, Saves
    <2>2. (\E i \in 1..(Len(backups) - 1) : Saves(i)) => (\E i \in 1..(Len(backups) - 1) : Saves(i))'
      BY <1>1 DEF vars, Saves
    <2>3. Backed => Backed'
      BY <1>1, <2>1, <2>2 DEF vars, Backed
    <2>4. (RunOK => RunOK') /\ (Saving => Saving') /\ (Writing => Writing')
      BY <1>1 DEF vars, RunOK, Saving, Writing, LastBackup, From
    <2>5. Running'
      BY <1>1, <2>4 DEF vars, Running, AmendInv
    <2>6. Said'
      BY <1>1 DEF vars, Said, HintRestores, AmendInv
    <2>7. Fresh(safe)' /\ BackupsOK' /\ (~HasLayout(safe) => Untouched')
      BY <1>1 DEF vars, AmendInv, BackupsOK, Untouched
    <2>. QED  BY <1>1, <2>3, <2>5, <2>6, <2>7 DEF vars, AmendInv
  <1>2. ASSUME NEW j \in Jobs, Begin(j) PROVE AmendInv'
    BY <1>2, BeginKeeps
  <1>3. ASSUME NEW n \in 1..(IF run = Idle THEN 0 ELSE Len(run.out)), WriteSome(n)
        PROVE  AmendInv'
    <2>1. run # Idle
      BY <1>3 DEF WriteSome
    <2>2. n \in Nat
      BY <1>3, <2>1, RunningFacts
    <2>. QED  BY <1>3, <2>2, WriteBackupKeeps, WriteFileKeeps
  <1>4. ASSUME NEW ok \in BOOLEAN, RemoveBackup(ok) PROVE AmendInv'
    BY <1>4, RemoveBackupKeeps
  <1>5. CASE SyncBackup
    BY <1>5, SyncBackupKeeps
  <1>6. CASE Collect
    BY <1>6, CollectKeeps
  <1>7. CASE OpenForUpdate
    BY <1>7, OpenForUpdateKeeps
  <1>8. CASE WriteRecord
    BY <1>8, WriteRecordKeeps
  <1>9. CASE WriteDataEnd
    BY <1>9, WriteDataEndKeeps
  <1>10. CASE WriteSummary
    BY <1>10, WriteSummaryKeeps
  <1>11. CASE WriteFooter
    BY <1>11, WriteFooterKeeps
  <1>12. CASE WriteMagic
    BY <1>12, WriteMagicKeeps
  <1>13. CASE Truncate
    BY <1>13, TruncateKeeps
  <1>14. CASE Sync
    BY <1>14, SyncKeeps
  <1>15. CASE IoError
    BY <1>15, IoErrorKeeps
  <1>16. CASE Crash
    BY <1>16, CrashKeeps
  <1>17. CASE PowerLoss
    BY <1>17, PowerLossKeeps
  <1>. QED
    BY <1>1, <1>2, <1>3, <1>4, <1>5, <1>6, <1>7, <1>8, <1>9, <1>10, <1>11, <1>12, <1>13, <1>14,
       <1>15, <1>16, <1>17 DEF Next

-------------------------------------------------------------------------------
(* The theorems.                                                           *)

\* The inductive invariant holds throughout, for any files, any jobs and any
\* number of commands.
THEOREM AmendInvariant == Spec => []AmendInv
  <1>1. Init => AmendInv
    BY AmendInvInit
  <1>2. AmendInv /\ [Next]_vars => AmendInv'
    BY AmendInvNext
  <1>. QED  BY <1>1, <1>2, PTL DEF Spec

\* The invariant says where a command is in the file it writes.
LEMMA InvAmendTypeOK ==
    ASSUME AmendInv
    PROVE  AmendTypeOK
  <1>1. outcome.kind \in {"none", "refused", "done", "error", "crashed", "lost"}
    BY DEF AmendInv, Said
  <1>2. DOMAIN backups \subseteq 1..MaxRuns
    <2>1. IsSeq(backups) /\ Len(backups) <= MaxRuns
      BY DEF AmendInv, BackupsOK
    <2>2. Len(backups) \in Nat /\ DOMAIN backups = 1..Len(backups)
      BY <2>1, IsSeqFacts
    <2>. QED  BY <2>1, <2>2, AmendConstants
  <1>3. Len(file) > 0 /\ Len(durable) > 0
    <2>1. CASE HasLayout(safe)
      <3>1. /\ DataEndOffset(safe) \in Nat
            /\ Sound(file, DataEndOffset(safe)) /\ Sound(durable, DataEndOffset(safe))
        BY <2>1 DEF AmendInv, Fresh, Backed
      <3>2. /\ Len(file) \in Nat /\ Len(file) >= DataEndOffset(safe) + 5
            /\ Len(durable) \in Nat /\ Len(durable) >= DataEndOffset(safe) + 5
        BY <3>1, IsSeqFacts DEF Sound
      <3>. QED  BY <3>1, <3>2
    <2>2. CASE ~HasLayout(safe)
      BY <2>2 DEF AmendInv, Untouched, Fresh
    <2>. QED  BY <2>1, <2>2
  <1>4. ASSUME run # Idle
        PROVE  /\ run.at \in {"backup", "collect", "open", "records", "summary", "footer", "magic",
                              "truncate", "sync", "remove"}
               /\ run.pos \in 0..Len(file)
               /\ run.at \notin {"backup", "collect", "open"} =>
                     run.pos >= run.layout.old_data_end_offset
               /\ run.at \in {"sync", "remove"} => run.pos = Len(file)
    <2>1. RunOK /\ run.at \in SavingAt \cup WritingAt /\ Len(file) \in Nat
          /\ (run.at \in SavingAt => Saving) /\ (run.at \in WritingAt => Writing)
      BY <1>4, RunningFacts DEF AmendInv, Running
    <2>2. run.at \in {"backup", "collect", "open", "records", "summary", "footer", "magic",
                      "truncate", "sync", "remove"}
      BY <2>1 DEF SavingAt, WritingAt
    <2>3. CASE run.at \in SavingAt
      <3>1. run.pos = 0 /\ run.at \in {"backup", "collect", "open"}
        BY <2>1, <2>3 DEF Saving, SavingAt
      <3>. QED  BY <2>1, <2>2, <3>1
    <2>4. CASE run.at \in WritingAt
      <3>1. run.layout.old_data_end_offset = From
        BY <2>1 DEF RunOK, Layout, From
      <3>2. /\ From \in Nat /\ run.pos \in Nat /\ From <= run.pos /\ run.pos <= Len(file)
            /\ (run.at \in {"sync", "remove"} => run.pos = Len(file))
        BY <1>4, <2>1, <2>4, FilePrefix DEF Writing
      <3>. QED  BY <2>1, <2>2, <3>1, <3>2
    <2>. QED  BY <2>1, <2>3, <2>4
  <1>. QED  BY <1>1, <1>2, <1>3, <1>4 DEF AmendTypeOK

\* The invariant says which backup restores the file.
LEMMA InvRecoverable ==
    ASSUME AmendInv
    PROVE  Recoverable
  <1>1. CASE ~HasLayout(safe)
    BY <1>1 DEF AmendInv, Untouched, Recoverable
  <1>2. CASE HasLayout(safe) /\ file # safe
    <2>. DEFINE O == DataEndOffset(safe)
    <2>1. Backed /\ Fresh(safe) /\ BackupsOK
      BY <1>2 DEF AmendInv
    <2>2. PICK i \in 1..Len(backups) : Saves(i)
      BY <1>2, <2>1 DEF Backed
    <2>3. O \in Nat /\ Sound(file, O) /\ Sound(safe, O) /\ SameUpTo(file, safe, O)
      BY <1>2, <2>1 DEF Backed, Fresh
    <2>4. /\ IsSeq(file) /\ IsSeq(safe) /\ O <= Len(file) /\ O <= Len(safe)
      BY <2>3, IsSeqFacts DEF Sound
    <2>5. SubSeq(file, 1, O) \o SubSeq(safe, O + 1, Len(safe)) = safe
      BY <2>3, <2>4, RestoredFacts
    <2>6. backups[i].synced /\ backups[i].cells = SubSeq(safe, O + 1, Len(safe))
      BY <2>2 DEF Saves, TailOf
    <2>7. Restored(file, backups[i], O) = safe
      BY <2>5, <2>6 DEF Restored
    <2>8. Layout(safe).old_data_end_offset = O
      BY DEF Layout
    <2>9. i \in DOMAIN backups
      BY <2>1, IsSeqFacts DEF BackupsOK
    <2>. HIDE DEF O
    <2>. QED  BY <2>6, <2>7, <2>8, <2>9 DEF Recoverable
  <1>. QED  BY <1>1, <1>2 DEF Recoverable

\* Killed, failed or without power at any cell of any write of any command,
\* the file is what it was or what the last command to succeed made of it, or
\* a backup on the disk restores it.
THEOREM FileAlwaysRecoverable == Spec => []AlwaysRecoverable
  <1>1. AmendInv => AlwaysRecoverable
    BY InvAmendTypeOK, InvRecoverable DEF AlwaysRecoverable
  <1>. QED  BY <1>1, AmendInvariant, PTL

\* The error of a command that could not finish leaves the file alone or names
\* the backup and the offset that restore it.
THEOREM ErrorHintRestores == Spec => []HintRestores
  <1>1. AmendInv => HintRestores
    BY DEF AmendInv, Said
  <1>. QED  BY <1>1, AmendInvariant, PTL
===============================================================================
