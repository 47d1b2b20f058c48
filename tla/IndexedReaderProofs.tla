-------------------------- MODULE IndexedReaderProofs --------------------------
(***************************************************************************)
(* Proofs about the indexed reader: for any file, options and order in     *)
(* which chunks are handed in, exactly the messages asked for come out,    *)
(* each once and in the order asked for.                                   *)
(***************************************************************************)
EXTENDS IndexedReader, SequenceFacts

-------------------------------------------------------------------------------
(* The inductive invariant.                                                *)

Selected == {c \in DOMAIN file.chunks : ChunkSelected(file, opts, c)}

\* The chunks are visited in order, and those done with are not all of them.
ChunksOK ==
    /\ IsSeq(chunk_indexes) /\ cur_chunk_index \in 0..Len(chunk_indexes)
    /\ \A i \in 1..Len(chunk_indexes) : chunk_indexes[i] \in Selected
    /\ \A i, j \in 1..Len(chunk_indexes) :
         i < j => ChunkBefore(file, opts, chunk_indexes[i], chunk_indexes[j])

IsSlot(slot) ==
    /\ slot = [data_start |-> slot.data_start, buf |-> slot.buf,
               message_count |-> slot.message_count]
    /\ slot.data_start \in DOMAIN file.chunks
    /\ slot.message_count \in 0..MaxUsize

SlotsOK(slots) == IsSeq(slots) /\ \A s \in 1..Len(slots) : IsSlot(slots[s])

IsIndex(slots, x) == x.slot \in 1..Len(slots) /\ x.log_time \in Nat /\ x.offset \in Nat

IndexesOK(slots, indexes) ==
    IsSeq(indexes) /\ \A k \in 1..Len(indexes) : IsIndex(slots, indexes[k])

\* What holds however the data of the chunks was.
StateOK ==
    /\ file \in Files /\ opts \in Options
    /\ ChunksOK
    /\ SlotsOK(chunk_slots)
    /\ IndexesOK(chunk_slots, message_indexes)
    /\ cur_message_index \in 0..Len(message_indexes)
    /\ IsSeq(yielded)

\* The message an index stands for.
MessageOf(slots, x) == [chunk |-> slots[x.slot].data_start, at |-> x.offset]

\* The messages of some chunks that pass the filter.
MessagesOf(chunks) ==
    {m \in [chunk : chunks, at : Nat] :
       m.at \in DOMAIN file.chunks[m.chunk] /\ Matches(file.chunks[m.chunk][m.at])}

\* A slot counts the unread indexes (u) that lead into it.
Counted(slots, u) ==
    /\ \A i, j \in 1..Len(u) : u[i] = u[j] => i = j
    /\ \A s \in 1..Len(slots) :
         slots[s].message_count = Cardinality({x \in ToSet(u) : x.slot = s})

\* An unread index leads to its message, in a chunk that was handed in.
Leading(slots, u, rem) ==
    \A x \in ToSet(u) :
      LET slot == slots[x.slot] IN
      /\ slot.buf = file.chunks[slot.data_start]
      /\ slot.data_start \in Selected \ rem
      /\ x.offset \in DOMAIN slot.buf /\ Matches(slot.buf[x.offset])
      /\ slot.buf[x.offset].log_time = x.log_time

\* What was yielded and what is unread are the messages of the chunks handed
\* in, each once.
Complete(slots, u, rem, out) ==
    /\ \A x, y \in ToSet(u) : MessageOf(slots, x) = MessageOf(slots, y) => x = y
    /\ \A i, j \in 1..Len(out) : out[i] = out[j] => i = j
    /\ \A x \in ToSet(u) : MessageOf(slots, x) \notin ToSet(out)
    /\ ToSet(out) \cup {MessageOf(slots, x) : x \in ToSet(u)} = MessagesOf(Selected \ rem)

\* m may come before every message of chunk c.
NotAfterChunk(m, c) ==
    CASE opts.order = "File" -> m.chunk < c
      [] opts.order = "LogTime" -> TimeOf(m) <= MinTime(file.chunks[c])
      [] opts.order = "ReverseLogTime" -> TimeOf(m) >= MaxTime(file.chunks[c])

\* What was yielded, what is unread and what is not loaded are in order.
InOrder(slots, u, rem, out) ==
    /\ \A i, j \in 1..Len(out) : i < j => MayFollow(out[i], out[j])
    /\ \A i, j \in 1..Len(u) :
         i < j => MayFollow(MessageOf(slots, u[i]), MessageOf(slots, u[j]))
    /\ \A m \in ToSet(out), x \in ToSet(u) : MayFollow(m, MessageOf(slots, x))
    /\ \A m \in ToSet(out), c \in rem : NotAfterChunk(m, c)

Exact(slots, u, rem, out) ==
    /\ Counted(slots, u)
    /\ Leading(slots, u, rem)
    /\ Complete(slots, u, rem, out)
    /\ InOrder(slots, u, rem, out)

ReaderInv ==
    /\ StateOK
    /\ ~spoiled => /\ Exact(chunk_slots, Unread, ToSet(Remaining), yielded)
                   /\ event.kind = "None" => ToSet(yielded) = MessagesOf(Selected)

-------------------------------------------------------------------------------
(* The file, its summary and the order of its chunks.                      *)

IsChunk(chunk) ==
    /\ IsSeq(chunk) /\ Len(chunk) <= MaxUsize
    /\ \A at \in 1..Len(chunk) : chunk[at].op = "Message" => chunk[at].log_time \in Nat

\* What is assumed of files.
LEMMA FileFacts ==
    ASSUME NEW f \in Files
    PROVE  /\ IsSeq(f.chunks) /\ Len(f.chunks) \in Nat /\ DOMAIN f.chunks = 1..Len(f.chunks)
           /\ \A c \in 1..Len(f.chunks) : IsChunk(f.chunks[c])
  <1>1. IsSeq(f.chunks)
    BY FilesAssumption DEF IsSeq
  <1>2. Len(f.chunks) \in Nat /\ DOMAIN f.chunks = 1..Len(f.chunks)
    BY <1>1, IsSeqFacts
  <1>3. ASSUME NEW c \in 1..Len(f.chunks) PROVE IsChunk(f.chunks[c])
    <2>1. /\ IsSeq(f.chunks[c]) /\ Len(f.chunks[c]) <= MaxUsize
          /\ \A at \in DOMAIN f.chunks[c] :
               f.chunks[c][at].op = "Message" => f.chunks[c][at].log_time \in Nat
      BY <1>2, FilesAssumption DEF IsSeq
    <2>. QED  BY <2>1, IsSeqFacts DEF IsChunk
  <1>. QED  BY <1>1, <1>2, <1>3

\* What is assumed of options.
LEMMA OptionFacts ==
    ASSUME NEW o \in Options
    PROVE  o.order \in Orders /\ o.start \in Nat /\ o.end \in Nat
  BY ReaderAssumption DEF OptionType

\* The times of a chunk index bound the times of the messages.
LEMMA TimeFacts ==
    ASSUME NEW chunk, IsChunk(chunk)
    PROVE  /\ MinTime(chunk) \in Nat /\ MaxTime(chunk) \in Nat
           /\ \A at \in Messages(chunk) :
                /\ chunk[at].log_time \in Nat
                /\ MinTime(chunk) <= chunk[at].log_time
                /\ chunk[at].log_time <= MaxTime(chunk)
  <1>. DEFINE M == Messages(chunk)
              f == [at \in M |-> chunk[at].log_time]
              T == {chunk[at].log_time : at \in M}
  <1>0. Len(chunk) \in Nat /\ DOMAIN chunk = 1..Len(chunk)
    BY IsSeqFacts DEF IsChunk
  <1>1. \A at \in M : chunk[at].log_time \in Nat
    BY <1>0 DEF Messages, IsChunk
  <1>2. IsFiniteSet(M)
    <2>1. M \in SUBSET (1..Len(chunk)) /\ IsFiniteSet(1..Len(chunk))
      BY <1>0, FS_Interval DEF Messages
    <2>. QED  BY <2>1, FS_Subset
  <1>3. MinTime(chunk) = (IF T = {} THEN 0 ELSE Min(T))
        /\ MaxTime(chunk) = (IF T = {} THEN 0 ELSE Max(T))
    BY DEF MinTime, MaxTime
  <1>. HIDE DEF M
  <1>4. IsFiniteSet(T)
    <2>1. f \in Surjection(M, T)
      BY DEF Surjection
    <2>. HIDE DEF f, T
    <2>. QED  BY <1>2, <2>1, FS_Surjection
  <1>5. T \subseteq Nat
    BY <1>1
  <1>6. \A at \in M : chunk[at].log_time \in T
    OBVIOUS
  <1>. HIDE DEF T
  <1>7. CASE T = {}
    BY <1>3, <1>6, <1>7 DEF M
  <1>8. CASE T # {}
    <2>1. Min(T) \in T /\ \A y \in T : Min(T) <= y
      BY <1>5, <1>8, LeastNatural DEF Min
    <2>2. Max(T) \in T /\ \A y \in T : Max(T) >= y
      BY <1>4, <1>5, <1>8, GreatestNatural DEF Max
    <2>3. MinTime(chunk) = Min(T) /\ MaxTime(chunk) = Max(T)
      BY <1>3, <1>8
    <2>4. MinTime(chunk) \in Nat /\ MaxTime(chunk) \in Nat
      BY <1>5, <2>1, <2>2, <2>3
    <2>5. ASSUME NEW at \in M
          PROVE  /\ chunk[at].log_time \in Nat
                 /\ MinTime(chunk) <= chunk[at].log_time
                 /\ chunk[at].log_time <= MaxTime(chunk)
      <3>1. chunk[at].log_time \in T /\ chunk[at].log_time \in Nat
        BY <1>6, <1>5
      <3>. QED  BY <3>1, <2>1, <2>2, <2>3, <2>4
    <2>. QED  BY <2>4, <2>5 DEF M
  <1>. QED  BY <1>7, <1>8

SelectedOf(f, o) == {c \in DOMAIN f.chunks : ChunkSelected(f, o, c)}
ChunkRel(f, o) == {p \in SelectedOf(f, o) \X SelectedOf(f, o) : ChunkBefore(f, o, p[1], p[2])}

\* The order of the chunks is strict and total.
LEMMA ChunkBeforeFacts ==
    ASSUME NEW f \in Files, NEW o \in Options
    PROVE  /\ \A c \in 1..Len(f.chunks) : ~ChunkBefore(f, o, c, c)
           /\ \A c, d, e \in 1..Len(f.chunks) :
                ChunkBefore(f, o, c, d) /\ ChunkBefore(f, o, d, e) => ChunkBefore(f, o, c, e)
           /\ \A c, d \in 1..Len(f.chunks) :
                c = d \/ ChunkBefore(f, o, c, d) \/ ChunkBefore(f, o, d, c)
  <1>. DEFINE mint == [c \in 1..Len(f.chunks) |-> MinTime(f.chunks[c])]
              maxt == [c \in 1..Len(f.chunks) |-> MaxTime(f.chunks[c])]
              C == 1..Len(f.chunks)
  <1>1. C \subseteq Nat /\ \A c \in C : mint[c] \in Nat /\ maxt[c] \in Nat
    BY FileFacts, TimeFacts
  <1>2. o.order \in {"LogTime", "ReverseLogTime", "File"}
    BY OptionFacts DEF Orders
  <1>3. \A c, d \in C :
          /\ o.order = "File" => (ChunkBefore(f, o, c, d) <=> c < d)
          /\ o.order = "LogTime" => (ChunkBefore(f, o, c, d) <=> mint[c] < mint[d] \/ (mint[c] = mint[d] /\ c < d))
          /\ o.order = "ReverseLogTime" =>
               (ChunkBefore(f, o, c, d) <=> maxt[d] < maxt[c] \/ (maxt[d] = maxt[c] /\ d < c))
    BY <1>2 DEF ChunkBefore, Lexicographic
  <1>. HIDE DEF C, mint, maxt
  <1>4. \A c \in C : ~ChunkBefore(f, o, c, c)
    BY <1>1, <1>2, <1>3
  <1>5. ASSUME NEW c \in C, NEW d \in C, NEW e \in C, ChunkBefore(f, o, c, d), ChunkBefore(f, o, d, e)
        PROVE  ChunkBefore(f, o, c, e)
    <2>1. CASE o.order = "File"
      BY <1>1, <1>3, <1>5, <2>1
    <2>2. CASE o.order = "LogTime"
      BY <1>1, <1>3, <1>5, <2>2
    <2>3. CASE o.order = "ReverseLogTime"
      BY <1>1, <1>3, <1>5, <2>3
    <2>. QED  BY <1>2, <2>1, <2>2, <2>3
  <1>6. ASSUME NEW c \in C, NEW d \in C, c # d
        PROVE  ChunkBefore(f, o, c, d) \/ ChunkBefore(f, o, d, c)
    <2>1. CASE o.order = "File"
      BY <1>1, <1>3, <1>6, <2>1
    <2>2. CASE o.order = "LogTime"
      BY <1>1, <1>3, <1>6, <2>2
    <2>3. CASE o.order = "ReverseLogTime"
      BY <1>1, <1>3, <1>6, <2>3
    <2>. QED  BY <1>2, <2>1, <2>2, <2>3
  <1>. QED  BY <1>4, <1>5, <1>6 DEF C

\* The constructor puts the selected chunks in order.
LEMMA ChunkOrderSorts ==
    ASSUME NEW f \in Files, NEW o \in Options
    PROVE  Sorts(ChunkOrder(f, o), SelectedOf(f, o), ChunkRel(f, o))
  <1>. DEFINE S == SelectedOf(f, o)
              r == ChunkRel(f, o)
              raw == [n \in 1..Cardinality(S) |->
                        CHOOSE x \in S : Cardinality({y \in S : ChunkBefore(f, o, y, x)}) = n - 1]
  <1>0. Len(f.chunks) \in Nat /\ DOMAIN f.chunks = 1..Len(f.chunks)
    BY FileFacts
  <1>1. S \in SUBSET (1..Len(f.chunks)) /\ IsFiniteSet(1..Len(f.chunks))
    BY <1>0, FS_Interval DEF SelectedOf
  <1>2. IsFiniteSet(S)
    BY <1>1, FS_Subset
  <1>3. \A x, y \in S : <<x, y>> \in r <=> ChunkBefore(f, o, x, y)
    BY DEF ChunkRel
  <1>4. ChunkOrder(f, o) = raw \o <<>>
    BY DEF ChunkOrder, SortedSet, SelectedOf
  <1>5. \A x \in S : {y \in S : ChunkBefore(f, o, y, x)} = Below(S, r, x)
    <2>. HIDE DEF S, r
    <2>. QED  BY <1>3 DEF Below
  <1>6. StrictTotal(S, r)
    <2>. HIDE DEF S, r, raw
    <2>1. \A x \in S : <<x, x>> \notin r
      BY <1>1, <1>3, ChunkBeforeFacts
    <2>2. \A x, y, z \in S : <<x, y>> \in r /\ <<y, z>> \in r => <<x, z>> \in r
      BY <1>1, <1>3, ChunkBeforeFacts
    <2>3. \A x, y \in S : x = y \/ <<x, y>> \in r \/ <<y, x>> \in r
      BY <1>1, <1>3, ChunkBeforeFacts
    <2>. QED  BY <2>1, <2>2, <2>3 DEF StrictTotal
  <1>7. ASSUME NEW n \in 1..Cardinality(S)
        PROVE  raw[n] \in S /\ Rank(S, r, raw[n]) = n - 1
    <2>. DEFINE P(x) == Cardinality({y \in S : ChunkBefore(f, o, y, x)}) = n - 1
    <2>1. \E x \in S : P(x)
      <3>1. PICK x \in S : Cardinality(Below(S, r, x)) = n - 1
        <4>. HIDE DEF S, r, raw
        <4>. QED  BY <1>2, <1>6, RankUnique
      <3>. QED  BY <3>1, <1>5
    <2>2. raw[n] = CHOOSE x \in S : P(x)
      OBVIOUS
    <2>3. raw[n] \in S /\ P(raw[n])
      <3>. HIDE DEF S, P, raw
      <3>. QED  BY <2>1, <2>2
    <2>. QED  BY <2>3, <1>5 DEF Rank
  <1>a. Cardinality(S) \in Nat
    BY <1>2, FS_CardinalityType
  <1>b. DOMAIN raw = 1..Cardinality(S) /\ raw = [n \in 1..Cardinality(S) |-> raw[n]]
    <2>. DEFINE at(n) == CHOOSE x \in S : Cardinality({y \in S : ChunkBefore(f, o, y, x)}) = n - 1
    <2>1. raw = [n \in 1..Cardinality(S) |-> at(n)]
      OBVIOUS
    <2>. HIDE DEF at, raw, S
    <2>. QED  BY <2>1
  <1>. HIDE DEF S, r, raw
  <1>c. IsSeq(raw) /\ Len(raw) = Cardinality(S)
    BY <1>a, <1>b, FunctionIsSeq
  <1>8. Sorts(raw, S, r)
    BY <1>2, <1>6, <1>7, <1>c, SortedByRank
  <1>9. raw \o <<>> = raw
    BY <1>8, ConcatEmpty DEF Sorts
  <1>. QED  BY <1>4, <1>8, <1>9 DEF S, r

-------------------------------------------------------------------------------
(* The indexes that a chunk adds.                                          *)

\* The index of the message at place k of the data in slot s.
IndexAt(s, buf, k) == [slot |-> s, log_time |-> buf[k].log_time, offset |-> k]

Matching(buf) == {k \in DOMAIN buf : Matches(buf[k])}

\* One index for every message that matches, in the order of the chunk.
LEMMA NewFacts ==
    ASSUME NEW s, NEW buf, IsChunk(buf)
    PROVE  /\ IsSeq(NewIndexes(s, buf)) /\ Len(NewIndexes(s, buf)) <= Len(buf)
           /\ ToSet(NewIndexes(s, buf)) = {IndexAt(s, buf, k) : k \in Matching(buf)}
           /\ \A i, j \in 1..Len(NewIndexes(s, buf)) :
                NewIndexes(s, buf)[i] = NewIndexes(s, buf)[j] => i = j
           /\ \A i, j \in 1..Len(NewIndexes(s, buf)) :
                i < j => NewIndexes(s, buf)[i].offset < NewIndexes(s, buf)[j].offset
  <1>. DEFINE S == Matching(buf)
              r == {p \in S \X S : p[1] < p[2]}
              raw == [n \in 1..Cardinality(S) |->
                        CHOOSE x \in S : Cardinality({y \in S : y < x}) = n - 1]
              new == NewIndexes(s, buf)
  <1>0. Len(buf) \in Nat /\ DOMAIN buf = 1..Len(buf)
    BY IsSeqFacts DEF IsChunk
  <1>1. S \in SUBSET (1..Len(buf)) /\ IsFiniteSet(1..Len(buf)) /\ Cardinality(1..Len(buf)) = Len(buf)
    <2>1. IsFiniteSet(1..Len(buf)) /\ Cardinality(1..Len(buf)) = IF 1 > Len(buf) THEN 0 ELSE Len(buf) - 1 + 1
      BY <1>0, FS_Interval
    <2>. QED  BY <1>0, <2>1 DEF Matching
  <1>2. IsFiniteSet(S) /\ Cardinality(S) <= Len(buf) /\ S \subseteq Nat
    BY <1>0, <1>1, FS_Subset
  <1>3. \A x, y \in S : <<x, y>> \in r <=> x < y
    OBVIOUS
  <1>4. new = [n \in DOMAIN (raw \o <<>>) |-> IndexAt(s, buf, (raw \o <<>>)[n])]
    BY DEF NewIndexes, SortedSet, Matching, IndexAt
  <1>5. \A x \in S : {y \in S : y < x} = Below(S, r, x)
    <2>. HIDE DEF S, r
    <2>. QED  BY <1>3 DEF Below
  <1>6. StrictTotal(S, r)
    <2>. HIDE DEF S, r
    <2>. QED  BY <1>2, <1>3 DEF StrictTotal
  <1>7. ASSUME NEW n \in 1..Cardinality(S)
        PROVE  raw[n] \in S /\ Rank(S, r, raw[n]) = n - 1
    <2>. DEFINE P(x) == Cardinality({y \in S : y < x}) = n - 1
    <2>1. \E x \in S : P(x)
      <3>1. PICK x \in S : Cardinality(Below(S, r, x)) = n - 1
        <4>. HIDE DEF S, r, raw
        <4>. QED  BY <1>2, <1>6, RankUnique
      <3>. QED  BY <3>1, <1>5
    <2>2. raw[n] = CHOOSE x \in S : P(x)
      OBVIOUS
    <2>3. raw[n] \in S /\ P(raw[n])
      <3>. HIDE DEF S, P, raw
      <3>. QED  BY <2>1, <2>2
    <2>. QED  BY <2>3, <1>5 DEF Rank
  <1>a. Cardinality(S) \in Nat
    BY <1>2, FS_CardinalityType
  <1>b. DOMAIN raw = 1..Cardinality(S) /\ raw = [n \in 1..Cardinality(S) |-> raw[n]]
    <2>. DEFINE at(n) == CHOOSE x \in S : Cardinality({y \in S : y < x}) = n - 1
    <2>1. raw = [n \in 1..Cardinality(S) |-> at(n)]
      OBVIOUS
    <2>. HIDE DEF at, raw, S
    <2>. QED  BY <2>1
  <1>. HIDE DEF S, r, raw, new
  <1>c. IsSeq(raw) /\ Len(raw) = Cardinality(S)
    BY <1>a, <1>b, FunctionIsSeq
  <1>8. Sorts(raw, S, r)
    BY <1>2, <1>6, <1>7, <1>c, SortedByRank
  <1>9. raw \o <<>> = raw
    BY <1>c, ConcatEmpty
  <1>10. DOMAIN new = 1..Cardinality(S) /\ \A n \in 1..Cardinality(S) : new[n] = IndexAt(s, buf, raw[n])
    BY <1>4, <1>9, <1>b
  <1>11. IsSeq(new) /\ Len(new) = Cardinality(S)
    <2>1. new = [n \in 1..Cardinality(S) |-> new[n]]
      BY <1>4, <1>9, <1>b
    <2>. QED  BY <2>1, <1>10, <1>a, FunctionIsSeq
  <1>12. \A n \in 1..Cardinality(S) : new[n].offset = raw[n]
    BY <1>10 DEF IndexAt
  <1>13. ToSet(new) = {IndexAt(s, buf, k) : k \in S}
    <2>1. ToSet(raw) = S
      BY <1>8 DEF Sorts
    <2>2. \A k \in S : \E n \in 1..Cardinality(S) : raw[n] = k
      BY <2>1, <1>b DEF ToSet
    <2>3. \A n \in 1..Cardinality(S) : raw[n] \in S
      BY <1>7
    <2>. QED  BY <1>10, <2>2, <2>3 DEF ToSet
  <1>14. \A i, j \in 1..Len(new) : i < j => new[i].offset < new[j].offset
    <2>1. \A i, j \in 1..Len(raw) : i < j => <<raw[i], raw[j]>> \in r
      BY <1>8 DEF Sorts
    <2>. QED  BY <2>1, <1>3, <1>7, <1>11, <1>12, <1>c
  <1>15. \A i, j \in 1..Len(new) : new[i] = new[j] => i = j
    <2>1. \A i, j \in 1..Len(raw) : raw[i] = raw[j] => i = j
      BY <1>8 DEF Sorts
    <2>. QED  BY <2>1, <1>11, <1>12, <1>c
  <1>16. Len(new) <= Len(buf)
    BY <1>11, <1>2
  <1>. QED  BY <1>11, <1>13, <1>14, <1>15, <1>16 DEF new, S

-------------------------------------------------------------------------------
(* The order of the indexes.                                               *)

\* The comparison of two indexes is a strict weak order.
LEMMA IndexBeforeFacts ==
    ASSUME file \in Files, opts \in Options, NEW slots, SlotsOK(slots), NEW s, IndexesOK(slots, s)
    PROVE  /\ \A i \in 1..Len(s) : ~IndexBefore(slots, s[i], s[i])
           /\ \A i, j, k \in 1..Len(s) :
                IndexBefore(slots, s[i], s[j]) /\ IndexBefore(slots, s[j], s[k])
                  => IndexBefore(slots, s[i], s[k])
           /\ \A i, j, k \in 1..Len(s) :
                ~IndexBefore(slots, s[i], s[j]) /\ ~IndexBefore(slots, s[j], s[k])
                  => ~IndexBefore(slots, s[i], s[k])
  <1>. DEFINE D == 1..Len(s)
              time == [i \in D |-> s[i].log_time]
              start == [i \in D |-> slots[s[i].slot].data_start]
              off == [i \in D |-> s[i].offset]
              Before(i, j) == IndexBefore(slots, s[i], s[j])
  <1>1. \A i \in D : time[i] \in Nat /\ start[i] \in Nat /\ off[i] \in Nat
    <2>1. \A i \in D : s[i].log_time \in Nat /\ s[i].offset \in Nat /\ s[i].slot \in 1..Len(slots)
      BY DEF IndexesOK, IsIndex
    <2>2. \A c \in DOMAIN file.chunks : c \in Nat
      BY FileFacts
    <2>3. \A n \in 1..Len(slots) : slots[n].data_start \in Nat
      BY <2>2 DEF SlotsOK, IsSlot
    <2>. QED  BY <2>1, <2>3
  <1>2. opts.order \in {"LogTime", "ReverseLogTime", "File"}
    BY OptionFacts DEF Orders
  <1>. DEFINE Lex(i, j) == start[i] < start[j] \/ (start[i] = start[j] /\ off[i] < off[j])
  <1>3. \A i, j \in D :
          /\ opts.order = "File" => (Before(i, j) <=> Lex(i, j))
          /\ opts.order = "LogTime" =>
               (Before(i, j) <=> time[i] < time[j] \/ (time[i] = time[j] /\ Lex(i, j)))
          /\ opts.order = "ReverseLogTime" =>
               (Before(i, j) <=> time[i] > time[j] \/ (time[i] = time[j] /\ Lex(j, i)))
    <2>. SUFFICES ASSUME NEW i \in D, NEW j \in D
                  PROVE  /\ opts.order = "File" => (Before(i, j) <=> Lex(i, j))
                         /\ opts.order = "LogTime" =>
                              (Before(i, j) <=> time[i] < time[j] \/ (time[i] = time[j] /\ Lex(i, j)))
                         /\ opts.order = "ReverseLogTime" =>
                              (Before(i, j) <=> time[i] > time[j] \/ (time[i] = time[j] /\ Lex(j, i)))
      OBVIOUS
    <2>1. /\ time[i] = s[i].log_time /\ start[i] = slots[s[i].slot].data_start /\ off[i] = s[i].offset
          /\ time[j] = s[j].log_time /\ start[j] = slots[s[j].slot].data_start /\ off[j] = s[j].offset
      OBVIOUS
    <2>. HIDE DEF time, start, off
    <2>2. CASE opts.order = "File"
      BY <2>1, <2>2 DEF IndexBefore, Lexicographic
    <2>3. CASE opts.order = "LogTime"
      BY <2>1, <2>3 DEF IndexBefore, Lexicographic
    <2>4. CASE opts.order = "ReverseLogTime"
      BY <2>1, <2>4 DEF IndexBefore, Lexicographic
    <2>. QED  BY <1>2, <2>2, <2>3, <2>4
  <1>. HIDE DEF D, time, start, off, Before
  <1>4. CASE opts.order = "File"
    <2>1. \A i, j \in D : Before(i, j) <=> Lex(i, j)
      BY <1>3, <1>4
    <2>2. \A i \in D : ~Before(i, i)
      BY <2>1, <1>1
    <2>3. \A i, j, k \in D : Before(i, j) /\ Before(j, k) => Before(i, k)
      BY <2>1, <1>1
    <2>4. \A i, j, k \in D : ~Before(i, j) /\ ~Before(j, k) => ~Before(i, k)
      BY <2>1, <1>1
    <2>. QED  BY <2>2, <2>3, <2>4 DEF D, Before
  <1>5. CASE opts.order = "LogTime"
    <2>1. \A i, j \in D : Before(i, j) <=> time[i] < time[j] \/ (time[i] = time[j] /\ Lex(i, j))
      BY <1>3, <1>5
    <2>2. \A i \in D : ~Before(i, i)
      BY <2>1, <1>1
    <2>3. \A i, j, k \in D : Before(i, j) /\ Before(j, k) => Before(i, k)
      BY <2>1, <1>1
    <2>4. \A i, j, k \in D : ~Before(i, j) /\ ~Before(j, k) => ~Before(i, k)
      BY <2>1, <1>1
    <2>. QED  BY <2>2, <2>3, <2>4 DEF D, Before
  <1>6. CASE opts.order = "ReverseLogTime"
    <2>1. \A i, j \in D : Before(i, j) <=> time[i] > time[j] \/ (time[i] = time[j] /\ Lex(j, i))
      BY <1>3, <1>6
    <2>2. \A i \in D : ~Before(i, i)
      BY <2>1, <1>1
    <2>3. \A i, j, k \in D : Before(i, j) /\ Before(j, k) => Before(i, k)
      BY <2>1, <1>1
    <2>4. \A i, j, k \in D : ~Before(i, j) /\ ~Before(j, k) => ~Before(i, k)
      BY <2>1, <1>1
    <2>. QED  BY <2>2, <2>3, <2>4 DEF D, Before
  <1>. QED  BY <1>2, <1>4, <1>5, <1>6

SortedIndexes(slots, s) == StableSort(s, LAMBDA i, j : IndexBefore(slots, i, j))

\* Sorting keeps the indexes and puts them in order.
LEMMA SortFacts ==
    ASSUME file \in Files, opts \in Options, NEW slots, SlotsOK(slots), NEW s, IndexesOK(slots, s)
    PROVE  LET t == SortedIndexes(slots, s) IN
           /\ IsSeq(t) /\ Len(t) = Len(s) /\ ToSet(t) = ToSet(s)
           /\ (\A i, j \in 1..Len(s) : s[i] = s[j] => i = j)
                => \A i, j \in 1..Len(t) : t[i] = t[j] => i = j
           /\ \A i, j \in 1..Len(t) : i < j => ~IndexBefore(slots, t[j], t[i])
  <1>. DEFINE D == DOMAIN s
              Before(i, j) == IndexBefore(slots, s[i], s[j])
              First(i, j) == IF i < j THEN ~Before(j, i) ELSE Before(i, j)
              r == {p \in D \X D : First(p[1], p[2])}
              rank == [i \in D |-> Cardinality({j \in D : First(j, i)})]
              at == [n \in D |-> CHOOSE i \in D : rank[i] = n - 1]
              t == SortedIndexes(slots, s)
  <1>0. IsSeq(s) /\ Len(s) \in Nat /\ D = 1..Len(s)
    BY IsSeqFacts DEF IndexesOK
  <1>1. /\ \A i \in D : ~Before(i, i)
        /\ \A i, j, k \in D : Before(i, j) /\ Before(j, k) => Before(i, k)
        /\ \A i, j, k \in D : ~Before(i, j) /\ ~Before(j, k) => ~Before(i, k)
    BY <1>0, IndexBeforeFacts
  <1>2. IsFiniteSet(D) /\ Cardinality(D) = Len(s)
    BY <1>0, FinitePlaces
  <1>3. t = [n \in D |-> s[CHOOSE i \in D : (rank \o <<>>)[i] = n - 1]]
    BY DEF SortedIndexes, StableSort
  <1>4. \A i, j \in D : <<i, j>> \in r <=> First(i, j)
    OBVIOUS
  <1>. HIDE DEF Before, t
  <1>5. StrictTotal(D, r)
    <2>0. D \subseteq Nat
      BY <1>0
    <2>. HIDE DEF D, r
    <2>1. \A x \in D : <<x, x>> \notin r
      BY <1>1, <1>4, <2>0
    <2>2. \A x, y, z \in D : <<x, y>> \in r /\ <<y, z>> \in r => <<x, z>> \in r
      <3>. SUFFICES ASSUME NEW x \in D, NEW y \in D, NEW z \in D, First(x, y), First(y, z)
                    PROVE  First(x, z)
        BY <1>4
      <3>1. x \in Nat /\ y \in Nat /\ z \in Nat
        BY <2>0
      <3>2. CASE x < y /\ y < z
        BY <3>1, <3>2, <1>1
      <3>3. CASE x < y /\ ~ (y < z)
        BY <3>1, <3>3, <1>1
      <3>4. CASE ~ (x < y) /\ y < z
        BY <3>1, <3>4, <1>1
      <3>5. CASE ~ (x < y) /\ ~ (y < z)
        BY <3>1, <3>5, <1>1
      <3>. QED  BY <3>2, <3>3, <3>4, <3>5
    <2>3. ASSUME NEW x \in D, NEW y \in D, x # y PROVE <<x, y>> \in r \/ <<y, x>> \in r
      <3>1. x \in Nat /\ y \in Nat
        BY <2>0
      <3>2. CASE x < y
        BY <3>1, <3>2, <1>4
      <3>3. CASE y < x
        BY <3>1, <3>3, <1>4
      <3>. QED  BY <3>1, <3>2, <3>3, <2>3
    <2>. QED  BY <2>1, <2>2, <2>3 DEF StrictTotal
  <1>6. \A i \in D : rank[i] = Rank(D, r, i)
    <2>1. \A i \in D : {j \in D : First(j, i)} = Below(D, r, i)
      <3>. HIDE DEF D, r, First
      <3>. QED  BY <1>4 DEF Below
    <2>. QED  BY <2>1 DEF Rank
  <1>7. rank \o <<>> = rank
    <2>1. DOMAIN rank = 1..Len(s) /\ rank = [i \in 1..Len(s) |-> rank[i]]
      BY <1>0
    <2>. HIDE DEF rank
    <2>. QED  BY <2>1, <1>0, FunctionIsSeq, ConcatEmpty
  <1>8. \A n \in 1..Len(s) : t[n] = s[at[n]]
    <2>. HIDE DEF rank
    <2>. QED  BY <1>0, <1>3, <1>7
  <1>9. ASSUME NEW n \in 1..Len(s) PROVE at[n] \in D /\ Rank(D, r, at[n]) = n - 1
    <2>1. \E i \in D : rank[i] = n - 1
      <3>1. PICK i \in D : Cardinality(Below(D, r, i)) = n - 1
        <4>. HIDE DEF D, r, rank, at
        <4>. QED  BY <1>2, <1>5, RankUnique
      <3>. HIDE DEF D, r, rank, at
      <3>. QED  BY <3>1, <1>6 DEF Rank
    <2>2. at[n] = CHOOSE i \in D : rank[i] = n - 1
      <3>. HIDE DEF rank
      <3>. QED  BY <1>0
    <2>. HIDE DEF D, r, rank, at
    <2>3. at[n] \in D /\ rank[at[n]] = n - 1
      BY <2>1, <2>2
    <2>. QED  BY <2>3, <1>6
  <1>10. IsSeq(at) /\ Len(at) = Len(s)
    <2>. HIDE DEF rank
    <2>1. DOMAIN at = 1..Len(s) /\ at = [n \in 1..Len(s) |-> at[n]]
      <3>. DEFINE where(n) == CHOOSE i \in D : rank[i] = n - 1
      <3>1. at = [n \in D |-> where(n)]
        OBVIOUS
      <3>. HIDE DEF where, at
      <3>. QED  BY <3>1, <1>0
    <2>. HIDE DEF at
    <2>. QED  BY <2>1, <1>0, FunctionIsSeq
  <1>11. IsSeq(t) /\ Len(t) = Len(s)
    <2>. HIDE DEF rank
    <2>1. DOMAIN t = 1..Len(s) /\ t = [n \in 1..Len(s) |-> t[n]]
      <3>. DEFINE where(n) == s[CHOOSE i \in D : (rank \o <<>>)[i] = n - 1]
      <3>1. t = [n \in D |-> where(n)]
        BY <1>3
      <3>. HIDE DEF where
      <3>. QED  BY <3>1, <1>0
    <2>. QED  BY <2>1, <1>0, FunctionIsSeq
  <1>. HIDE DEF r, rank, at, D
  <1>12. Sorts(at, D, r)
    BY <1>2, <1>5, <1>9, <1>10, SortedByRank
  <1>13. ToSet(at) = D /\ \A i, j \in 1..Len(at) : (i < j => <<at[i], at[j]>> \in r) /\ (at[i] = at[j] => i = j)
    BY <1>12 DEF Sorts
  <1>14. ToSet(t) = ToSet(s)
    BY <1>0, <1>8, <1>10, <1>11, <1>13, PermutedElements DEF D
  <1>15. ASSUME \A i, j \in 1..Len(s) : s[i] = s[j] => i = j
         PROVE  \A i, j \in 1..Len(t) : t[i] = t[j] => i = j
    <2>1. \A i \in 1..Len(s) : at[i] \in 1..Len(s) /\ t[i] = s[at[i]]
      BY <1>8, <1>9, <1>0
    <2>2. \A i, j \in 1..Len(s) : t[i] = t[j] => at[i] = at[j]
      BY <1>15, <2>1
    <2>. QED  BY <2>2, <1>10, <1>11, <1>13
  <1>16. ASSUME NEW i \in 1..Len(t), NEW j \in 1..Len(t), i < j PROVE ~IndexBefore(slots, t[j], t[i])
    <2>1. i \in 1..Len(s) /\ j \in 1..Len(s) /\ at[i] \in D /\ at[j] \in D /\ <<at[i], at[j]>> \in r
      BY <1>9, <1>10, <1>11, <1>13, <1>16
    <2>2. First(at[i], at[j])
      BY <2>1, <1>4
    <2>3. ~Before(at[j], at[i])
      <3>1. CASE at[i] < at[j]
        BY <2>2, <3>1
      <3>2. CASE ~ (at[i] < at[j])
        BY <2>1, <2>2, <3>2, <1>1
      <3>. QED  BY <3>1, <3>2
    <2>4. t[i] = s[at[i]] /\ t[j] = s[at[j]]
      BY <1>8, <2>1
    <2>. QED  BY <2>3, <2>4 DEF Before
  <1>. QED  BY <1>11, <1>14, <1>15, <1>16 DEF t

-------------------------------------------------------------------------------
(* The indexes after a chunk was loaded.                                   *)

Distinct(s) == \A i, j \in 1..Len(s) : s[i] = s[j] => i = j

Pushed(new) == IF opts.order = "ReverseLogTime" THEN Reverse(new) ELSE new

\* The new indexes, in the order in which they are pushed.
LEMMA PushedFacts ==
    ASSUME NEW slots, NEW new, IndexesOK(slots, new)
    PROVE  /\ IndexesOK(slots, Pushed(new)) /\ Len(Pushed(new)) = Len(new)
           /\ ToSet(Pushed(new)) = ToSet(new)
           /\ Distinct(new) => Distinct(Pushed(new))
  <1>0. IsSeq(new) /\ Len(new) \in Nat
    BY IsSeqFacts DEF IndexesOK
  <1>1. CASE opts.order = "ReverseLogTime"
    <2>. DEFINE t == Reverse(new)
    <2>1. /\ IsSeq(t) /\ Len(t) = Len(new) /\ ToSet(t) = ToSet(new)
          /\ \A i \in 1..Len(new) : t[i] = new[Len(new) - i + 1]
      BY <1>0, ReverseFacts
    <2>. HIDE DEF t
    <2>2. \A i \in 1..Len(new) : Len(new) - i + 1 \in 1..Len(new)
      BY <1>0
    <2>3. IndexesOK(slots, t)
      BY <2>1, <2>2 DEF IndexesOK
    <2>4. ASSUME Distinct(new) PROVE Distinct(t)
      <3>1. \A i, j \in 1..Len(new) : t[i] = t[j] => Len(new) - i + 1 = Len(new) - j + 1
        BY <2>1, <2>2, <2>4 DEF Distinct
      <3>2. \A i, j \in 1..Len(new) : t[i] = t[j] => i = j
        BY <3>1, <1>0
      <3>. QED  BY <3>2, <2>1 DEF Distinct
    <2>. QED  BY <1>1, <2>1, <2>3, <2>4 DEF Pushed, t
  <1>2. CASE opts.order # "ReverseLogTime"
    BY <1>2 DEF Pushed
  <1>. QED  BY <1>1, <1>2

\* What index_messages makes of the indexes that were kept and the new ones.
LEMMA IndexedFacts ==
    ASSUME file \in Files, opts \in Options, NEW slots, SlotsOK(slots),
           NEW old, NEW new, IndexesOK(slots, old), IndexesOK(slots, new),
           NEW cur \in 0..Len(old)
    PROVE  LET l == Indexed(slots, old, cur, new)
               w == Suffix(l, cur)
           IN /\ IndexesOK(slots, l) /\ Len(l) = Len(old) + Len(new)
              /\ ToSet(w) = ToSet(Suffix(old, cur)) \cup ToSet(new)
              /\ Distinct(Suffix(old, cur)) /\ Distinct(new) /\ ToSet(Suffix(old, cur)) \cap ToSet(new) = {}
                   => Distinct(w)
              /\ IF SortingRequired(old, new)
                 THEN \A i, j \in 1..Len(w) : i < j => ~IndexBefore(slots, w[j], w[i])
                 ELSE w = Pushed(new)
  <1>. DEFINE p == Pushed(new)
              all == old \o p
              u == Suffix(old, cur)
              v == Suffix(all, cur)
              l == Indexed(slots, old, cur, new)
              w == Suffix(l, cur)
              first == SubSeq(all, 1, cur)
              t == SortedIndexes(slots, v)
  <1>0. /\ IsSeq(old) /\ IsSeq(new) /\ Len(old) \in Nat /\ Len(new) \in Nat
        /\ cur \in Nat /\ cur <= Len(old)
    BY IsSeqFacts DEF IndexesOK
  <1>1. IndexesOK(slots, p) /\ IsSeq(p) /\ Len(p) = Len(new) /\ ToSet(p) = ToSet(new)
        /\ (Distinct(new) => Distinct(p))
    BY PushedFacts DEF IndexesOK
  <1>2. l = (IF SortingRequired(old, new) THEN first \o t ELSE all)
    BY DEF Indexed, Pushed, SortedIndexes, Suffix
  <1>. HIDE DEF p, l
  <1>3. /\ IsSeq(all) /\ Len(all) = Len(old) + Len(new)
        /\ \A i \in 1..(Len(old) + Len(new)) : all[i] = IF i <= Len(old) THEN old[i] ELSE p[i - Len(old)]
    BY <1>0, <1>1, ConcatFacts
  <1>. HIDE DEF all
  <1>4. IndexesOK(slots, all)
    <2>1. ASSUME NEW i \in 1..Len(all) PROVE IsIndex(slots, all[i])
      <3>1. CASE i <= Len(old)
        BY <3>1, <1>0, <1>3 DEF IndexesOK
      <3>2. CASE i > Len(old)
        <4>1. i - Len(old) \in 1..Len(p) /\ all[i] = p[i - Len(old)]
          BY <3>2, <1>0, <1>1, <1>3
        <4>. QED  BY <4>1, <1>1 DEF IndexesOK
      <3>. QED  BY <3>1, <3>2, <1>0, <1>3
    <2>. QED  BY <2>1, <1>3 DEF IndexesOK
  <1>5. /\ IsSeq(v) /\ Len(v) = Len(all) - cur
        /\ \A i \in 1..(Len(all) - cur) : v[i] = all[cur + i]
    <2>1. cur \in 0..Len(all)
      BY <1>0, <1>3
    <2>. QED  BY <1>3, <2>1, SuffixFacts
  <1>6. /\ IsSeq(u) /\ Len(u) = Len(old) - cur
        /\ \A i \in 1..(Len(old) - cur) : u[i] = old[cur + i]
    BY <1>0, SuffixFacts
  <1>. HIDE DEF u, v
  <1>7. v = u \o p
    <2>1. /\ IsSeq(u \o p) /\ Len(u \o p) = Len(u) + Len(p)
          /\ \A i \in 1..(Len(u) + Len(p)) : (u \o p)[i] = IF i <= Len(u) THEN u[i] ELSE p[i - Len(u)]
      BY <1>1, <1>6, ConcatFacts
    <2>2. Len(u \o p) = Len(v)
      BY <2>1, <1>0, <1>1, <1>3, <1>5, <1>6
    <2>3. ASSUME NEW i \in 1..Len(v) PROVE (u \o p)[i] = v[i]
      <3>0. i \in Nat /\ 1 <= i /\ i <= Len(old) + Len(new) - cur
        BY <1>0, <1>3, <1>5
      <3>1. CASE i <= Len(old) - cur
        <4>1. (u \o p)[i] = old[cur + i]
          BY <3>0, <3>1, <2>1, <1>0, <1>1, <1>6
        <4>2. v[i] = old[cur + i]
          BY <3>0, <3>1, <1>0, <1>3, <1>5
        <4>. QED  BY <4>1, <4>2
      <3>2. CASE i > Len(old) - cur
        <4>1. (u \o p)[i] = p[i - (Len(old) - cur)]
          BY <3>0, <3>2, <2>1, <1>0, <1>1, <1>6
        <4>2. v[i] = p[(cur + i) - Len(old)]
          BY <3>0, <3>2, <1>0, <1>3, <1>5
        <4>3. i - (Len(old) - cur) = (cur + i) - Len(old)
          BY <3>0, <1>0
        <4>. QED  BY <4>1, <4>2, <4>3
      <3>3. i <= Len(old) - cur \/ i > Len(old) - cur
        BY <3>0, <1>0
      <3>. QED  BY <3>1, <3>2, <3>3
    <2>. QED  BY <2>1, <2>2, <2>3, <1>5, SeqExtensional
  <1>8. ToSet(v) = ToSet(u) \cup ToSet(new)
    BY <1>7, <1>1, <1>6, ConcatElements
  <1>9. ASSUME Distinct(u), Distinct(new), ToSet(u) \cap ToSet(new) = {} PROVE Distinct(v)
    <2>1. Len(v) = Len(u) + Len(p) /\ Len(u) \in Nat /\ Len(p) \in Nat
          /\ \A i \in 1..(Len(u) + Len(p)) : v[i] = IF i <= Len(u) THEN u[i] ELSE p[i - Len(u)]
      BY <1>7, <1>1, <1>6, ConcatFacts, IsSeqFacts
    <2>2. \A i \in 1..Len(u) : u[i] \in ToSet(u)
      BY <1>6, IsSeqFacts
    <2>3. \A i \in 1..Len(p) : p[i] \in ToSet(new)
      BY <1>1, IsSeqFacts
    <2>4. ASSUME NEW i \in 1..Len(v), NEW j \in 1..Len(v), v[i] = v[j] PROVE i = j
      <3>1. CASE i <= Len(u) /\ j <= Len(u)
        <4>1. i \in 1..Len(u) /\ j \in 1..Len(u) /\ u[i] = u[j]
          BY <2>1, <2>4, <3>1
        <4>. QED  BY <4>1, <1>9 DEF Distinct
      <3>2. CASE i > Len(u) /\ j > Len(u)
        <4>1. i - Len(u) \in 1..Len(p) /\ j - Len(u) \in 1..Len(p) /\ p[i - Len(u)] = p[j - Len(u)]
          BY <2>1, <2>4, <3>2
        <4>2. i - Len(u) = j - Len(u)
          BY <4>1, <1>1, <1>9 DEF Distinct
        <4>. QED  BY <4>2, <2>1
      <3>3. CASE i <= Len(u) /\ j > Len(u)
        <4>1. i \in 1..Len(u) /\ j - Len(u) \in 1..Len(p) /\ u[i] = p[j - Len(u)]
          BY <2>1, <2>4, <3>3
        <4>. QED  BY <4>1, <1>9, <2>2, <2>3
      <3>4. CASE i > Len(u) /\ j <= Len(u)
        <4>1. j \in 1..Len(u) /\ i - Len(u) \in 1..Len(p) /\ u[j] = p[i - Len(u)]
          BY <2>1, <2>4, <3>4
        <4>. QED  BY <4>1, <1>9, <2>2, <2>3
      <3>. QED  BY <2>1, <3>1, <3>2, <3>3, <3>4
    <2>. QED  BY <2>4 DEF Distinct
  <1>10. IndexesOK(slots, v)
    <2>1. \A i \in 1..Len(v) : cur + i \in 1..Len(all)
      BY <1>0, <1>3, <1>5
    <2>. QED  BY <2>1, <1>4, <1>5 DEF IndexesOK
  <1>11. CASE SortingRequired(old, new)
    <2>1. /\ IsSeq(t) /\ Len(t) = Len(v) /\ ToSet(t) = ToSet(v)
          /\ (Distinct(v) => Distinct(t))
          /\ \A i, j \in 1..Len(t) : i < j => ~IndexBefore(slots, t[j], t[i])
      BY <1>10, SortFacts DEF Distinct
    <2>. HIDE DEF t
    <2>2. /\ IsSeq(first) /\ Len(first) = cur
          /\ \A i \in 1..cur : first[i] = all[i]
      <3>1. 1 <= cur + 1 /\ cur <= Len(all) /\ cur - 1 + 1 = cur /\ \A i \in 1..cur : 1 + i - 1 = i
        BY <1>0, <1>3
      <3>2. /\ IsSeq(first) /\ Len(first) = cur - 1 + 1
            /\ \A i \in 1..(cur - 1 + 1) : first[i] = all[1 + i - 1]
        BY <3>1, <1>0, <1>3, SubSeqFacts
      <3>. HIDE DEF first
      <3>. QED  BY <3>1, <3>2
    <2>. HIDE DEF first
    <2>3. /\ IsSeq(l) /\ Len(l) = cur + Len(t)
          /\ \A i \in 1..(cur + Len(t)) : l[i] = IF i <= cur THEN first[i] ELSE t[i - cur]
      BY <2>1, <2>2, <1>2, <1>11, ConcatFacts
    <2>4. Len(l) = Len(old) + Len(new) /\ cur \in 0..Len(l) /\ Len(l) - cur = Len(t) /\ Len(t) \in Nat
      BY <2>1, <2>3, <1>0, <1>3, <1>5
    <2>5. IsSeq(w) /\ Len(w) = Len(l) - cur /\ \A i \in 1..(Len(l) - cur) : w[i] = l[cur + i]
      BY <2>3, <2>4, SuffixFacts
    <2>. HIDE DEF w
    <2>6. w = t
      <3>1. ASSUME NEW i \in 1..Len(w) PROVE w[i] = t[i]
        <4>1. cur + i \in 1..(cur + Len(t)) /\ ~ (cur + i <= cur) /\ (cur + i) - cur = i
          BY <2>4, <2>5, <1>0
        <4>2. l[cur + i] = t[(cur + i) - cur]
          BY <4>1, <2>3
        <4>. QED  BY <4>1, <4>2, <2>4, <2>5
      <3>. QED  BY <3>1, <2>1, <2>4, <2>5, SeqExtensional
    <2>7. ASSUME NEW i \in 1..Len(l) PROVE IsIndex(slots, l[i])
      <3>1. CASE i <= cur
        BY <3>1, <2>2, <2>3, <2>4, <1>0, <1>3, <1>4 DEF IndexesOK
      <3>2. CASE i > cur
        <4>1. i - cur \in 1..Len(t) /\ l[i] = t[i - cur]
          BY <3>2, <2>3, <2>4, <1>0
        <4>2. t[i - cur] \in ToSet(v)
          BY <4>1, <2>1, IsSeqFacts
        <4>3. \A x \in ToSet(v) : IsIndex(slots, x)
          <5>1. DOMAIN v = 1..Len(v)
            BY <1>5, IsSeqFacts
          <5>. QED  BY <5>1, <1>10 DEF ToSet, IndexesOK
        <4>. QED  BY <4>1, <4>2, <4>3
      <3>. QED  BY <3>1, <3>2, <2>4, <1>0
    <2>8. IndexesOK(slots, l)
      BY <2>3, <2>7 DEF IndexesOK
    <2>9. /\ ToSet(w) = ToSet(u) \cup ToSet(new)
          /\ Distinct(u) /\ Distinct(new) /\ ToSet(u) \cap ToSet(new) = {} => Distinct(w)
          /\ \A i, j \in 1..Len(w) : i < j => ~IndexBefore(slots, w[j], w[i])
      BY <2>1, <2>6, <1>8, <1>9
    <2>. QED  BY <1>11, <2>4, <2>8, <2>9 DEF u, w, l
  <1>12. CASE ~SortingRequired(old, new)
    <2>1. l = all /\ w = v
      BY <1>12, <1>2 DEF w, v
    <2>2. old = <<>>
      BY <1>12 DEF SortingRequired
    <2>3. Len(old) = 0 /\ cur = 0
      BY <2>2, <1>0
    <2>4. Len(u) = 0
      BY <2>3, <1>0, <1>6
    <2>5. v = p
      <3>1. /\ Len(v) = Len(u) + Len(p)
            /\ \A i \in 1..(Len(u) + Len(p)) : v[i] = IF i <= Len(u) THEN u[i] ELSE p[i - Len(u)]
        BY <1>7, <1>1, <1>6, ConcatFacts
      <3>2. Len(p) \in Nat
        BY <1>1, <1>0
      <3>3. Len(v) = Len(p) /\ \A i \in 1..Len(p) : v[i] = p[i]
        BY <2>4, <3>1, <3>2
      <3>. QED  BY <3>3, <1>1, <1>5, SeqExtensional
    <2>. HIDE DEF w
    <2>6. IndexesOK(slots, l) /\ Len(l) = Len(old) + Len(new)
      BY <2>1, <1>3, <1>4
    <2>7. /\ ToSet(w) = ToSet(u) \cup ToSet(new)
          /\ Distinct(u) /\ Distinct(new) /\ ToSet(u) \cap ToSet(new) = {} => Distinct(w)
          /\ w = Pushed(new)
      BY <2>1, <2>5, <1>8, <1>9 DEF p
    <2>. QED  BY <1>12, <2>6, <2>7 DEF u, w, l
  <1>. QED  BY <1>11, <1>12

-------------------------------------------------------------------------------
(* Loading a chunk.                                                        *)

\* The slots differ in slot s, which may be a new one.
SameExcept(slots, slots2, s) ==
    /\ Len(slots) <= Len(slots2) /\ s \in 1..Len(slots2)
    /\ \A k \in 1..Len(slots2) : k # s => k \in 1..Len(slots) /\ slots2[k] = slots[k]

\* The log time of an unread index is the one of its message.
LEMMA LeadingTimes ==
    ASSUME file \in Files, NEW slots, SlotsOK(slots), NEW u, NEW rem, Leading(slots, u, rem),
           NEW x \in ToSet(u)
    PROVE  /\ MessageOf(slots, x).chunk \in Nat
           /\ TimeOf(MessageOf(slots, x)) = x.log_time
           /\ MessageOf(slots, x) \in MessagesOf(Selected \ rem)
  <1>. DEFINE slot == slots[x.slot]
              m == MessageOf(slots, x)
  <1>1. /\ slot.buf = file.chunks[slot.data_start]
        /\ slot.data_start \in Selected \ rem
        /\ x.offset \in DOMAIN slot.buf /\ Matches(slot.buf[x.offset])
        /\ slot.buf[x.offset].log_time = x.log_time
    BY DEF Leading
  <1>2. m.chunk = slot.data_start /\ m.at = x.offset
    BY DEF MessageOf
  <1>3. slot.data_start \in 1..Len(file.chunks) /\ slot.data_start \in Nat
    BY <1>1, FileFacts DEF Selected
  <1>4. x.offset \in Nat
    <2>1. IsChunk(file.chunks[slot.data_start])
      BY <1>3, FileFacts
    <2>2. DOMAIN file.chunks[slot.data_start] \subseteq Nat
      BY <2>1, IsSeqFacts DEF IsChunk
    <2>. QED  BY <2>2, <1>1
  <1>5. m \in [chunk : Selected \ rem, at : Nat]
    BY <1>1, <1>4 DEF MessageOf
  <1>. HIDE DEF m, slot
  <1>6. m \in MessagesOf(Selected \ rem)
    BY <1>1, <1>2, <1>5 DEF MessagesOf
  <1>7. TimeOf(m) = x.log_time
    BY <1>1, <1>2 DEF TimeOf
  <1>. QED  BY <1>2, <1>3, <1>6, <1>7 DEF m

MessagesDistinct(slots, u) ==
    \A x, y \in ToSet(u) : MessageOf(slots, x) = MessageOf(slots, y) => x = y

UnreadInOrder(slots, u) ==
    \A i, j \in 1..Len(u) : i < j => MayFollow(MessageOf(slots, u[i]), MessageOf(slots, u[j]))

\* Indexes that were sorted are in order.
LEMMA SortedInOrder ==
    ASSUME file \in Files, opts \in Options, NEW slots, SlotsOK(slots), NEW w, IndexesOK(slots, w),
           NEW rem, Leading(slots, w, rem), MessagesDistinct(slots, w), Distinct(w),
           \A i, j \in 1..Len(w) : i < j => ~IndexBefore(slots, w[j], w[i])
    PROVE  UnreadInOrder(slots, w)
  <1>. SUFFICES ASSUME NEW i \in 1..Len(w), NEW j \in 1..Len(w), i < j
                PROVE  MayFollow(MessageOf(slots, w[i]), MessageOf(slots, w[j]))
    BY DEF UnreadInOrder
  <1>. DEFINE x == w[i]
              y == w[j]
              m == MessageOf(slots, x)
              n == MessageOf(slots, y)
  <1>0. IsSeq(w) /\ Len(w) \in Nat
    BY IsSeqFacts DEF IndexesOK
  <1>1. x \in ToSet(w) /\ y \in ToSet(w) /\ x # y
    BY <1>0, IsSeqFacts DEF Distinct
  <1>2. ~IndexBefore(slots, y, x)
    OBVIOUS
  <1>3. x.offset \in Nat /\ y.offset \in Nat /\ x.log_time \in Nat /\ y.log_time \in Nat
    BY DEF IndexesOK, IsIndex
  <1>. HIDE DEF x, y
  <1>4. TimeOf(m) = x.log_time /\ TimeOf(n) = y.log_time /\ m.chunk \in Nat /\ n.chunk \in Nat
    BY <1>1, LeadingTimes
  <1>5. /\ m.chunk = slots[x.slot].data_start /\ m.at = x.offset
        /\ n.chunk = slots[y.slot].data_start /\ n.at = y.offset
    BY DEF MessageOf
  <1>6. m # n
    BY <1>1 DEF MessagesDistinct
  <1>7. m.chunk # n.chunk \/ m.at # n.at
    BY <1>6 DEF MessageOf
  <1>. HIDE DEF m, n
  <1>8. opts.order \in {"LogTime", "ReverseLogTime", "File"}
    BY OptionFacts DEF Orders
  <1>9. CASE opts.order = "File"
    <2>1. ~Lexicographic(n.chunk, n.at, m.chunk, m.at)
      BY <1>2, <1>5, <1>9 DEF IndexBefore
    <2>2. Lexicographic(m.chunk, m.at, n.chunk, n.at)
      BY <2>1, <1>3, <1>4, <1>5, <1>7 DEF Lexicographic
    <2>. QED  BY <2>2, <1>9 DEF MayFollow, Earlier, m, n, x, y
  <1>10. CASE opts.order = "LogTime"
    <2>1. /\ ~(y.log_time < x.log_time)
          /\ y.log_time = x.log_time => ~Lexicographic(n.chunk, n.at, m.chunk, m.at)
      BY <1>2, <1>5, <1>10 DEF IndexBefore
    <2>2. \/ TimeOf(m) < TimeOf(n)
          \/ TimeOf(m) = TimeOf(n) /\ Lexicographic(m.chunk, m.at, n.chunk, n.at)
      BY <2>1, <1>3, <1>4, <1>5, <1>7 DEF Lexicographic
    <2>. QED  BY <2>2, <1>10 DEF MayFollow, Earlier, m, n, x, y
  <1>11. CASE opts.order = "ReverseLogTime"
    <2>1. /\ ~(y.log_time > x.log_time)
          /\ y.log_time = x.log_time => ~Lexicographic(m.chunk, m.at, n.chunk, n.at)
      BY <1>2, <1>5, <1>11 DEF IndexBefore
    <2>2. \/ TimeOf(m) > TimeOf(n)
          \/ TimeOf(m) = TimeOf(n) /\ Lexicographic(n.chunk, n.at, m.chunk, m.at)
      BY <2>1, <1>3, <1>4, <1>5, <1>7 DEF Lexicographic
    <2>. QED  BY <2>2, <1>11 DEF MayFollow, Earlier, m, n, x, y
  <1>. QED  BY <1>8, <1>9, <1>10, <1>11

\* The indexes of one chunk that need no sorting are in order.
LEMMA PushedInOrder ==
    ASSUME file \in Files, opts \in Options, NEW slots, SlotsOK(slots), NEW new, IndexesOK(slots, new),
           NEW rem, Leading(slots, new, rem), NEW s, \A x \in ToSet(new) : x.slot = s,
           \A i, j \in 1..Len(new) : i < j => new[i].offset < new[j].offset,
           opts.order = "File" \/ ~OutOfOrder(new)
    PROVE  UnreadInOrder(slots, Pushed(new))
  <1>0. IsSeq(new) /\ Len(new) \in Nat /\ DOMAIN new = 1..Len(new)
    BY IsSeqFacts DEF IndexesOK
  <1>1. \A i \in 1..Len(new) : new[i] \in ToSet(new)
    BY <1>0, IsSeqFacts
  <1>2. \A i \in 1..Len(new) : TimeOf(MessageOf(slots, new[i])) = new[i].log_time /\ new[i].log_time \in Nat
    BY <1>1, LeadingTimes DEF IndexesOK, IsIndex
  <1>3. opts.order # "File" =>
          \A i, j \in 1..Len(new) : i < j => new[i].log_time <= new[j].log_time
    <2>1. opts.order # "File" =>
            \A i, j \in 1..Len(new) : i < j => ~ (new[j].log_time < new[i].log_time)
      BY <1>0 DEF OutOfOrder
    <2>. QED  BY <2>1, <1>2
  <1>4. opts.order \in {"LogTime", "ReverseLogTime", "File"}
    BY OptionFacts DEF Orders
  <1>5. CASE opts.order = "File"
    <2>1. Pushed(new) = new
      BY <1>5 DEF Pushed
    <2>2. ASSUME NEW i \in 1..Len(new), NEW j \in 1..Len(new), i < j
          PROVE  MayFollow(MessageOf(slots, new[i]), MessageOf(slots, new[j]))
      <3>1. new[i].slot = s /\ new[j].slot = s
        BY <1>1
      <3>2. new[i].offset < new[j].offset
        BY <2>2
      <3>. QED  BY <3>1, <3>2, <1>5 DEF MayFollow, Earlier, Lexicographic, MessageOf
    <2>. QED  BY <2>1, <2>2 DEF UnreadInOrder
  <1>6. CASE opts.order = "LogTime"
    <2>1. Pushed(new) = new
      BY <1>6 DEF Pushed
    <2>2. ASSUME NEW i \in 1..Len(new), NEW j \in 1..Len(new), i < j
          PROVE  MayFollow(MessageOf(slots, new[i]), MessageOf(slots, new[j]))
      <3>1. TimeOf(MessageOf(slots, new[i])) <= TimeOf(MessageOf(slots, new[j]))
        BY <1>2, <1>3, <1>6, <2>2
      <3>2. Earlier(MessageOf(slots, new[i]), MessageOf(slots, new[j]))
        <4>1. new[i].slot = s /\ new[j].slot = s /\ new[i].offset < new[j].offset
          BY <1>1, <2>2
        <4>. QED  BY <4>1 DEF Earlier, Lexicographic, MessageOf
      <3>3. TimeOf(MessageOf(slots, new[i])) \in Nat /\ TimeOf(MessageOf(slots, new[j])) \in Nat
        BY <1>2
      <3>. QED  BY <3>1, <3>2, <3>3, <1>6 DEF MayFollow
    <2>. QED  BY <2>1, <2>2 DEF UnreadInOrder
  <1>7. CASE opts.order = "ReverseLogTime"
    <2>. DEFINE p == Pushed(new)
    <2>1. p = Reverse(new)
      BY <1>7 DEF Pushed
    <2>. HIDE DEF p
    <2>2. Len(p) = Len(new) /\ \A i \in 1..Len(new) : p[i] = new[Len(new) - i + 1]
      BY <2>1, <1>0, ReverseFacts
    <2>3. ASSUME NEW i \in 1..Len(new), NEW j \in 1..Len(new), i < j
          PROVE  MayFollow(MessageOf(slots, p[i]), MessageOf(slots, p[j]))
      <3>1. /\ Len(new) - j + 1 \in 1..Len(new) /\ Len(new) - i + 1 \in 1..Len(new)
            /\ Len(new) - j + 1 < Len(new) - i + 1
        BY <1>0, <2>3
      <3>2. new[Len(new) - j + 1].log_time <= new[Len(new) - i + 1].log_time
        BY <3>1, <1>3, <1>7
      <3>3. TimeOf(MessageOf(slots, p[i])) >= TimeOf(MessageOf(slots, p[j]))
        BY <3>1, <3>2, <2>2, <1>2
      <3>4. Earlier(MessageOf(slots, p[j]), MessageOf(slots, p[i]))
        <4>1. p[i].slot = s /\ p[j].slot = s /\ p[j].offset < p[i].offset
          BY <1>1, <2>2, <3>1
        <4>. QED  BY <4>1 DEF Earlier, Lexicographic, MessageOf
      <3>5. TimeOf(MessageOf(slots, p[i])) \in Nat /\ TimeOf(MessageOf(slots, p[j])) \in Nat
        BY <3>1, <2>2, <1>2
      <3>. QED  BY <3>3, <3>4, <3>5, <1>7 DEF MayFollow
    <2>. QED  BY <2>2, <2>3 DEF UnreadInOrder, p
  <1>. QED  BY <1>4, <1>5, <1>6, <1>7

\* Slot s of slots2 holds chunk c, the indexes of which are the new ones.
Loads(slots, slots2, s, u, rem, c) ==
    /\ SlotsOK(slots2) /\ SameExcept(slots, slots2, s)
    /\ \A x \in ToSet(u) : x.slot \in 1..Len(slots) /\ x.slot # s
    /\ c \in rem /\ rem \subseteq Selected
    /\ slots2[s].data_start = c /\ slots2[s].buf = file.chunks[c]
    /\ slots2[s].message_count = Len(NewIndexes(s, file.chunks[c]))

New(s, c) == NewIndexes(s, file.chunks[c])

\* The messages of the new indexes, and those of the ones that were unread.
LEMMA LoadMessages ==
    ASSUME file \in Files, NEW slots, NEW slots2, NEW s, NEW u, NEW rem, NEW c,
           Loads(slots, slots2, s, u, rem, c)
    PROVE  /\ c \in 1..Len(file.chunks) /\ IsChunk(file.chunks[c])
           /\ IsSeq(New(s, c)) /\ Distinct(New(s, c))
           /\ \A x \in ToSet(New(s, c)) :
                /\ x.slot = s /\ x.offset \in Matching(file.chunks[c])
                /\ x = IndexAt(s, file.chunks[c], x.offset)
                /\ MessageOf(slots2, x) = [chunk |-> c, at |-> x.offset]
           /\ \A k \in Matching(file.chunks[c]) : IndexAt(s, file.chunks[c], k) \in ToSet(New(s, c))
           /\ \A x \in ToSet(u) :
                slots2[x.slot] = slots[x.slot] /\ MessageOf(slots2, x) = MessageOf(slots, x)
  <1>1. c \in 1..Len(file.chunks) /\ IsChunk(file.chunks[c])
    BY FileFacts DEF Loads, Selected
  <1>2. /\ IsSeq(New(s, c)) /\ Distinct(New(s, c))
        /\ ToSet(New(s, c)) = {IndexAt(s, file.chunks[c], k) : k \in Matching(file.chunks[c])}
    BY <1>1, NewFacts DEF New, Distinct
  <1>3. \A k : /\ IndexAt(s, file.chunks[c], k).slot = s
               /\ IndexAt(s, file.chunks[c], k).offset = k
               /\ MessageOf(slots2, IndexAt(s, file.chunks[c], k)) = [chunk |-> c, at |-> k]
    BY DEF IndexAt, MessageOf, Loads
  <1>4. ASSUME NEW x \in ToSet(New(s, c))
        PROVE  /\ x.slot = s /\ x.offset \in Matching(file.chunks[c])
               /\ x = IndexAt(s, file.chunks[c], x.offset)
               /\ MessageOf(slots2, x) = [chunk |-> c, at |-> x.offset]
    <2>1. PICK k \in Matching(file.chunks[c]) : x = IndexAt(s, file.chunks[c], k)
      BY <1>2
    <2>2. x.offset = k
      BY <2>1, <1>3
    <2>. QED  BY <2>1, <2>2, <1>3
  <1>5. \A k \in Matching(file.chunks[c]) : IndexAt(s, file.chunks[c], k) \in ToSet(New(s, c))
    BY <1>2
  <1>6. ASSUME NEW x \in ToSet(u)
        PROVE  slots2[x.slot] = slots[x.slot] /\ MessageOf(slots2, x) = MessageOf(slots, x)
    <2>1. x.slot \in 1..Len(slots) /\ x.slot # s /\ x.slot \in 1..Len(slots2)
      <3>1. x.slot \in 1..Len(slots) /\ x.slot # s
        BY DEF Loads
      <3>2. Len(slots) <= Len(slots2) /\ Len(slots2) \in Nat
        BY IsSeqFacts DEF Loads, SameExcept, SlotsOK
      <3>. QED  BY <3>1, <3>2
    <2>2. slots2[x.slot] = slots[x.slot]
      BY <2>1 DEF Loads, SameExcept
    <2>. QED  BY <2>2 DEF MessageOf
  <1>. QED  BY <1>1, <1>2, <1>4, <1>5, <1>6

\* The new slot counts the new indexes.
LEMMA LoadCounted ==
    ASSUME file \in Files, NEW slots, NEW slots2, NEW s, NEW u, NEW rem, NEW c,
           Loads(slots, slots2, s, u, rem, c), Counted(slots, u),
           NEW w, Distinct(w), ToSet(w) = ToSet(u) \cup ToSet(New(s, c))
    PROVE  Counted(slots2, w)
  <1>1. ASSUME NEW k \in 1..Len(slots2), k # s
        PROVE  slots2[k].message_count = Cardinality({x \in ToSet(w) : x.slot = k})
    <2>1. k \in 1..Len(slots) /\ slots2[k] = slots[k]
      BY <1>1 DEF Loads, SameExcept
    <2>2. {x \in ToSet(w) : x.slot = k} = {x \in ToSet(u) : x.slot = k}
      BY <1>1, LoadMessages
    <2>. QED  BY <2>1, <2>2 DEF Counted
  <1>2. slots2[s].message_count = Cardinality({x \in ToSet(w) : x.slot = s})
    <2>1. {x \in ToSet(w) : x.slot = s} = ToSet(New(s, c))
      <3>1. \A x \in ToSet(u) : x.slot # s
        BY DEF Loads
      <3>2. \A x \in ToSet(New(s, c)) : x.slot = s
        BY LoadMessages
      <3>. QED  BY <3>1, <3>2
    <2>2. Cardinality(ToSet(New(s, c))) = Len(New(s, c))
      BY LoadMessages, CountElements DEF Distinct
    <2>. QED  BY <2>1, <2>2 DEF Loads, New
  <1>. QED  BY <1>1, <1>2 DEF Counted, Distinct

\* All unread indexes lead to their messages.
LEMMA LoadLeading ==
    ASSUME file \in Files, NEW slots, NEW slots2, NEW s, NEW u, NEW rem, NEW c,
           Loads(slots, slots2, s, u, rem, c), Leading(slots, u, rem),
           NEW w, ToSet(w) = ToSet(u) \cup ToSet(New(s, c))
    PROVE  Leading(slots2, w, rem \ {c})
  <1>. SUFFICES ASSUME NEW x \in ToSet(w)
                PROVE  /\ slots2[x.slot].buf = file.chunks[slots2[x.slot].data_start]
                       /\ slots2[x.slot].data_start \in Selected \ (rem \ {c})
                       /\ x.offset \in DOMAIN slots2[x.slot].buf /\ Matches(slots2[x.slot].buf[x.offset])
                       /\ slots2[x.slot].buf[x.offset].log_time = x.log_time
    BY DEF Leading
  <1>1. CASE x \in ToSet(u)
    <2>1. slots2[x.slot] = slots[x.slot]
      BY <1>1, LoadMessages
    <2>2. /\ slots[x.slot].buf = file.chunks[slots[x.slot].data_start]
          /\ slots[x.slot].data_start \in Selected \ rem
          /\ x.offset \in DOMAIN slots[x.slot].buf /\ Matches(slots[x.slot].buf[x.offset])
          /\ slots[x.slot].buf[x.offset].log_time = x.log_time
      BY <1>1 DEF Leading
    <2>. QED  BY <2>1, <2>2
  <1>2. CASE x \in ToSet(New(s, c))
    <2>1. x.slot = s /\ x.offset \in Matching(file.chunks[c]) /\ x = IndexAt(s, file.chunks[c], x.offset)
      BY <1>2, LoadMessages
    <2>2. slots2[s].data_start = c /\ slots2[s].buf = file.chunks[c] /\ c \in Selected
      BY DEF Loads
    <2>3. x.offset \in DOMAIN file.chunks[c] /\ Matches(file.chunks[c][x.offset])
      BY <2>1 DEF Matching
    <2>4. x.log_time = file.chunks[c][x.offset].log_time
      BY <2>1 DEF IndexAt
    <2>. QED  BY <2>1, <2>2, <2>3, <2>4
  <1>. QED  BY <1>1, <1>2

\* The messages of the chunk are added.
LEMMA LoadComplete ==
    ASSUME file \in Files, NEW slots, NEW slots2, NEW s, NEW u, NEW rem, NEW c, NEW out,
           Loads(slots, slots2, s, u, rem, c), Leading(slots, u, rem), Complete(slots, u, rem, out),
           NEW w, ToSet(w) = ToSet(u) \cup ToSet(New(s, c))
    PROVE  Complete(slots2, w, rem \ {c}, out)
  <1>. DEFINE N == ToSet(New(s, c))
              M(x) == MessageOf(slots2, x)
  <1>0. c \in rem /\ c \in Selected
    BY DEF Loads
  <1>1. \A x \in ToSet(u) : M(x) = MessageOf(slots, x)
    BY LoadMessages
  <1>2. \A x \in N : M(x) = [chunk |-> c, at |-> x.offset] /\ x.offset \in Matching(file.chunks[c])
                     /\ x = IndexAt(s, file.chunks[c], x.offset)
    BY LoadMessages
  <1>3. \A x \in ToSet(u) : M(x).chunk # c
    BY <1>0, <1>1 DEF Leading, MessageOf
  <1>4. \A x \in N : M(x).chunk = c /\ M(x).at = x.offset
    BY <1>2
  <1>5. \A m \in ToSet(out) : m.chunk # c
    BY <1>0 DEF Complete, MessagesOf
  <1>6. \A x, y \in ToSet(w) : M(x) = M(y) => x = y
    <2>1. \A x, y \in ToSet(u) : M(x) = M(y) => x = y
      BY <1>1 DEF Complete
    <2>2. \A x, y \in N : M(x) = M(y) => x = y
      BY <1>2, <1>4
    <2>. HIDE DEF N, M
    <2>. QED  BY <2>1, <2>2, <1>3, <1>4 DEF N
  <1>7. \A x \in ToSet(w) : M(x) \notin ToSet(out)
    <2>1. \A x \in ToSet(u) : M(x) \notin ToSet(out)
      BY <1>1 DEF Complete
    <2>. HIDE DEF M, N
    <2>. QED  BY <2>1, <1>4, <1>5 DEF N
  <1>8. MessagesOf(Selected \ (rem \ {c})) = MessagesOf(Selected \ rem) \cup {M(x) : x \in N}
    <2>1. ASSUME NEW x \in N PROVE M(x) \in MessagesOf(Selected \ (rem \ {c}))
      <3>1. x.offset \in DOMAIN file.chunks[c] /\ Matches(file.chunks[c][x.offset]) /\ x.offset \in Nat
        <4>1. IsSeq(file.chunks[c])
          BY LoadMessages DEF IsChunk
        <4>. QED  BY <4>1, <1>2, IsSeqFacts DEF Matching
      <3>2. M(x) \in [chunk : Selected \ (rem \ {c}), at : Nat]
        BY <3>1, <1>0, <1>2
      <3>. QED  BY <3>1, <3>2, <1>4 DEF MessagesOf
    <2>2. MessagesOf(Selected \ rem) \subseteq MessagesOf(Selected \ (rem \ {c}))
      BY DEF MessagesOf
    <2>3. ASSUME NEW m \in MessagesOf(Selected \ (rem \ {c})), m \notin MessagesOf(Selected \ rem)
          PROVE  m \in {M(x) : x \in N}
      <3>1. /\ m.chunk \in Selected \ (rem \ {c}) /\ m.at \in Nat /\ m = [chunk |-> m.chunk, at |-> m.at]
            /\ m.at \in DOMAIN file.chunks[m.chunk] /\ Matches(file.chunks[m.chunk][m.at])
        BY DEF MessagesOf
      <3>2. m.chunk = c
        <4>1. m.chunk \notin Selected \ rem
          BY <3>1, <2>3 DEF MessagesOf
        <4>. QED  BY <3>1, <4>1
      <3>3. m.at \in Matching(file.chunks[c])
        BY <3>1, <3>2 DEF Matching
      <3>. DEFINE x == IndexAt(s, file.chunks[c], m.at)
      <3>4. x \in N /\ x.offset = m.at
        BY <3>3, LoadMessages DEF IndexAt
      <3>. HIDE DEF x, N, M
      <3>5. M(x) = m
        BY <3>1, <3>2, <3>4, <1>2
      <3>. QED  BY <3>4, <3>5
    <2>. HIDE DEF M, N
    <2>. QED  BY <2>1, <2>2, <2>3
  <1>9. ToSet(out) \cup {M(x) : x \in ToSet(w)} = MessagesOf(Selected \ (rem \ {c}))
    <2>1. {M(x) : x \in ToSet(w)} = {MessageOf(slots, x) : x \in ToSet(u)} \cup {M(x) : x \in N}
      <3>. HIDE DEF M, N
      <3>. QED  BY <1>1 DEF N
    <2>2. ToSet(out) \cup {MessageOf(slots, x) : x \in ToSet(u)} = MessagesOf(Selected \ rem)
      BY DEF Complete
    <2>. HIDE DEF M, N
    <2>. QED  BY <2>1, <2>2, <1>8
  <1>10. \A i, j \in 1..Len(out) : out[i] = out[j] => i = j
    BY DEF Complete
  <1>. HIDE DEF N
  <1>. QED  BY <1>6, <1>7, <1>9, <1>10 DEF Complete

\* A message that may come before a chunk may come before its messages.
LEMMA BeforeItsMessages ==
    ASSUME file \in Files, opts \in Options, NEW c \in 1..Len(file.chunks), NEW m,
           m.chunk \in 1..Len(file.chunks), m.chunk # c, TimeOf(m) \in Nat, NotAfterChunk(m, c),
           NEW k \in Matching(file.chunks[c])
    PROVE  MayFollow(m, [chunk |-> c, at |-> k])
  <1>. DEFINE n == [chunk |-> c, at |-> k]
  <1>1. k \in Messages(file.chunks[c])
    BY DEF Matching, Matches, Messages
  <1>2. IsChunk(file.chunks[c])
    BY FileFacts
  <1>3. /\ TimeOf(n) \in Nat
        /\ MinTime(file.chunks[c]) \in Nat /\ MaxTime(file.chunks[c]) \in Nat
        /\ MinTime(file.chunks[c]) <= TimeOf(n) /\ TimeOf(n) <= MaxTime(file.chunks[c])
    BY <1>1, <1>2, TimeFacts DEF TimeOf
  <1>4. n.chunk = c
    OBVIOUS
  <1>. HIDE DEF n
  <1>5. opts.order \in {"LogTime", "ReverseLogTime", "File"}
    BY OptionFacts DEF Orders
  <1>6. CASE opts.order = "File"
    BY <1>4, <1>6 DEF MayFollow, NotAfterChunk, Earlier, Lexicographic, n
  <1>7. CASE opts.order = "LogTime"
    <2>1. TimeOf(m) <= MinTime(file.chunks[c])
      BY <1>7 DEF NotAfterChunk
    <2>2. TimeOf(m) < TimeOf(n) \/ (TimeOf(m) = TimeOf(n) /\ AtEdge(n))
      BY <2>1, <1>3, <1>4, <1>7 DEF AtEdge
    <2>. QED  BY <2>2, <1>4, <1>7 DEF MayFollow, n
  <1>8. CASE opts.order = "ReverseLogTime"
    <2>1. TimeOf(m) >= MaxTime(file.chunks[c])
      BY <1>8 DEF NotAfterChunk
    <2>2. TimeOf(m) > TimeOf(n) \/ (TimeOf(m) = TimeOf(n) /\ AtEdge(n))
      BY <2>1, <1>3, <1>4, <1>8 DEF AtEdge
    <2>. QED  BY <2>2, <1>4, <1>8 DEF MayFollow, n
  <1>. QED  BY <1>5, <1>6, <1>7, <1>8

\* What was yielded are messages of the file.
LEMMA YieldedMessages ==
    ASSUME file \in Files, NEW chunks, chunks \subseteq Selected, NEW m \in MessagesOf(chunks)
    PROVE  /\ m.chunk \in 1..Len(file.chunks) /\ m.chunk \in chunks
           /\ m.at \in Messages(file.chunks[m.chunk]) /\ TimeOf(m) \in Nat
  <1>1. m.chunk \in chunks /\ m.at \in DOMAIN file.chunks[m.chunk] /\ Matches(file.chunks[m.chunk][m.at])
    BY DEF MessagesOf
  <1>2. m.chunk \in 1..Len(file.chunks)
    BY <1>1, FileFacts DEF Selected
  <1>3. m.at \in Messages(file.chunks[m.chunk])
    BY <1>1 DEF Messages, Matches
  <1>4. TimeOf(m) \in Nat
    BY <1>2, <1>3, FileFacts, TimeFacts DEF TimeOf
  <1>. QED  BY <1>1, <1>2, <1>3, <1>4

\* Loading a chunk keeps everything in order.
LEMMA LoadExact ==
    ASSUME file \in Files, opts \in Options,
           NEW slots, NEW slots2, NEW s, NEW u, NEW rem, NEW c, NEW out,
           Loads(slots, slots2, s, u, rem, c), Exact(slots, u, rem, out),
           NEW w, IsSeq(w), Distinct(w), ToSet(w) = ToSet(u) \cup ToSet(New(s, c)),
           UnreadInOrder(slots2, w)
    PROVE  Exact(slots2, w, rem \ {c}, out)
  <1>1. Counted(slots2, w)
    BY LoadCounted DEF Exact
  <1>2. Leading(slots2, w, rem \ {c})
    BY LoadLeading DEF Exact
  <1>3. Complete(slots2, w, rem \ {c}, out)
    BY LoadComplete DEF Exact
  <1>4. InOrder(slots2, w, rem \ {c}, out)
    <2>1. \A i, j \in 1..Len(out) : i < j => MayFollow(out[i], out[j])
      BY DEF Exact, InOrder
    <2>2. \A i, j \in 1..Len(w) :
            i < j => MayFollow(MessageOf(slots2, w[i]), MessageOf(slots2, w[j]))
      BY DEF UnreadInOrder
    <2>3. \A m \in ToSet(out), d \in rem \ {c} : NotAfterChunk(m, d)
      BY DEF Exact, InOrder
    <2>4. ASSUME NEW m \in ToSet(out), NEW x \in ToSet(w)
          PROVE  MayFollow(m, MessageOf(slots2, x))
      <3>1. CASE x \in ToSet(u)
        <4>1. MessageOf(slots2, x) = MessageOf(slots, x)
          BY <3>1, LoadMessages
        <4>. QED  BY <3>1, <4>1 DEF Exact, InOrder
      <3>2. CASE x \in ToSet(New(s, c))
        <4>1. MessageOf(slots2, x) = [chunk |-> c, at |-> x.offset] /\ x.offset \in Matching(file.chunks[c])
              /\ c \in 1..Len(file.chunks)
          BY <3>2, LoadMessages
        <4>2. m \in MessagesOf(Selected \ rem)
          BY DEF Exact, Complete
        <4>3. m.chunk \in 1..Len(file.chunks) /\ TimeOf(m) \in Nat /\ m.chunk # c
          BY <4>2, YieldedMessages DEF Loads
        <4>4. NotAfterChunk(m, c)
          BY DEF Exact, InOrder, Loads
        <4>. QED  BY <4>1, <4>3, <4>4, BeforeItsMessages
      <3>. QED  BY <3>1, <3>2
    <2>. QED  BY <2>1, <2>2, <2>3, <2>4 DEF InOrder
  <1>. QED  BY <1>1, <1>2, <1>3, <1>4 DEF Exact

\* A free slot may be overwritten.
LEMMA PrepareExact ==
    ASSUME NEW slots, NEW slots2, NEW s, NEW u, IsSeq(u), NEW rem, NEW out, Exact(slots, u, rem, out),
           SlotsOK(slots2), SameExcept(slots, slots2, s),
           \A x \in ToSet(u) : x.slot \in 1..Len(slots) /\ x.slot # s,
           slots2[s].message_count = 0
    PROVE  Exact(slots2, u, rem, out)
  <1>1. \A x \in ToSet(u) : slots2[x.slot] = slots[x.slot]
    <2>1. Len(slots) <= Len(slots2) /\ Len(slots2) \in Nat
      BY IsSeqFacts DEF SameExcept, SlotsOK
    <2>2. \A k \in 1..Len(slots) : k # s => slots2[k] = slots[k]
      BY <2>1 DEF SameExcept
    <2>. QED  BY <2>2
  <1>2. \A x \in ToSet(u) : MessageOf(slots2, x) = MessageOf(slots, x)
    BY <1>1 DEF MessageOf
  <1>3. Counted(slots2, u)
    <2>1. {x \in ToSet(u) : x.slot = s} = {}
      OBVIOUS
    <2>2. slots2[s].message_count = Cardinality({x \in ToSet(u) : x.slot = s})
      BY <2>1, FS_EmptySet
    <2>3. \A k \in 1..Len(slots2) : k # s =>
            slots2[k].message_count = Cardinality({x \in ToSet(u) : x.slot = k})
      BY DEF SameExcept, Exact, Counted
    <2>. QED  BY <2>2, <2>3 DEF Exact, Counted
  <1>4. Leading(slots2, u, rem)
    BY <1>1 DEF Exact, Leading
  <1>5. Complete(slots2, u, rem, out)
    <2>1. {MessageOf(slots2, x) : x \in ToSet(u)} = {MessageOf(slots, x) : x \in ToSet(u)}
      BY <1>2
    <2>2. \A x, y \in ToSet(u) : MessageOf(slots2, x) = MessageOf(slots2, y) => x = y
      BY <1>2 DEF Exact, Complete
    <2>3. \A x \in ToSet(u) : MessageOf(slots2, x) \notin ToSet(out)
      BY <1>2 DEF Exact, Complete
    <2>. QED  BY <2>1, <2>2, <2>3 DEF Exact, Complete
  <1>6. InOrder(slots2, u, rem, out)
    <2>1. \A i, j \in 1..Len(u) : i < j => MayFollow(MessageOf(slots2, u[i]), MessageOf(slots2, u[j]))
      <3>1. \A i \in 1..Len(u) : u[i] \in ToSet(u)
        BY IsSeqFacts
      <3>. QED  BY <1>2, <3>1 DEF Exact, InOrder
    <2>2. \A m \in ToSet(out), x \in ToSet(u) : MayFollow(m, MessageOf(slots2, x))
      BY <1>2 DEF Exact, InOrder
    <2>. QED  BY <2>1, <2>2 DEF Exact, InOrder
  <1>. QED  BY <1>3, <1>4, <1>5, <1>6 DEF Exact

-------------------------------------------------------------------------------
(* Yielding a message.                                                     *)

\* The counter of a slot that has a message left goes down by one.
LEMMA OneLessFacts ==
    /\ \A count \in 0..MaxUsize : OneLess(count) \in 0..MaxUsize
    /\ \A count \in 1..MaxUsize : OneLess(count) = count - 1
  <1>0. MaxUsize \in Nat
    BY ReaderAssumption
  <1>1. ASSUME NEW count \in 1..MaxUsize PROVE OneLess(count) = count - 1
    BY <1>0 DEF OneLess
  <1>2. OneLess(0) = MaxUsize
    BY <1>0 DEF OneLess
  <1>3. ASSUME NEW count \in 0..MaxUsize PROVE OneLess(count) \in 0..MaxUsize
    <2>1. CASE count = 0
      BY <1>0, <1>2, <2>1
    <2>2. CASE count # 0
      BY <1>0, <1>1, <2>2
    <2>. QED  BY <2>1, <2>2
  <1>. QED  BY <1>1, <1>3

\* The first unread message may be yielded when it may come before every
\* chunk that is left.
LEMMA YieldExact ==
    ASSUME file \in Files, opts \in Options,
           NEW slots, NEW slots2, SlotsOK(slots2),
           NEW u, IndexesOK(slots, u), Len(u) >= 1, NEW rem, NEW out, IsSeq(out),
           Exact(slots, u, rem, out),
           SameExcept(slots, slots2, u[1].slot),
           slots2[u[1].slot].data_start = slots[u[1].slot].data_start,
           slots2[u[1].slot].buf = slots[u[1].slot].buf,
           slots2[u[1].slot].message_count = slots[u[1].slot].message_count - 1,
           \A c \in rem : NotAfterChunk(MessageOf(slots, u[1]), c),
           NEW w, IsSeq(w), Len(w) = Len(u) - 1, \A i \in 1..Len(w) : w[i] = u[i + 1]
    PROVE  Exact(slots2, w, rem, Append(out, MessageOf(slots, u[1])))
  <1>. DEFINE h == u[1]
              m == MessageOf(slots, h)
              o == Append(out, m)
              M(x) == MessageOf(slots, x)
  <1>0. /\ IsSeq(u) /\ Len(u) \in Nat /\ DOMAIN u = 1..Len(u) /\ 1 \in 1..Len(u)
        /\ Len(out) \in Nat /\ DOMAIN w = 1..Len(w)
    BY IsSeqFacts DEF IndexesOK
  <1>1. \A i, j \in 1..Len(u) : u[i] = u[j] => i = j
    BY DEF Exact, Counted
  <1>2. ToSet(w) = ToSet(u) \ {h}
    <2>1. \A i \in 1..Len(w) : i + 1 \in 1..Len(u) /\ i + 1 # 1
      BY <1>0
    <2>2. ASSUME NEW x \in ToSet(w) PROVE x \in ToSet(u) \ {h}
      <3>1. PICK i \in 1..Len(w) : x = w[i]
        BY <1>0 DEF ToSet
      <3>2. x = u[i + 1] /\ i + 1 \in 1..Len(u) /\ i + 1 # 1
        BY <3>1, <2>1
      <3>3. x # h
        BY <3>2, <1>0, <1>1
      <3>. QED  BY <3>2, <3>3, <1>0 DEF ToSet
    <2>3. ASSUME NEW x \in ToSet(u), x # h PROVE x \in ToSet(w)
      <3>1. PICK i \in 1..Len(u) : x = u[i]
        BY <1>0 DEF ToSet
      <3>2. i # 1
        BY <3>1, <2>3
      <3>3. i - 1 \in 1..Len(w) /\ (i - 1) + 1 = i
        BY <3>2, <1>0
      <3>4. w[i - 1] = x
        BY <3>1, <3>3
      <3>. QED  BY <3>3, <3>4, <1>0 DEF ToSet
    <2>. QED  BY <2>2, <2>3
  <1>3. h \in ToSet(u) /\ \A x \in ToSet(u) : x.slot \in 1..Len(slots)
    BY <1>0 DEF ToSet, IndexesOK, IsIndex
  <1>4. Len(slots) <= Len(slots2) /\ Len(slots2) \in Nat
    BY IsSeqFacts DEF SameExcept, SlotsOK
  <1>5. /\ IsSeq(o) /\ Len(o) = Len(out) + 1 /\ \A i \in 1..Len(out) : o[i] = out[i]
        /\ o[Len(out) + 1] = m /\ ToSet(o) = ToSet(out) \cup {m}
    BY AppendFacts
  <1>6. \A x \in ToSet(u) : /\ slots2[x.slot].data_start = slots[x.slot].data_start
                            /\ slots2[x.slot].buf = slots[x.slot].buf
    <2>1. \A k \in 1..Len(slots) : k # u[1].slot => slots2[k] = slots[k]
      BY <1>4 DEF SameExcept
    <2>. QED  BY <2>1, <1>3
  <1>7. \A x \in ToSet(u) : MessageOf(slots2, x) = M(x)
    BY <1>6 DEF MessageOf
  <1>8. Counted(slots2, w)
    <2>1. \A i, j \in 1..Len(w) : w[i] = w[j] => i = j
      <3>1. \A i, j \in 1..Len(w) : w[i] = w[j] => i + 1 = j + 1
        <4>1. \A i \in 1..Len(w) : i + 1 \in 1..Len(u)
          BY <1>0
        <4>. QED  BY <4>1, <1>1
      <3>. QED  BY <3>1, <1>0
    <2>2. ASSUME NEW k \in 1..Len(slots2), k # h.slot
          PROVE  slots2[k].message_count = Cardinality({x \in ToSet(w) : x.slot = k})
      <3>1. k \in 1..Len(slots) /\ slots2[k] = slots[k]
        BY <2>2 DEF SameExcept
      <3>2. {x \in ToSet(w) : x.slot = k} = {x \in ToSet(u) : x.slot = k}
        BY <2>2, <1>2
      <3>. QED  BY <3>1, <3>2 DEF Exact, Counted
    <2>3. slots2[h.slot].message_count = Cardinality({x \in ToSet(w) : x.slot = h.slot})
      <3>. DEFINE A == {x \in ToSet(u) : x.slot = h.slot}
      <3>1. {x \in ToSet(w) : x.slot = h.slot} = A \ {h} /\ h \in A
        BY <1>2, <1>3
      <3>2. IsFiniteSet(A)
        <4>1. IsFiniteSet(ToSet(u))
          BY <1>0, <1>1, CountElements
        <4>. QED  BY <4>1, FS_Subset
      <3>3. slots[h.slot].message_count = Cardinality(A)
        BY <1>3 DEF Exact, Counted
      <3>. HIDE DEF A
      <3>4. Cardinality(A \ {h}) = Cardinality(A) - 1
        BY <3>1, <3>2, FS_RemoveElement
      <3>. QED  BY <3>1, <3>3, <3>4
    <2>. QED  BY <2>1, <2>2, <2>3 DEF Counted
  <1>9. Leading(slots2, w, rem)
    BY <1>2, <1>6 DEF Exact, Leading
  <1>. HIDE DEF o, m, h
  <1>10. Complete(slots2, w, rem, o)
    <2>0. /\ \A x, y \in ToSet(u) : M(x) = M(y) => x = y
          /\ \A i, j \in 1..Len(out) : out[i] = out[j] => i = j
          /\ \A x \in ToSet(u) : M(x) \notin ToSet(out)
          /\ ToSet(out) \cup {M(x) : x \in ToSet(u)} = MessagesOf(Selected \ rem)
      BY DEF Exact, Complete
    <2>a. m = M(h)
      BY DEF m
    <2>. HIDE DEF M
    <2>1. \A x, y \in ToSet(w) : MessageOf(slots2, x) = MessageOf(slots2, y) => x = y
      BY <2>0, <1>2, <1>7
    <2>2. \A i, j \in 1..Len(o) : o[i] = o[j] => i = j
      <3>1. \A i \in 1..Len(out) : o[i] \in ToSet(out) /\ m \notin ToSet(out)
        BY <2>0, <2>a, <1>3, <1>5, IsSeqFacts
      <3>2. ASSUME NEW i \in 1..Len(o), NEW j \in 1..Len(o), o[i] = o[j] PROVE i = j
        <4>1. CASE i <= Len(out) /\ j <= Len(out)
          BY <4>1, <3>2, <1>0, <1>5, <2>0
        <4>2. CASE i = Len(out) + 1 /\ j <= Len(out)
          BY <4>2, <3>2, <1>0, <1>5, <3>1
        <4>3. CASE i <= Len(out) /\ j = Len(out) + 1
          BY <4>3, <3>2, <1>0, <1>5, <3>1
        <4>4. CASE i = Len(out) + 1 /\ j = Len(out) + 1
          BY <4>4
        <4>. QED  BY <4>1, <4>2, <4>3, <4>4, <1>0, <1>5
      <3>. QED  BY <3>2
    <2>3. \A x \in ToSet(w) : MessageOf(slots2, x) \notin ToSet(o)
      BY <2>0, <2>a, <1>2, <1>3, <1>5, <1>7
    <2>4. ToSet(o) \cup {MessageOf(slots2, x) : x \in ToSet(w)} = MessagesOf(Selected \ rem)
      <3>1. {MessageOf(slots2, x) : x \in ToSet(w)} = {M(x) : x \in ToSet(w)}
        BY <1>2, <1>7
      <3>2. {M(x) : x \in ToSet(u)} = {M(x) : x \in ToSet(w)} \cup {m}
        BY <1>2, <1>3, <2>a
      <3>. QED  BY <3>1, <3>2, <2>0, <1>5
    <2>. QED  BY <2>1, <2>2, <2>3, <2>4 DEF Complete
  <1>11. InOrder(slots2, w, rem, o)
    <2>0. /\ \A i, j \in 1..Len(out) : i < j => MayFollow(out[i], out[j])
          /\ \A i, j \in 1..Len(u) : i < j => MayFollow(M(u[i]), M(u[j]))
          /\ \A n \in ToSet(out), x \in ToSet(u) : MayFollow(n, M(x))
          /\ \A n \in ToSet(out), c \in rem : NotAfterChunk(n, c)
      BY DEF Exact, InOrder
    <2>a. m = M(u[1]) /\ h = u[1]
      BY DEF m, h
    <2>. HIDE DEF M
    <2>b. \A i \in 1..Len(out) : o[i] = out[i] /\ out[i] \in ToSet(out)
      BY <1>5, IsSeqFacts
    <2>1. ASSUME NEW i \in 1..Len(o), NEW j \in 1..Len(o), i < j PROVE MayFollow(o[i], o[j])
      <3>1. CASE j <= Len(out)
        BY <3>1, <2>1, <2>0, <2>b, <1>0, <1>5
      <3>2. CASE j = Len(out) + 1
        <4>1. i \in 1..Len(out) /\ o[j] = m
          BY <3>2, <2>1, <1>0, <1>5
        <4>. QED  BY <4>1, <2>0, <2>a, <2>b, <1>3
      <3>. QED  BY <3>1, <3>2, <1>0, <1>5
    <2>2. ASSUME NEW i \in 1..Len(w), NEW j \in 1..Len(w), i < j
          PROVE  MayFollow(MessageOf(slots2, w[i]), MessageOf(slots2, w[j]))
      <3>1. i + 1 \in 1..Len(u) /\ j + 1 \in 1..Len(u) /\ i + 1 < j + 1
        BY <2>2, <1>0
      <3>2. MayFollow(M(u[i + 1]), M(u[j + 1]))
        BY <3>1, <2>0
      <3>3. u[i + 1] \in ToSet(u) /\ u[j + 1] \in ToSet(u)
        BY <3>1, <1>0, IsSeqFacts
      <3>. QED  BY <3>2, <3>3, <1>7
    <2>3. ASSUME NEW x \in ToSet(w) PROVE MayFollow(m, MessageOf(slots2, x))
      <3>1. PICK i \in 1..Len(w) : x = w[i]
        BY <1>0 DEF ToSet
      <3>2. i + 1 \in 1..Len(u) /\ 1 < i + 1 /\ x = u[i + 1] /\ x \in ToSet(u)
        BY <3>1, <1>0, <1>2
      <3>3. MayFollow(M(u[1]), M(u[i + 1]))
        BY <3>2, <1>0, <2>0
      <3>. QED  BY <3>2, <3>3, <2>a, <1>7
    <2>4. \A n \in ToSet(o), x \in ToSet(w) : MayFollow(n, MessageOf(slots2, x))
      BY <2>0, <2>3, <1>2, <1>5, <1>7
    <2>5. \A n \in ToSet(o), c \in rem : NotAfterChunk(n, c)
      BY <2>0, <1>5 DEF m, h
    <2>. QED  BY <2>1, <2>2, <2>4, <2>5 DEF InOrder
  <1>. QED  BY <1>8, <1>9, <1>10, <1>11 DEF Exact, o, m, h

-------------------------------------------------------------------------------
(* The chunks that are left.                                               *)

\* The chunks not loaded yet are a duplicate-free part of the selected ones, in the order the
\* reader loads them.
LEMMA RemainingFacts ==
    ASSUME file \in Files, opts \in Options, ChunksOK
    PROVE  /\ Remaining = Suffix(chunk_indexes, cur_chunk_index)
           /\ IsSeq(Remaining) /\ Len(Remaining) = Len(chunk_indexes) - cur_chunk_index
           /\ Len(Remaining) \in Nat /\ DOMAIN Remaining = 1..Len(Remaining)
           /\ \A i \in 1..Len(Remaining) :
                cur_chunk_index + i \in 1..Len(chunk_indexes) /\ Remaining[i] = chunk_indexes[cur_chunk_index + i]
           /\ ToSet(Remaining) \subseteq Selected
           /\ Distinct(Remaining)
           /\ Remaining # <<>> =>
                /\ Head(Remaining) \in ToSet(Remaining)
                /\ \A c \in ToSet(Remaining) :
                     c = Head(Remaining) \/ ChunkBefore(file, opts, Head(Remaining), c)
  <1>. DEFINE ci == chunk_indexes
              n == cur_chunk_index
              q == Remaining
  <1>0. IsSeq(ci) /\ Len(ci) \in Nat /\ n \in 0..Len(ci) /\ n \in Nat
    BY IsSeqFacts DEF ChunksOK
  <1>1. q = Suffix(ci, n)
    BY DEF Remaining, Suffix
  <1>. HIDE DEF q
  <1>2. /\ IsSeq(q) /\ Len(q) = Len(ci) - n
        /\ \A i \in 1..(Len(ci) - n) : q[i] = ci[n + i]
        /\ (q = <<>> <=> n = Len(ci))
        /\ n < Len(ci) => Head(q) = ci[n + 1]
    BY <1>0, <1>1, SuffixFacts
  <1>3. Len(q) \in Nat /\ DOMAIN q = 1..Len(q)
    BY <1>2, IsSeqFacts
  <1>4. \A i \in 1..Len(q) : n + i \in 1..Len(ci) /\ q[i] = ci[n + i]
    BY <1>0, <1>2
  <1>5. ToSet(q) \subseteq Selected
    BY <1>3, <1>4 DEF ToSet, ChunksOK
  <1>6. \A i, j \in 1..Len(q) : i < j => ChunkBefore(file, opts, q[i], q[j])
    <2>1. \A i, j \in 1..Len(q) : i < j => n + i < n + j
      BY <1>0, <1>3
    <2>. QED  BY <2>1, <1>4 DEF ChunksOK
  <1>7. \A i \in 1..Len(q) : q[i] \in ToSet(q) /\ q[i] \in 1..Len(file.chunks)
    BY <1>2, <1>5, IsSeqFacts, FileFacts DEF Selected
  <1>8. Distinct(q)
    <2>1. \A c \in 1..Len(file.chunks) : ~ChunkBefore(file, opts, c, c)
      BY ChunkBeforeFacts
    <2>2. ASSUME NEW i \in 1..Len(q), NEW j \in 1..Len(q), q[i] = q[j] PROVE i = j
      <3>1. ~ (i < j) /\ ~ (j < i)
        BY <2>1, <2>2, <1>6, <1>7
      <3>. QED  BY <3>1, <1>3
    <2>. QED  BY <2>2 DEF Distinct
  <1>9. ASSUME q # <<>>
        PROVE  /\ Head(q) \in ToSet(q)
               /\ \A c \in ToSet(q) : c = Head(q) \/ ChunkBefore(file, opts, Head(q), c)
    <2>1. n < Len(ci) /\ 1 \in 1..Len(q) /\ Head(q) = q[1]
      BY <1>0, <1>2, <1>4, <1>9
    <2>2. ASSUME NEW c \in ToSet(q) PROVE c = q[1] \/ ChunkBefore(file, opts, q[1], c)
      <3>1. PICK i \in 1..Len(q) : c = q[i]
        BY <1>3 DEF ToSet
      <3>2. i = 1 \/ 1 < i
        BY <1>3
      <3>. QED  BY <3>1, <3>2, <2>1, <1>6
    <2>. QED  BY <2>1, <2>2, <1>7
  <1>. QED  BY <1>1, <1>2, <1>3, <1>4, <1>5, <1>8, <1>9 DEF q

\* Where the search finds a chunk that is still needed.
LEMMA FoundFacts ==
    ASSUME file \in Files, opts \in Options, ChunksOK, NEW c \in ToSet(Remaining)
    PROVE  Found(c) \in 1..Len(Remaining) /\ Remaining[Found(c)] = c
  <1>. DEFINE T == {n \in DOMAIN Remaining : Remaining[n] = c}
  <1>1. T \subseteq Nat /\ T # {}
    <2>1. DOMAIN Remaining = 1..Len(Remaining) /\ Len(Remaining) \in Nat
      BY RemainingFacts
    <2>. QED  BY <2>1 DEF ToSet
  <1>. HIDE DEF T
  <1>2. Min(T) \in T
    BY <1>1, LeastNatural DEF Min
  <1>. QED  BY <1>2, RemainingFacts DEF Found, T

\* Removing a chunk keeps the others in order.
LEMMA RemoveFacts ==
    ASSUME file \in Files, opts \in Options, ChunksOK, NEW c \in ToSet(Remaining),
           RemoveChunkIndex(c), file' = file, opts' = opts
    PROVE  ChunksOK' /\ ToSet(Remaining)' = ToSet(Remaining) \ {c}
  <1>. DEFINE ci == chunk_indexes
              n == cur_chunk_index
              q == Remaining
              k == Found(c)
  <1>0. /\ IsSeq(ci) /\ Len(ci) \in Nat /\ n \in 0..Len(ci) /\ n \in Nat
        /\ \A i \in 1..Len(ci) : ci[i] \in Selected
        /\ \A i, j \in 1..Len(ci) : i < j => ChunkBefore(file, opts, ci[i], ci[j])
    BY IsSeqFacts DEF ChunksOK
  <1>1. /\ IsSeq(q) /\ Len(q) = Len(ci) - n /\ Len(q) \in Nat /\ DOMAIN q = 1..Len(q)
        /\ \A i \in 1..Len(q) : n + i \in 1..Len(ci) /\ q[i] = ci[n + i]
        /\ Distinct(q)
    BY RemainingFacts
  <1>2. k \in 1..Len(q) /\ q[k] = c
    BY FoundFacts
  <1>3. Selected' = Selected
    BY DEF Selected
  <1>4. \A i \in 1..Len(q) : q[i] = c => i = k
    BY <1>1, <1>2 DEF Distinct
  <1>5. Remaining' = Suffix(chunk_indexes', cur_chunk_index')
    BY DEF Remaining, Suffix
  <1>6. CASE k = 1
    <2>1. cur_chunk_index' = n + 1 /\ chunk_indexes' = ci
      BY <1>6 DEF RemoveChunkIndex
    <2>2. n + 1 \in 0..Len(ci)
      BY <1>0, <1>1, <1>2
    <2>3. ChunksOK'
      BY <1>0, <1>3, <2>1, <2>2 DEF ChunksOK
    <2>4. ToSet(Remaining') = {ci[i] : i \in (n + 2)..Len(ci)}
      <3>1. (n + 1) + 1 = n + 2
        BY <1>0
      <3>. QED  BY <3>1, <1>0, <1>5, <2>1, <2>2, SuffixFacts
    <2>5. ToSet(q) \ {c} = {ci[i] : i \in (n + 2)..Len(ci)}
      <3>1. ASSUME NEW x \in ToSet(q) \ {c} PROVE x \in {ci[i] : i \in (n + 2)..Len(ci)}
        <4>1. PICK i \in 1..Len(q) : x = q[i]
          BY <1>1 DEF ToSet
        <4>2. i # 1
          BY <4>1, <1>2, <1>6
        <4>3. n + i \in (n + 2)..Len(ci) /\ x = ci[n + i]
          BY <4>1, <4>2, <1>0, <1>1
        <4>. QED  BY <4>3
      <3>2. ASSUME NEW i \in (n + 2)..Len(ci) PROVE ci[i] \in ToSet(q) \ {c}
        <4>1. i - n \in 1..Len(q) /\ n + (i - n) = i /\ i - n # 1
          BY <1>0, <1>1
        <4>2. q[i - n] = ci[i]
          BY <4>1, <1>1
        <4>3. q[i - n] # c
          BY <4>1, <1>4, <1>6
        <4>. QED  BY <4>1, <4>2, <4>3, <1>1 DEF ToSet
      <3>. QED  BY <3>1, <3>2
    <2>. QED  BY <2>3, <2>4, <2>5
  <1>7. CASE k # 1
    <2>. DEFINE cj == RemoveAt(ci, n + k)
    <2>1. cur_chunk_index' = n /\ chunk_indexes' = cj
      BY <1>7 DEF RemoveChunkIndex
    <2>2. n + k \in 1..Len(ci) /\ n + k > n + 1 /\ k \in Nat
      BY <1>0, <1>1, <1>2, <1>7
    <2>3. /\ IsSeq(cj) /\ Len(cj) = Len(ci) - 1
          /\ \A i \in 1..(Len(ci) - 1) : cj[i] = IF i < n + k THEN ci[i] ELSE ci[i + 1]
      BY <1>0, <2>2, RemoveAtFacts
    <2>. HIDE DEF cj
    <2>4. n \in 0..Len(cj)
      BY <1>0, <2>2, <2>3
    <2>. DEFINE from(i) == IF i < n + k THEN i ELSE i + 1
    <2>5. \A i \in 1..Len(cj) : from(i) \in 1..Len(ci) /\ cj[i] = ci[from(i)]
      BY <1>0, <2>2, <2>3
    <2>6. \A i, j \in 1..Len(cj) : i < j => from(i) < from(j)
      BY <1>0, <2>2, <2>3
    <2>7. ChunksOK'
      <3>1. \A i \in 1..Len(cj) : cj[i] \in Selected
        BY <2>5, <1>0
      <3>2. \A i, j \in 1..Len(cj) : i < j => ChunkBefore(file, opts, cj[i], cj[j])
        <4>. HIDE DEF from
        <4>. QED  BY <2>5, <2>6, <1>0
      <3>. QED  BY <3>1, <3>2, <2>1, <2>3, <2>4, <1>3 DEF ChunksOK
    <2>8. ToSet(Remaining') = {cj[i] : i \in (n + 1)..Len(cj)}
      BY <1>5, <2>1, <2>3, <2>4, SuffixFacts
    <2>9. {cj[i] : i \in (n + 1)..Len(cj)} = ToSet(q) \ {c}
      <3>1. ASSUME NEW i \in (n + 1)..Len(cj) PROVE cj[i] \in ToSet(q) \ {c}
        <4>1. i \in 1..Len(cj) /\ from(i) - n \in 1..Len(q) /\ n + (from(i) - n) = from(i) /\ from(i) - n # k
          BY <1>0, <1>1, <2>2, <2>3
        <4>2. cj[i] = q[from(i) - n]
          BY <4>1, <2>5, <1>1
        <4>3. q[from(i) - n] # c
          BY <4>1, <1>4
        <4>. QED  BY <4>1, <4>2, <4>3, <1>1 DEF ToSet
      <3>2. ASSUME NEW x \in ToSet(q) \ {c} PROVE x \in {cj[i] : i \in (n + 1)..Len(cj)}
        <4>1. PICK i \in 1..Len(q) : x = q[i]
          BY <1>1 DEF ToSet
        <4>2. i # k
          BY <4>1, <1>2
        <4>. DEFINE j == IF i < k THEN n + i ELSE n + i - 1
        <4>3. j \in (n + 1)..Len(cj) /\ from(j) = n + i /\ j \in 1..Len(cj)
          BY <4>2, <1>0, <1>1, <1>2, <2>2, <2>3
        <4>4. cj[j] = x
          BY <4>1, <4>3, <2>5, <1>1
        <4>. QED  BY <4>3, <4>4
      <3>. QED  BY <3>1, <3>2
    <2>. QED  BY <2>7, <2>8, <2>9
  <1>. QED  BY <1>6, <1>7

-------------------------------------------------------------------------------
(* The slot for a chunk, and the unread indexes.                           *)

\* find_or_make_chunk_slot overwrites a free slot or adds one.
LEMMA PreparedFacts ==
    ASSUME file \in Files, SlotsOK(chunk_slots), NEW c \in DOMAIN file.chunks, NEW buf
    PROVE  LET s == FindOrMakeChunkSlot
               slots == Prepared(c, buf)
           IN /\ SlotsOK(slots) /\ SameExcept(chunk_slots, slots, s)
              /\ slots[s] = [data_start |-> c, buf |-> buf, message_count |-> 0]
              /\ s \in 1..Len(chunk_slots) => chunk_slots[s].message_count = 0
  <1>. DEFINE s == FindOrMakeChunkSlot
              slots == Prepared(c, buf)
              slot == [data_start |-> c, buf |-> buf, message_count |-> 0]
              n == Len(chunk_slots)
  <1>0. IsSeq(chunk_slots) /\ n \in Nat /\ DOMAIN chunk_slots = 1..n
    BY IsSeqFacts DEF SlotsOK
  <1>1. IsSlot(slot)
    BY ReaderAssumption DEF IsSlot
  <1>. HIDE DEF slot
  <1>2. CASE FreeSlots = {}
    <2>1. s = n + 1 /\ slots = Append(chunk_slots, slot)
      BY <1>2 DEF FindOrMakeChunkSlot, Prepared, slot
    <2>. HIDE DEF s, slots
    <2>2. /\ IsSeq(slots) /\ Len(slots) = n + 1 /\ slots[n + 1] = slot
          /\ \A i \in 1..n : slots[i] = chunk_slots[i]
      BY <2>1, <1>0, AppendFacts
    <2>3. SlotsOK(slots)
      BY <2>2, <1>0, <1>1 DEF SlotsOK
    <2>4. SameExcept(chunk_slots, slots, s)
      BY <2>1, <2>2, <1>0 DEF SameExcept
    <2>5. s \notin 1..n
      BY <2>1, <1>0
    <2>. QED  BY <2>1, <2>2, <2>3, <2>4, <2>5 DEF s, slots, slot
  <1>3. CASE FreeSlots # {}
    <2>1. s = Min(FreeSlots) /\ slots = [chunk_slots EXCEPT ![s] = slot]
      BY <1>3 DEF FindOrMakeChunkSlot, Prepared, slot
    <2>2. s \in FreeSlots
      <3>1. FreeSlots \subseteq Nat
        BY <1>0 DEF FreeSlots
      <3>. QED  BY <2>1, <3>1, <1>3, LeastNatural DEF Min
    <2>. HIDE DEF s, slots
    <2>3. s \in 1..n /\ chunk_slots[s].message_count = 0
      BY <2>2, <1>0 DEF FreeSlots
    <2>4. DOMAIN slots = 1..n /\ slots = [i \in 1..n |-> slots[i]]
      BY <2>1, <1>0
    <2>5. IsSeq(slots) /\ Len(slots) = n
      BY <2>4, <1>0, FunctionIsSeq
    <2>6. slots[s] = slot /\ \A i \in 1..n : i # s => slots[i] = chunk_slots[i]
      BY <2>1, <2>3, <1>0
    <2>7. SlotsOK(slots)
      BY <2>5, <2>6, <1>1 DEF SlotsOK
    <2>8. SameExcept(chunk_slots, slots, s)
      BY <2>3, <2>5, <2>6, <1>0 DEF SameExcept
    <2>. QED  BY <2>3, <2>6, <2>7, <2>8 DEF s, slots, slot
  <1>. QED  BY <1>2, <1>3

\* More slots take no index away.
LEMMA IndexesGrow ==
    ASSUME NEW slots, NEW slots2, IsSeq(slots2), Len(slots) <= Len(slots2), IsSeq(slots),
           NEW l, IndexesOK(slots, l)
    PROVE  IndexesOK(slots2, l)
  <1>1. Len(slots) \in Nat /\ Len(slots2) \in Nat
    BY IsSeqFacts
  <1>2. \A x : IsIndex(slots, x) => IsIndex(slots2, x)
    BY <1>1 DEF IsIndex
  <1>. QED  BY <1>2 DEF IndexesOK

\* The unread indexes are a part of the indexes.
LEMMA UnreadFacts ==
    ASSUME StateOK
    PROVE  /\ Unread = Suffix(message_indexes, cur_message_index)
           /\ IndexesOK(chunk_slots, Unread)
           /\ Len(Unread) = Len(message_indexes) - cur_message_index
           /\ \A i \in 1..Len(Unread) : Unread[i] = message_indexes[cur_message_index + i]
           /\ Unread = <<>> <=> cur_message_index = Len(message_indexes)
           /\ Unread # <<>> => Len(Unread) >= 1 /\ Head(Unread) = Unread[1]
           /\ \A x \in ToSet(Unread) : x.slot \in 1..Len(chunk_slots)
  <1>. DEFINE l == message_indexes
              n == cur_message_index
              u == Unread
  <1>0. IsSeq(l) /\ Len(l) \in Nat /\ n \in 0..Len(l) /\ n \in Nat
    BY IsSeqFacts DEF StateOK, IndexesOK
  <1>1. u = Suffix(l, n)
    BY DEF Unread, Suffix
  <1>. HIDE DEF u
  <1>2. /\ IsSeq(u) /\ Len(u) = Len(l) - n
        /\ \A i \in 1..(Len(l) - n) : u[i] = l[n + i]
        /\ (u = <<>> <=> n = Len(l))
        /\ n < Len(l) => Head(u) = l[n + 1]
    BY <1>0, <1>1, SuffixFacts
  <1>3. IndexesOK(chunk_slots, u)
    <2>1. \A i \in 1..Len(u) : n + i \in 1..Len(l)
      BY <1>0, <1>2
    <2>. QED  BY <2>1, <1>2 DEF StateOK, IndexesOK
  <1>4. u # <<>> => Len(u) >= 1 /\ Head(u) = u[1]
    BY <1>0, <1>2
  <1>5. \A x \in ToSet(u) : x.slot \in 1..Len(chunk_slots)
    <2>1. DOMAIN u = 1..Len(u)
      BY <1>2, IsSeqFacts
    <2>. QED  BY <2>1, <1>3 DEF ToSet, IndexesOK, IsIndex
  <1>. QED  BY <1>1, <1>2, <1>3, <1>4, <1>5 DEF u

\* The indexes that are kept hold the unread ones.
LEMMA KeptFacts ==
    ASSUME StateOK
    PROVE  /\ IndexesOK(chunk_slots, Kept) /\ KeptFrom \in 0..Len(Kept)
           /\ Suffix(Kept, KeptFrom) = Unread
  <1>0. IsSeq(message_indexes) /\ Len(message_indexes) \in Nat /\ cur_message_index \in 0..Len(message_indexes)
    BY IsSeqFacts DEF StateOK, IndexesOK
  <1>1. CASE Exhausted
    <2>1. cur_message_index = Len(message_indexes)
      BY <1>0, <1>1 DEF Exhausted
    <2>2. Kept = <<>> /\ KeptFrom = 0 /\ Unread = <<>>
      BY <1>1, <2>1, UnreadFacts DEF Kept, KeptFrom
    <2>3. IsSeq(<<>>) /\ Len(<<>>) = 0
      BY EmptyFacts
    <2>4. 0 \in 0..Len(<<>>) /\ Suffix(<<>>, 0) = <<>>
      BY <2>3, SuffixFacts
    <2>5. IndexesOK(chunk_slots, <<>>)
      BY <2>3 DEF IndexesOK
    <2>. QED  BY <2>2, <2>4, <2>5
  <1>2. CASE ~Exhausted
    BY <1>0, <1>2, UnreadFacts DEF Kept, KeptFrom, StateOK
  <1>. QED  BY <1>1, <1>2

\* No unread index leads into the slot that is about to be used.
LEMMA SlotIsFree ==
    ASSUME StateOK, NEW rem, NEW out, Exact(chunk_slots, Unread, rem, out)
    PROVE  \A x \in ToSet(Unread) : x.slot \in 1..Len(chunk_slots) /\ x.slot # FindOrMakeChunkSlot
  <1>. SUFFICES ASSUME NEW x \in ToSet(Unread), x.slot = FindOrMakeChunkSlot PROVE FALSE
    BY UnreadFacts
  <1>. DEFINE s == FindOrMakeChunkSlot
              A == {y \in ToSet(Unread) : y.slot = s}
  <1>1. s \in 1..Len(chunk_slots)
    BY UnreadFacts
  <1>2. IsSeq(chunk_slots) /\ DOMAIN chunk_slots = 1..Len(chunk_slots) /\ Len(chunk_slots) \in Nat
    BY IsSeqFacts DEF StateOK, SlotsOK
  <1>3. FreeSlots # {} /\ s = Min(FreeSlots)
    BY <1>1, <1>2 DEF FindOrMakeChunkSlot
  <1>4. s \in FreeSlots
    <2>1. FreeSlots \subseteq Nat
      BY <1>2 DEF FreeSlots
    <2>. QED  BY <2>1, <1>3, LeastNatural DEF Min
  <1>5. chunk_slots[s].message_count = 0
    BY <1>4 DEF FreeSlots
  <1>6. Cardinality(A) = 0
    BY <1>1, <1>5 DEF Exact, Counted
  <1>7. IsFiniteSet(A)
    <2>1. IsFiniteSet(ToSet(Unread))
      BY UnreadFacts, CountElements DEF Exact, Counted, IndexesOK
    <2>. QED  BY <2>1, FS_Subset
  <1>8. A = {}
    BY <1>6, <1>7, FS_EmptySet
  <1>. QED  BY <1>8

-------------------------------------------------------------------------------
(* The steps of the reader leave the file and the options alone.           *)

\* While the file and the options stay, so do the selected chunks, the matching records and
\* the order of both.
LEMMA FrameFacts ==
    ASSUME file' = file, opts' = opts
    PROVE  /\ Selected' = Selected
           /\ \A rec : Matches(rec)' <=> Matches(rec)
           /\ \A m : TimeOf(m)' = TimeOf(m)
           /\ \A m, n : MayFollow(m, n)' <=> MayFollow(m, n)
           /\ \A m, c : NotAfterChunk(m, c)' <=> NotAfterChunk(m, c)
           /\ \A chunks : MessagesOf(chunks)' = MessagesOf(chunks)
  <1>1. Selected' = Selected
    BY DEF Selected
  <1>2. \A rec : Matches(rec)' <=> Matches(rec)
    BY DEF Matches
  <1>3. \A m : TimeOf(m)' = TimeOf(m)
    BY DEF TimeOf
  <1>4. \A m, n : MayFollow(m, n)' <=> MayFollow(m, n)
    BY <1>3 DEF MayFollow, AtEdge
  <1>5. \A m, c : NotAfterChunk(m, c)' <=> NotAfterChunk(m, c)
    BY <1>3 DEF NotAfterChunk
  <1>6. \A chunks : MessagesOf(chunks)' = MessagesOf(chunks)
    BY <1>2 DEF MessagesOf
  <1>. QED  BY <1>1, <1>2, <1>3, <1>4, <1>5, <1>6

\* The balance between loaded, unread and yielded messages carries over a step that keeps the
\* file and the options.
LEMMA ExactFrame ==
    ASSUME file' = file, opts' = opts, Exact(chunk_slots', Unread', ToSet(Remaining)', yielded')
    PROVE  Exact(chunk_slots, Unread, ToSet(Remaining), yielded)'
  <1>. DEFINE slots == chunk_slots
              u == Unread
              rem == ToSet(Remaining)
              out == yielded
  <1>1. Counted(slots, u)'
    BY DEF Exact, Counted
  <1>2. Leading(slots, u, rem)'
    BY FrameFacts DEF Exact, Leading
  <1>3. Complete(slots, u, rem, out)'
    BY FrameFacts DEF Exact, Complete, MessageOf
  <1>4. InOrder(slots, u, rem, out)'
    BY FrameFacts DEF Exact, InOrder, MessageOf
  <1>. QED  BY <1>1, <1>2, <1>3, <1>4 DEF Exact

\* What has to be shown of a step.
LEMMA InvStep ==
    ASSUME file \in Files, opts \in Options, file' = file, opts' = opts,
           ChunksOK', SlotsOK(chunk_slots'), IndexesOK(chunk_slots', message_indexes'),
           cur_message_index' \in 0..Len(message_indexes'), IsSeq(yielded'),
           ~spoiled' => /\ Exact(chunk_slots', Unread', ToSet(Remaining)', yielded')
                        /\ event'.kind = "None" => ToSet(yielded') = MessagesOf(Selected)
    PROVE  ReaderInv'
  <1>1. SlotsOK(chunk_slots)'
    BY DEF SlotsOK, IsSlot
  <1>2. IndexesOK(chunk_slots, message_indexes)'
    BY DEF IndexesOK, IsIndex
  <1>3. StateOK'
    BY <1>1, <1>2 DEF StateOK, IsSeq
  <1>4. MessagesOf(Selected)' = MessagesOf(Selected)
    BY FrameFacts
  <1>5. ToSet(yielded)' = ToSet(yielded')
    BY DEF ToSet
  <1>. QED  BY <1>3, <1>4, <1>5, ExactFrame DEF ReaderInv

\* No step but a load changes the chunks that are still to be visited.
LEMMA ChunksKept ==
    ASSUME ChunksOK, file' = file, opts' = opts,
           chunk_indexes' = chunk_indexes, cur_chunk_index' = cur_chunk_index
    PROVE  ChunksOK' /\ Remaining' = Remaining /\ ToSet(Remaining)' = ToSet(Remaining)
  <1>1. Remaining' = Remaining
    BY DEF Remaining
  <1>2. ChunksOK'
    BY FrameFacts DEF ChunksOK, ChunkBefore, IsSeq
  <1>. QED  BY <1>1, <1>2 DEF ToSet

\* Construction.
LEMMA InitInv ==
    ASSUME Init
    PROVE  ReaderInv
  <1>. DEFINE S == SelectedOf(file, opts)
              r == ChunkRel(file, opts)
              ci == chunk_indexes
  <1>0. file \in Files /\ opts \in Options /\ cur_chunk_index = 0 /\ chunk_slots = <<>>
        /\ message_indexes = <<>> /\ cur_message_index = 0 /\ yielded = <<>>
        /\ event = [kind |-> "Created"] /\ ci = ChunkOrder(file, opts)
    BY DEF Init
  <1>1. Sorts(ci, S, r)
    BY <1>0, ChunkOrderSorts
  <1>2. S = Selected
    BY DEF SelectedOf, Selected
  <1>3. IsSeq(ci) /\ Len(ci) \in Nat /\ ToSet(ci) = Selected /\ \A i \in 1..Len(ci) : ci[i] \in Selected
    BY <1>1, <1>2, IsSeqFacts DEF Sorts
  <1>4. ChunksOK
    <2>1. \A i, j \in 1..Len(ci) : i < j => ChunkBefore(file, opts, ci[i], ci[j])
      BY <1>1 DEF Sorts, ChunkRel
    <2>. QED  BY <2>1, <1>0, <1>3 DEF ChunksOK
  <1>5. ToSet(Remaining) = Selected
    <2>1. Remaining = Suffix(ci, 0)
      BY <1>0 DEF Remaining, Suffix
    <2>2. ToSet(Suffix(ci, 0)) = {ci[i] : i \in 1..Len(ci)}
      BY <1>3, SuffixFacts
    <2>3. ToSet(ci) = {ci[i] : i \in 1..Len(ci)}
      BY <1>3, IsSeqFacts DEF ToSet
    <2>. QED  BY <2>1, <2>2, <2>3, <1>3
  <1>6. IsSeq(<<>>) /\ Len(<<>>) = 0 /\ ToSet(<<>>) = {}
    BY EmptyFacts
  <1>7. StateOK
    BY <1>0, <1>4, <1>6 DEF StateOK, SlotsOK, IndexesOK
  <1>8. Unread = <<>>
    BY <1>0, <1>6, <1>7, UnreadFacts
  <1>9. Selected \ ToSet(Remaining) = {} /\ MessagesOf({}) = {}
    BY <1>5 DEF MessagesOf
  <1>10. Exact(chunk_slots, <<>>, ToSet(Remaining), <<>>)
    <2>1. Counted(chunk_slots, <<>>)
      BY <1>0, <1>6 DEF Counted
    <2>2. Leading(chunk_slots, <<>>, ToSet(Remaining))
      BY <1>6 DEF Leading
    <2>3. Complete(chunk_slots, <<>>, ToSet(Remaining), <<>>)
      <3>1. MessagesOf(Selected \ ToSet(Remaining)) = {}
        BY <1>9
      <3>. DEFINE e == <<>>
      <3>2. Len(e) = 0 /\ ToSet(e) = {}
        BY <1>6
      <3>. HIDE DEF e
      <3>3. ToSet(e) \cup {MessageOf(chunk_slots, x) : x \in ToSet(e)} = {}
        BY <3>2
      <3>4. \A i, j \in 1..Len(e) : e[i] = e[j] => i = j
        BY <3>2
      <3>5. Complete(chunk_slots, e, ToSet(Remaining), e)
        BY <3>1, <3>2, <3>3, <3>4 DEF Complete
      <3>. QED  BY <3>5 DEF e
    <2>4. InOrder(chunk_slots, <<>>, ToSet(Remaining), <<>>)
      BY <1>6 DEF InOrder
    <2>. QED  BY <2>1, <2>2, <2>3, <2>4 DEF Exact
  <1>11. event.kind # "None"
    BY <1>0
  <1>. QED  BY <1>0, <1>7, <1>8, <1>10, <1>11 DEF ReaderInv

\* What Inv says, in one place.
LEMMA InvFacts ==
    ASSUME ReaderInv
    PROVE  /\ StateOK /\ ChunksOK /\ SlotsOK(chunk_slots) /\ IndexesOK(chunk_slots, message_indexes)
           /\ file \in Files /\ opts \in Options /\ IsSeq(yielded)
           /\ cur_message_index \in 0..Len(message_indexes)
           /\ ~spoiled => Exact(chunk_slots, Unread, ToSet(Remaining), yielded)
  BY DEF ReaderInv, StateOK

\* A call that only returns.
LEMMA QuietInv ==
    ASSUME ReaderInv, UNCHANGED <<file, opts, reader, yielded, spoiled>>,
           ~spoiled /\ event'.kind = "None" => ToSet(yielded) = MessagesOf(Selected)
    PROVE  ReaderInv'
  <1>1. /\ file' = file /\ opts' = opts /\ chunk_indexes' = chunk_indexes
        /\ cur_chunk_index' = cur_chunk_index /\ chunk_slots' = chunk_slots
        /\ message_indexes' = message_indexes /\ cur_message_index' = cur_message_index
        /\ yielded' = yielded /\ spoiled' = spoiled
    BY DEF reader
  <1>2. ChunksOK' /\ ToSet(Remaining)' = ToSet(Remaining)
    BY <1>1, ChunksKept, InvFacts
  <1>3. Unread' = Unread
    BY <1>1 DEF Unread
  <1>4. /\ SlotsOK(chunk_slots') /\ IndexesOK(chunk_slots', message_indexes')
        /\ cur_message_index' \in 0..Len(message_indexes') /\ IsSeq(yielded')
        /\ file \in Files /\ opts \in Options
    BY <1>1, InvFacts
  <1>5. ~spoiled' => /\ Exact(chunk_slots', Unread', ToSet(Remaining)', yielded')
                     /\ event'.kind = "None" => ToSet(yielded') = MessagesOf(Selected)
    BY <1>1, <1>2, <1>3, InvFacts
  <1>. QED  BY <1>1, <1>2, <1>4, <1>5, InvStep

\* When nothing is left, everything was yielded.
LEMMA DoneInv ==
    ASSUME ReaderInv, Done
    PROVE  ReaderInv'
  <1>1. ASSUME ~spoiled PROVE ToSet(yielded) = MessagesOf(Selected)
    <2>1. Remaining = <<>> /\ Unread = <<>>
      BY DEF Done
    <2>2. ToSet(Remaining) = {} /\ ToSet(Unread) = {}
      BY <2>1, EmptyFacts
    <2>3. Complete(chunk_slots, Unread, ToSet(Remaining), yielded)
      BY <1>1, InvFacts DEF Exact
    <2>4. {MessageOf(chunk_slots, x) : x \in ToSet(Unread)} = {}
      BY <2>2
    <2>5. Selected \ ToSet(Remaining) = Selected
      BY <2>2
    <2>. QED  BY <2>3, <2>4, <2>5 DEF Complete
  <1>2. UNCHANGED <<file, opts, reader, yielded, spoiled>>
    BY DEF Done
  <1>. QED  BY <1>1, <1>2, QuietInv

\* Asking the caller for the next chunk keeps the invariant.
LEMMA RequestInv ==
    ASSUME ReaderInv, ReadChunkRequest
    PROVE  ReaderInv'
  <1>1. UNCHANGED <<file, opts, reader, yielded, spoiled>> /\ event'.kind = "ReadChunkRequest"
    BY DEF ReadChunkRequest
  <1>. QED  BY <1>1, QuietInv

\* Nothing that is left comes before the message that is yielded.
LEMMA NextMessageFirst ==
    ASSUME ReaderInv, ~spoiled, ~NeedsChunk, Unread # <<>>, NEW c \in ToSet(Remaining)
    PROVE  NotAfterChunk(MessageOf(chunk_slots, Unread[1]), c)
  <1>. DEFINE h == Unread[1]
              m == MessageOf(chunk_slots, h)
              d == Head(Remaining)
  <1>0. /\ file \in Files /\ opts \in Options /\ ChunksOK /\ SlotsOK(chunk_slots)
        /\ IsSeq(Unread) /\ Len(Unread) >= 1 /\ Head(Unread) = h
    BY InvFacts, UnreadFacts DEF IndexesOK
  <1>1. h \in ToSet(Unread)
    BY <1>0, IsSeqFacts
  <1>2. Leading(chunk_slots, Unread, ToSet(Remaining))
    BY InvFacts DEF Exact
  <1>3. m.chunk \in Nat /\ TimeOf(m) = h.log_time /\ m \in MessagesOf(Selected \ ToSet(Remaining))
    BY <1>0, <1>1, <1>2, LeadingTimes
  <1>4. m.chunk \in Selected \ ToSet(Remaining) /\ TimeOf(m) \in Nat /\ m.chunk \in 1..Len(file.chunks)
    BY <1>0, <1>3, YieldedMessages
  <1>5. m.chunk = chunk_slots[h.slot].data_start
    BY DEF MessageOf
  <1>6. Remaining # <<>>
    BY EmptyFacts
  <1>7. ~YieldChunkFirst(d, h)
    BY <1>0, <1>6 DEF NeedsChunk
  <1>8. d \in ToSet(Remaining) /\ (c = d \/ ChunkBefore(file, opts, d, c)) /\ d \in Selected /\ c \in Selected
    BY <1>0, <1>6, RemainingFacts
  <1>9. d \in 1..Len(file.chunks) /\ c \in 1..Len(file.chunks) /\ Len(file.chunks) \in Nat
    BY <1>0, <1>8, FileFacts DEF Selected
  <1>10. /\ MinTime(file.chunks[c]) \in Nat /\ MaxTime(file.chunks[c]) \in Nat
         /\ MinTime(file.chunks[d]) \in Nat /\ MaxTime(file.chunks[d]) \in Nat
    BY <1>0, <1>9, FileFacts, TimeFacts
  <1>11. opts.order \in {"LogTime", "ReverseLogTime", "File"}
    BY <1>0, OptionFacts DEF Orders
  <1>. HIDE DEF m, d, h
  <1>12. CASE opts.order = "File"
    <2>1. ~(d < m.chunk) /\ (c = d \/ d < c)
      BY <1>5, <1>7, <1>8, <1>12 DEF YieldChunkFirst, ChunkBefore
    <2>2. m.chunk # d
      BY <1>4, <1>8
    <2>3. m.chunk < c
      BY <2>1, <2>2, <1>3, <1>9
    <2>. QED  BY <2>3, <1>12 DEF NotAfterChunk, m, h
  <1>13. CASE opts.order = "LogTime"
    <2>1. ~(MinTime(file.chunks[d]) < TimeOf(m))
      BY <1>3, <1>7, <1>13 DEF YieldChunkFirst
    <2>2. c = d \/ MinTime(file.chunks[d]) < MinTime(file.chunks[c])
          \/ MinTime(file.chunks[d]) = MinTime(file.chunks[c])
      BY <1>8, <1>13 DEF ChunkBefore, Lexicographic
    <2>3. TimeOf(m) <= MinTime(file.chunks[c])
      BY <2>1, <2>2, <1>4, <1>10
    <2>. QED  BY <2>3, <1>13 DEF NotAfterChunk, m, h
  <1>14. CASE opts.order = "ReverseLogTime"
    <2>1. ~(MaxTime(file.chunks[d]) > TimeOf(m))
      BY <1>3, <1>7, <1>14 DEF YieldChunkFirst
    <2>2. c = d \/ MaxTime(file.chunks[c]) < MaxTime(file.chunks[d])
          \/ MaxTime(file.chunks[c]) = MaxTime(file.chunks[d])
      BY <1>8, <1>14 DEF ChunkBefore, Lexicographic
    <2>3. TimeOf(m) >= MaxTime(file.chunks[c])
      BY <2>1, <2>2, <1>4, <1>10
    <2>. QED  BY <2>3, <1>14 DEF NotAfterChunk, m, h
  <1>. QED  BY <1>11, <1>12, <1>13, <1>14

\* The slot of the next message counts it.
LEMMA HeadCounted ==
    ASSUME ReaderInv, ~spoiled, Unread # <<>>
    PROVE  chunk_slots[Unread[1].slot].message_count \in 1..MaxUsize
  <1>. DEFINE h == Unread[1]
              A == {x \in ToSet(Unread) : x.slot = h.slot}
              n == chunk_slots[h.slot].message_count
  <1>0. IsSeq(Unread) /\ Len(Unread) >= 1 /\ Distinct(Unread)
    BY InvFacts, UnreadFacts DEF IndexesOK, Exact, Counted, Distinct
  <1>1. h \in ToSet(Unread) /\ h \in A
    BY <1>0, IsSeqFacts
  <1>2. h.slot \in 1..Len(chunk_slots)
    BY <1>1, InvFacts, UnreadFacts
  <1>3. n \in 0..MaxUsize
    BY <1>2, InvFacts DEF SlotsOK, IsSlot
  <1>4. n = Cardinality(A)
    BY <1>2, InvFacts DEF Exact, Counted
  <1>5. IsFiniteSet(A)
    <2>1. IsFiniteSet(ToSet(Unread))
      BY <1>0, CountElements DEF Distinct
    <2>. QED  BY <2>1, FS_Subset
  <1>. HIDE DEF A
  <1>6. Cardinality(A) # 0
    BY <1>1, <1>5, FS_EmptySet
  <1>. QED  BY <1>3, <1>4, <1>6, ReaderAssumption

\* A message is yielded, or its index leads elsewhere.
LEMMA YieldInv ==
    ASSUME ReaderInv, YieldMessage
    PROVE  ReaderInv'
  <1>. DEFINE h == Unread[1]
              slot == chunk_slots[h.slot]
              n == cur_message_index
              l == message_indexes
  <1>0. /\ file \in Files /\ opts \in Options /\ StateOK /\ ChunksOK /\ SlotsOK(chunk_slots)
        /\ IndexesOK(chunk_slots, l) /\ IsSeq(yielded) /\ n \in 0..Len(l) /\ Len(l) \in Nat
    BY InvFacts, IsSeqFacts DEF IndexesOK
  <1>1. /\ IndexesOK(chunk_slots, Unread) /\ IsSeq(Unread) /\ Len(Unread) = Len(l) - n
        /\ Unread = Suffix(l, n)
        /\ Len(Unread) >= 1 /\ Head(Unread) = h /\ h.slot \in 1..Len(chunk_slots)
        /\ \A i \in 1..Len(Unread) : Unread[i] = l[n + i]
    <2>1. Unread # <<>>
      BY DEF YieldMessage
    <2>2. IndexesOK(chunk_slots, Unread) /\ IsSeq(Unread)
      BY <1>0, UnreadFacts DEF IndexesOK
    <2>3. h \in ToSet(Unread)
      BY <2>1, <2>2, <1>0, UnreadFacts, IsSeqFacts
    <2>. QED  BY <2>1, <2>2, <2>3, <1>0, UnreadFacts
  <1>2. file' = file /\ opts' = opts /\ spoiled' = spoiled /\ ~NeedsChunk /\ Unread # <<>>
    BY DEF YieldMessage
  <1>3. CASE h.offset \notin Messages(slot.buf)
    <2>1. UNCHANGED <<file, opts, reader, yielded, spoiled>> /\ event'.kind = Misread(h, slot.buf)
      BY <1>1, <1>2, <1>3 DEF YieldMessage
    <2>2. event'.kind # "None"
      BY <2>1 DEF Misread
    <2>. QED  BY <2>1, <2>2, QuietInv
  <1>4. CASE h.offset \in Messages(slot.buf)
    <2>1. /\ cur_message_index' = n + 1 /\ chunk_indexes' = chunk_indexes
          /\ cur_chunk_index' = cur_chunk_index /\ message_indexes' = l
      BY <1>1, <1>4 DEF YieldMessage
    <2>2. ChunksOK' /\ ToSet(Remaining)' = ToSet(Remaining)
      BY <1>0, <1>2, <2>1, ChunksKept
    <2>3. cur_message_index' \in 0..Len(message_indexes')
      BY <2>1, <1>0, <1>1
    <2>4. /\ IsSeq(Unread') /\ Len(Unread') = Len(Unread) - 1
          /\ \A i \in 1..Len(Unread') : Unread'[i] = Unread[i + 1]
      <3>1. Unread' = Suffix(l, n + 1)
        BY <2>1 DEF Unread, Suffix
      <3>2. n + 1 \in 0..Len(l) /\ IsSeq(l)
        BY <1>0, <1>1 DEF IndexesOK
      <3>3. /\ IsSeq(Unread') /\ Len(Unread') = Len(l) - (n + 1)
            /\ \A i \in 1..(Len(l) - (n + 1)) : Unread'[i] = l[(n + 1) + i]
        BY <3>1, <3>2, SuffixFacts
      <3>4. \A i \in 1..(Len(l) - (n + 1)) : i + 1 \in 1..Len(Unread) /\ (n + 1) + i = n + (i + 1)
        BY <3>2, <1>0, <1>1
      <3>5. Len(Unread') = Len(Unread) - 1
        BY <3>3, <1>0, <1>1
      <3>6. \A i \in 1..(Len(l) - (n + 1)) : Unread[i + 1] = l[n + (i + 1)]
        BY <3>4, <1>1
      <3>7. \A i \in 1..(Len(l) - (n + 1)) : Unread'[i] = Unread[i + 1]
        BY <3>3, <3>4, <3>6
      <3>. QED  BY <3>3, <3>5, <3>7
    <2>5. CASE slot.message_count = 0 /\ OverflowChecks
      <3>1. chunk_slots' = chunk_slots /\ yielded' = yielded /\ event'.kind = "PanicOverflow"
        BY <1>1, <1>4, <2>5 DEF YieldMessage
      <3>2. spoiled
        BY <1>2, <2>5, HeadCounted
      <3>3. SlotsOK(chunk_slots') /\ IndexesOK(chunk_slots', message_indexes') /\ IsSeq(yielded')
        BY <3>1, <2>1, <1>0
      <3>. QED  BY <1>0, <1>2, <2>2, <2>3, <3>2, <3>3, InvStep
    <2>6. CASE ~(slot.message_count = 0 /\ OverflowChecks)
      <3>. DEFINE less == OneLess(slot.message_count)
                  y == MessageOf(chunk_slots, h)
      <3>1. /\ chunk_slots' = [chunk_slots EXCEPT ![h.slot].message_count = OneLess(@)]
            /\ yielded' = Append(yielded, [chunk |-> slot.data_start, at |-> h.offset])
            /\ event'.kind = "Message"
        BY <1>1, <1>4, <2>6 DEF YieldMessage
      <3>2. yielded' = Append(yielded, y)
        BY <3>1 DEF MessageOf
      <3>3. IsSlot(slot) /\ less \in 0..MaxUsize
        BY <1>0, <1>1, OneLessFacts DEF SlotsOK, IsSlot
      <3>4. IsSeq(chunk_slots) /\ Len(chunk_slots) \in Nat /\ DOMAIN chunk_slots = 1..Len(chunk_slots)
        BY <1>0, IsSeqFacts DEF SlotsOK
      <3>5. /\ DOMAIN chunk_slots' = 1..Len(chunk_slots)
            /\ chunk_slots' = [i \in 1..Len(chunk_slots) |-> chunk_slots'[i]]
            /\ \A i \in 1..Len(chunk_slots) : i # h.slot => chunk_slots'[i] = chunk_slots[i]
        BY <3>1, <3>4
      <3>6. chunk_slots'[h.slot] = [data_start |-> slot.data_start, buf |-> slot.buf, message_count |-> less]
        <4>1. chunk_slots'[h.slot] = [slot EXCEPT !.message_count = less]
          BY <3>1, <3>4, <1>1
        <4>. HIDE DEF less, slot
        <4>. QED  BY <4>1, <3>3 DEF IsSlot
      <3>. HIDE DEF less, slot
      <3>7. IsSeq(chunk_slots') /\ Len(chunk_slots') = Len(chunk_slots)
        BY <3>4, <3>5, FunctionIsSeq
      <3>8. SlotsOK(chunk_slots')
        <4>1. IsSlot(chunk_slots'[h.slot])
          BY <3>3, <3>6 DEF IsSlot
        <4>. QED  BY <4>1, <3>5, <3>7, <1>0 DEF SlotsOK
      <3>9. SameExcept(chunk_slots, chunk_slots', h.slot)
        BY <3>4, <3>5, <3>7, <1>1 DEF SameExcept
      <3>10. IndexesOK(chunk_slots', message_indexes')
        BY <1>0, <2>1, <3>4, <3>7, IndexesGrow
      <3>11. IsSeq(yielded')
        BY <1>0, <3>2, AppendFacts
      <3>12. ASSUME ~spoiled PROVE Exact(chunk_slots', Unread', ToSet(Remaining)', yielded')
        <4>1. less = slot.message_count - 1
          BY <3>12, <1>2, HeadCounted, OneLessFacts DEF less, slot
        <4>2. Exact(chunk_slots, Unread, ToSet(Remaining), yielded)
          BY <3>12, InvFacts
        <4>3. \A c \in ToSet(Remaining) : NotAfterChunk(y, c)
          BY <3>12, <1>2, NextMessageFirst
        <4>4. /\ chunk_slots'[h.slot].data_start = chunk_slots[h.slot].data_start
              /\ chunk_slots'[h.slot].buf = chunk_slots[h.slot].buf
              /\ chunk_slots'[h.slot].message_count = chunk_slots[h.slot].message_count - 1
          BY <3>6, <4>1 DEF slot
        <4>5. Exact(chunk_slots', Unread', ToSet(Remaining), Append(yielded, y))
          BY <1>0, <1>1, <2>4, <3>8, <3>9, <4>2, <4>3, <4>4, YieldExact
        <4>. QED  BY <4>5, <2>2, <3>2
      <3>. QED  BY <1>0, <1>2, <2>2, <2>3, <3>1, <3>8, <3>10, <3>11, <3>12, InvStep
    <2>. QED  BY <2>5, <2>6
  <1>. QED  BY <1>3, <1>4

\* Data that does not decompress leaves a free slot free.
LEMMA CompressionInv ==
    ASSUME ReaderInv, NEW c \in DOMAIN file.chunks, BadCompression(c), UNCHANGED <<file, opts, yielded>>
    PROVE  ReaderInv'
  <1>. DEFINE s == FindOrMakeChunkSlot
              slots == Prepared(c, <<>>)
  <1>0. /\ file \in Files /\ opts \in Options /\ StateOK /\ ChunksOK /\ SlotsOK(chunk_slots)
        /\ IndexesOK(chunk_slots, message_indexes) /\ IsSeq(yielded)
        /\ cur_message_index \in 0..Len(message_indexes)
    BY InvFacts
  <1>1. /\ chunk_slots' = slots /\ event'.kind # "None" /\ chunk_indexes' = chunk_indexes
        /\ cur_chunk_index' = cur_chunk_index /\ message_indexes' = message_indexes
        /\ cur_message_index' = cur_message_index /\ spoiled' = spoiled
        /\ file' = file /\ opts' = opts /\ yielded' = yielded
    BY DEF BadCompression
  <1>2. /\ SlotsOK(slots) /\ SameExcept(chunk_slots, slots, s)
        /\ slots[s] = [data_start |-> c, buf |-> <<>>, message_count |-> 0]
    BY <1>0, PreparedFacts
  <1>. HIDE DEF s, slots
  <1>3. ChunksOK' /\ ToSet(Remaining)' = ToSet(Remaining)
    BY <1>0, <1>1, ChunksKept
  <1>4. Unread' = Unread
    BY <1>1 DEF Unread
  <1>5. IndexesOK(slots, message_indexes)
    BY <1>0, <1>2, IndexesGrow DEF SlotsOK, SameExcept
  <1>6. ASSUME ~spoiled PROVE Exact(slots, Unread, ToSet(Remaining), yielded)
    <2>1. Exact(chunk_slots, Unread, ToSet(Remaining), yielded)
      BY <1>6, InvFacts
    <2>2. \A x \in ToSet(Unread) : x.slot \in 1..Len(chunk_slots) /\ x.slot # s
      BY <1>0, <2>1, SlotIsFree DEF s
    <2>3. IsSeq(Unread)
      BY <1>0, UnreadFacts DEF IndexesOK
    <2>4. slots[s].message_count = 0
      BY <1>2
    <2>. QED  BY <1>2, <2>1, <2>2, <2>3, <2>4, PrepareExact
  <1>7. ~spoiled' => Exact(chunk_slots', Unread', ToSet(Remaining)', yielded')
    BY <1>1, <1>3, <1>4, <1>6
  <1>. QED  BY <1>0, <1>1, <1>2, <1>3, <1>5, <1>7, InvStep

\* The indexes of a chunk, as indexes into the slots that hold it.
LEMMA NewIndexesOK ==
    ASSUME NEW slots, SlotsOK(slots), NEW s \in 1..Len(slots), NEW buf, IsChunk(buf)
    PROVE  IndexesOK(slots, NewIndexes(s, buf))
  <1>. DEFINE new == NewIndexes(s, buf)
  <1>1. IsSeq(new) /\ ToSet(new) = {IndexAt(s, buf, k) : k \in Matching(buf)}
    BY NewFacts
  <1>2. Len(buf) \in Nat /\ DOMAIN buf = 1..Len(buf)
    BY IsSeqFacts DEF IsChunk
  <1>. HIDE DEF new
  <1>3. ASSUME NEW k \in Matching(buf) PROVE IsIndex(slots, IndexAt(s, buf, k))
    <2>1. k \in 1..Len(buf) /\ k \in Nat /\ buf[k].log_time \in Nat
      BY <1>2 DEF Matching, Matches, IsChunk
    <2>. QED  BY <2>1 DEF IsIndex, IndexAt
  <1>4. \A i \in 1..Len(new) : IsIndex(slots, new[i])
    BY <1>1, <1>3, IsSeqFacts
  <1>. QED  BY <1>1, <1>4 DEF IndexesOK, new

\* Data whose records end in the middle leaves the indexes of the records
\* before behind, unless there are none.
LEMMA RecordsInv ==
    ASSUME ReaderInv, NEW c \in DOMAIN file.chunks, NEW readable \in 0..(Len(file.chunks[c]) - 1),
           BadRecords(c, readable), UNCHANGED <<file, opts, yielded>>
    PROVE  ReaderInv'
  <1>. DEFINE s == FindOrMakeChunkSlot
              chunk == file.chunks[c]
              buf == SubSeq(chunk, 1, readable)
              slots == Prepared(c, buf)
              new == NewIndexes(s, buf)
  <1>0. /\ file \in Files /\ opts \in Options /\ StateOK /\ ChunksOK /\ SlotsOK(chunk_slots)
        /\ IsSeq(yielded)
    BY InvFacts
  <1>1. /\ chunk_slots' = slots /\ event'.kind # "None" /\ chunk_indexes' = chunk_indexes
        /\ cur_chunk_index' = cur_chunk_index /\ message_indexes' = Kept \o new
        /\ cur_message_index' = KeptFrom /\ spoiled' = (spoiled \/ new # <<>>)
        /\ file' = file /\ opts' = opts /\ yielded' = yielded
    BY DEF BadRecords
  <1>2. /\ SlotsOK(slots) /\ SameExcept(chunk_slots, slots, s)
        /\ slots[s] = [data_start |-> c, buf |-> buf, message_count |-> 0]
    BY <1>0, PreparedFacts
  <1>3. IsChunk(buf)
    <2>0. IsChunk(chunk)
      BY <1>0, FileFacts
    <2>. HIDE DEF chunk
    <2>a. Len(chunk) \in Nat
      BY <2>0, IsSeqFacts DEF IsChunk
    <2>1. IsChunk(chunk) /\ Len(chunk) \in Nat /\ readable \in Nat /\ readable <= Len(chunk)
      BY <2>0, <2>a DEF chunk
    <2>2. /\ IsSeq(buf) /\ Len(buf) = readable - 1 + 1
          /\ \A i \in 1..(readable - 1 + 1) : buf[i] = chunk[1 + i - 1]
      BY <2>1, SubSeqFacts DEF IsChunk
    <2>3. \A i \in 1..Len(buf) : buf[i] = chunk[i] /\ i \in 1..Len(chunk)
      BY <2>1, <2>2
    <2>4. Len(buf) <= MaxUsize
      BY <2>1, <2>2, ReaderAssumption DEF IsChunk
    <2>. QED  BY <2>1, <2>2, <2>3, <2>4 DEF IsChunk
  <1>. HIDE DEF s, slots, buf
  <1>4. IndexesOK(slots, new)
    BY <1>2, <1>3, NewIndexesOK DEF SameExcept
  <1>. HIDE DEF new
  <1>5. /\ IndexesOK(slots, Kept) /\ KeptFrom \in 0..Len(Kept) /\ Suffix(Kept, KeptFrom) = Unread
        /\ IsSeq(Kept) /\ IsSeq(new) /\ Len(Kept) \in Nat /\ Len(new) \in Nat
    <2>1. IndexesOK(chunk_slots, Kept) /\ KeptFrom \in 0..Len(Kept) /\ Suffix(Kept, KeptFrom) = Unread
      BY <1>0, KeptFacts
    <2>2. IndexesOK(slots, Kept)
      BY <1>0, <1>2, <2>1, IndexesGrow DEF SlotsOK, SameExcept
    <2>. QED  BY <2>1, <2>2, <1>4, IsSeqFacts DEF IndexesOK
  <1>6. IndexesOK(slots, Kept \o new) /\ KeptFrom \in 0..Len(Kept \o new)
    <2>1. /\ IsSeq(Kept \o new) /\ Len(Kept \o new) = Len(Kept) + Len(new)
          /\ \A i \in 1..(Len(Kept) + Len(new)) :
               (Kept \o new)[i] = IF i <= Len(Kept) THEN Kept[i] ELSE new[i - Len(Kept)]
      BY <1>5, ConcatFacts
    <2>2. ASSUME NEW i \in 1..(Len(Kept) + Len(new)) PROVE IsIndex(slots, (Kept \o new)[i])
      <3>1. CASE i <= Len(Kept)
        BY <3>1, <2>1, <1>5 DEF IndexesOK
      <3>2. CASE ~(i <= Len(Kept))
        <4>1. i - Len(Kept) \in 1..Len(new)
          BY <3>2, <1>5
        <4>. QED  BY <4>1, <3>2, <2>1, <1>4 DEF IndexesOK
      <3>. QED  BY <3>1, <3>2
    <2>. QED  BY <2>1, <2>2, <1>5 DEF IndexesOK
  <1>7. ChunksOK' /\ ToSet(Remaining)' = ToSet(Remaining)
    BY <1>0, <1>1, ChunksKept
  <1>8. ASSUME ~spoiled' PROVE Exact(chunk_slots', Unread', ToSet(Remaining)', yielded')
    <2>0. ~spoiled /\ new = <<>>
      BY <1>1, <1>8
    <2>1. Exact(chunk_slots, Unread, ToSet(Remaining), yielded)
      BY <2>0, InvFacts
    <2>2. Kept \o new = Kept
      BY <2>0, <1>5, ConcatEmpty
    <2>3. Unread' = Unread
      BY <2>2, <1>1, <1>5 DEF Unread, Suffix
    <2>4. \A x \in ToSet(Unread) : x.slot \in 1..Len(chunk_slots) /\ x.slot # s
      BY <1>0, <2>1, SlotIsFree DEF s
    <2>5. IsSeq(Unread)
      BY <1>0, UnreadFacts DEF IndexesOK
    <2>6. slots[s].message_count = 0
      BY <1>2
    <2>7. Exact(slots, Unread, ToSet(Remaining), yielded)
      BY <1>2, <2>1, <2>4, <2>5, <2>6, PrepareExact
    <2>. QED  BY <2>3, <2>7, <1>1, <1>7
  <1>. QED  BY <1>0, <1>1, <1>2, <1>6, <1>7, <1>8, InvStep

\* Whether the read part is dropped or not, what is unread is the same.
LEMMA CompactFacts ==
    ASSUME NEW l, IsSeq(l), NEW cur \in 0..Len(l), NEW count
    PROVE  LET done == Compact(l, cur, count) IN
           /\ IsSeq(done.indexes) /\ done.cur \in 0..Len(done.indexes)
           /\ Suffix(done.indexes, done.cur) = Suffix(l, cur)
           /\ \A k \in 1..Len(done.indexes) : \E j \in 1..Len(l) : done.indexes[k] = l[j]
  <1>. DEFINE done == Compact(l, cur, count)
              t == Suffix(l, cur)
  <1>0. Len(l) \in Nat /\ cur \in Nat
    BY IsSeqFacts
  <1>1. /\ IsSeq(t) /\ Len(t) = Len(l) - cur
        /\ \A i \in 1..(Len(l) - cur) : t[i] = l[cur + i]
    BY SuffixFacts
  <1>. HIDE DEF t
  <1>2. CASE count < cur
    <2>1. done.indexes = t /\ done.cur = 0
      BY <1>2 DEF Compact, t, Suffix
    <2>. HIDE DEF done
    <2>2. Len(t) \in Nat /\ 0 \in 0..Len(t)
      BY <1>0, <1>1
    <2>3. Suffix(t, 0) = t
      <3>. DEFINE v == Suffix(t, 0)
      <3>1. IsSeq(v) /\ Len(v) = Len(t) - 0 /\ \A i \in 1..(Len(t) - 0) : v[i] = t[0 + i]
        BY <1>1, <2>2, SuffixFacts
      <3>. HIDE DEF v
      <3>2. Len(v) = Len(t) /\ \A i \in 1..Len(v) : v[i] = t[i]
        BY <3>1, <2>2
      <3>3. v = t
        BY <3>1, <3>2, <1>1, SeqExtensional
      <3>. QED  BY <3>3 DEF v
    <2>4. ASSUME NEW k \in 1..Len(t) PROVE \E j \in 1..Len(l) : t[k] = l[j]
      <3>1. cur + k \in 1..Len(l)
        BY <1>0, <1>1
      <3>. QED  BY <3>1, <1>1
    <2>. QED  BY <1>1, <2>1, <2>2, <2>3, <2>4 DEF done, t
  <1>3. CASE ~(count < cur)
    <2>1. done.indexes = l /\ done.cur = cur
      BY <1>3 DEF Compact
    <2>. HIDE DEF done
    <2>. QED  BY <2>1, <1>0 DEF done, t
  <1>. QED  BY <1>2, <1>3

\* The comparison of indexes looks at where the chunks in the slots start.
LEMMA BeforeSame ==
    ASSUME NEW slots, NEW slots2, NEW x, NEW y,
           slots2[x.slot].data_start = slots[x.slot].data_start,
           slots2[y.slot].data_start = slots[y.slot].data_start
    PROVE  IndexBefore(slots2, x, y) <=> IndexBefore(slots, x, y)
  BY DEF IndexBefore, Lexicographic

\* A chunk is loaded.
LEMMA LoadInv ==
    ASSUME ReaderInv, NEW c \in ToSet(Remaining), LoadChunk(c), UNCHANGED <<file, opts, yielded>>
    PROVE  ReaderInv'
  <1>. DEFINE s == FindOrMakeChunkSlot
              chunk == file.chunks[c]
              slots == Prepared(c, chunk)
              new == NewIndexes(s, chunk)
              slots2 == [slots EXCEPT ![s].message_count = Len(new)]
              l == Indexed(slots, Kept, KeptFrom, new)
              w == Suffix(l, KeptFrom)
              done == Compact(l, KeptFrom, Len(new))
              rem == ToSet(Remaining)
  <1>0. /\ file \in Files /\ opts \in Options /\ StateOK /\ ChunksOK /\ SlotsOK(chunk_slots)
        /\ IsSeq(yielded)
    BY InvFacts
  <1>1. /\ chunk_slots' = slots2 /\ message_indexes' = done.indexes /\ cur_message_index' = done.cur
        /\ RemoveChunkIndex(c) /\ event'.kind # "None" /\ spoiled' = spoiled
        /\ file' = file /\ opts' = opts /\ yielded' = yielded
    BY DEF LoadChunk
  <1>2. /\ rem \subseteq Selected /\ c \in DOMAIN file.chunks /\ IsChunk(chunk)
        /\ ChunksOK' /\ ToSet(Remaining)' = rem \ {c}
    <2>1. rem \subseteq Selected /\ ChunksOK' /\ ToSet(Remaining)' = rem \ {c}
      BY <1>0, <1>1, RemainingFacts, RemoveFacts
    <2>2. c \in DOMAIN file.chunks
      BY <2>1 DEF Selected
    <2>. QED  BY <2>1, <2>2, <1>0, FileFacts
  <1>3. /\ SlotsOK(slots) /\ SameExcept(chunk_slots, slots, s) /\ s \in 1..Len(slots)
        /\ slots[s] = [data_start |-> c, buf |-> chunk, message_count |-> 0]
    BY <1>0, <1>2, PreparedFacts DEF SameExcept
  <1>4. /\ IsSeq(new) /\ Len(new) \in 0..MaxUsize /\ Distinct(new)
        /\ ToSet(new) = {IndexAt(s, chunk, k) : k \in Matching(chunk)}
        /\ \A i, j \in 1..Len(new) : i < j => new[i].offset < new[j].offset
    <2>1. /\ IsSeq(new) /\ Len(new) <= Len(chunk) /\ Distinct(new)
          /\ ToSet(new) = {IndexAt(s, chunk, k) : k \in Matching(chunk)}
          /\ \A i, j \in 1..Len(new) : i < j => new[i].offset < new[j].offset
      BY <1>2, NewFacts DEF Distinct
    <2>2. Len(new) \in Nat /\ Len(chunk) \in Nat /\ Len(chunk) <= MaxUsize
      BY <1>2, <2>1, IsSeqFacts DEF IsChunk
    <2>3. Len(new) \in 0..MaxUsize
      BY <2>1, <2>2, ReaderAssumption
    <2>. QED  BY <2>1, <2>3
  <1>. HIDE DEF s, slots
  <1>5. IndexesOK(slots, new)
    BY <1>2, <1>3, NewIndexesOK
  <1>6. \A x \in ToSet(new) : x.slot = s
    BY <1>4 DEF IndexAt
  <1>. HIDE DEF new
  <1>7. /\ SlotsOK(slots2) /\ Len(slots2) = Len(slots) /\ SameExcept(chunk_slots, slots2, s)
        /\ slots2[s].data_start = c /\ slots2[s].buf = chunk /\ slots2[s].message_count = Len(new)
        /\ \A k \in 1..Len(slots) : slots2[k].data_start = slots[k].data_start
    <2>. DEFINE t == slots2
    <2>0. IsSeq(slots) /\ Len(slots) \in Nat /\ DOMAIN slots = 1..Len(slots)
      BY <1>3, IsSeqFacts DEF SlotsOK
    <2>1. /\ DOMAIN t = 1..Len(slots) /\ t = [i \in 1..Len(slots) |-> t[i]]
          /\ \A i \in 1..Len(slots) : i # s => t[i] = slots[i]
          /\ t[s] = [slots[s] EXCEPT !.message_count = Len(new)]
      BY <2>0, <1>3
    <2>. HIDE DEF t
    <2>2. t[s] = [data_start |-> c, buf |-> chunk, message_count |-> Len(new)]
      BY <2>1, <1>3
    <2>3. IsSeq(t) /\ Len(t) = Len(slots)
      BY <2>0, <2>1, FunctionIsSeq
    <2>. HIDE DEF chunk
    <2>4. IsSlot(t[s])
      BY <2>2, <1>2, <1>4 DEF IsSlot
    <2>5. SlotsOK(t)
      BY <2>1, <2>3, <2>4, <1>3 DEF SlotsOK
    <2>6. SameExcept(chunk_slots, t, s)
      BY <2>1, <2>3, <1>3 DEF SameExcept
    <2>7. t[s].data_start = c /\ t[s].buf = chunk /\ t[s].message_count = Len(new) /\ slots[s].data_start = c
      BY <2>2, <1>3
    <2>8. \A k \in 1..Len(slots) : t[k].data_start = slots[k].data_start
      BY <2>1, <2>7
    <2>. QED  BY <2>3, <2>5, <2>6, <2>7, <2>8 DEF t
  <1>. HIDE DEF slots2
  <1>8. /\ IndexesOK(slots, Kept) /\ KeptFrom \in 0..Len(Kept) /\ Suffix(Kept, KeptFrom) = Unread
        /\ Len(Kept) \in Nat /\ IsSeq(Unread)
    <2>1. IndexesOK(chunk_slots, Kept) /\ KeptFrom \in 0..Len(Kept) /\ Suffix(Kept, KeptFrom) = Unread
      BY <1>0, KeptFacts
    <2>2. IndexesOK(slots, Kept)
      BY <1>0, <1>3, <2>1, IndexesGrow DEF SlotsOK, SameExcept
    <2>. QED  BY <2>1, <2>2, <1>0, UnreadFacts, IsSeqFacts DEF IndexesOK
  <1>9. /\ IndexesOK(slots, l) /\ Len(l) = Len(Kept) + Len(new)
        /\ ToSet(w) = ToSet(Unread) \cup ToSet(new)
        /\ Distinct(Unread) /\ Distinct(new) /\ ToSet(Unread) \cap ToSet(new) = {} => Distinct(w)
        /\ IF SortingRequired(Kept, new)
           THEN \A i, j \in 1..Len(w) : i < j => ~IndexBefore(slots, w[j], w[i])
           ELSE w = Pushed(new)
    <2>1. file \in Files /\ opts \in Options /\ SlotsOK(slots)
      BY <1>0, <1>3
    <2>2. IndexesOK(slots, Kept) /\ IndexesOK(slots, new) /\ KeptFrom \in 0..Len(Kept)
      BY <1>5, <1>8
    <2>3. Suffix(Kept, KeptFrom) = Unread
      BY <1>8
    <2>4. /\ IndexesOK(slots, l) /\ Len(l) = Len(Kept) + Len(new)
          /\ ToSet(w) = ToSet(Suffix(Kept, KeptFrom)) \cup ToSet(new)
          /\ Distinct(Suffix(Kept, KeptFrom)) /\ Distinct(new) /\ ToSet(Suffix(Kept, KeptFrom)) \cap ToSet(new) = {}
               => Distinct(w)
          /\ IF SortingRequired(Kept, new)
             THEN \A i, j \in 1..Len(w) : i < j => ~IndexBefore(slots, w[j], w[i])
             ELSE w = Pushed(new)
      BY ONLY <2>1, <2>2, IndexedFacts
    <2>. QED  BY ONLY <2>3, <2>4
  <1>. HIDE DEF l, w
  <1>10. IsSeq(l) /\ KeptFrom \in 0..Len(l)
    BY <1>4, <1>8, <1>9 DEF IndexesOK
  <1>11. /\ IsSeq(done.indexes) /\ done.cur \in 0..Len(done.indexes)
         /\ Suffix(done.indexes, done.cur) = w
         /\ \A k \in 1..Len(done.indexes) : \E j \in 1..Len(l) : done.indexes[k] = l[j]
    BY <1>10, CompactFacts DEF w
  <1>. HIDE DEF done
  <1>12. IndexesOK(slots2, l)
    BY <1>3, <1>7, <1>9, IndexesGrow DEF SlotsOK
  <1>13. IndexesOK(slots2, done.indexes)
    BY <1>11, <1>12 DEF IndexesOK
  <1>14. Unread' = w
    BY <1>1, <1>11 DEF Unread, Suffix
  <1>15. IsSeq(w) /\ IndexesOK(slots2, w) /\ IndexesOK(slots, w)
    <2>0. Len(l) \in Nat /\ KeptFrom \in Nat
      BY <1>10, IsSeqFacts
    <2>1. IsSeq(w) /\ Len(w) = Len(l) - KeptFrom /\ \A i \in 1..(Len(l) - KeptFrom) : w[i] = l[KeptFrom + i]
      BY <1>10, SuffixFacts DEF w
    <2>2. \A i \in 1..Len(w) : KeptFrom + i \in 1..Len(l)
      BY <2>0, <2>1, <1>10
    <2>. QED  BY <2>1, <2>2, <1>9, <1>12 DEF IndexesOK
  <1>16. ASSUME ~spoiled PROVE Exact(slots2, w, rem \ {c}, yielded)
    <2>1. Exact(chunk_slots, Unread, rem, yielded)
      BY <1>16, InvFacts
    <2>2. \A x \in ToSet(Unread) : x.slot \in 1..Len(chunk_slots) /\ x.slot # s
      BY <1>0, <2>1, SlotIsFree DEF s
    <2>3. Loads(chunk_slots, slots2, s, Unread, rem, c)
      BY <1>2, <1>7, <2>2 DEF Loads, new
    <2>4. ToSet(w) = ToSet(Unread) \cup ToSet(New(s, c))
      BY <1>9 DEF New, new
    <2>5. Distinct(w)
      <3>1. ToSet(Unread) \cap ToSet(new) = {}
        BY <2>2, <1>6
      <3>2. Distinct(Unread)
        BY <2>1 DEF Exact, Counted, Distinct
      <3>. QED  BY <3>1, <3>2, <1>4, <1>9
    <2>6. Leading(slots2, w, rem \ {c})
      BY <1>0, <2>1, <2>3, <2>4, LoadLeading DEF Exact
    <2>7. MessagesDistinct(slots2, w)
      <3>1. Complete(slots2, w, rem \ {c}, yielded)
        BY <1>0, <2>1, <2>3, <2>4, LoadComplete DEF Exact
      <3>. QED  BY <3>1 DEF Complete, MessagesDistinct
    <2>8. UnreadInOrder(slots2, w)
      <3>1. CASE SortingRequired(Kept, new)
        <4>1. ASSUME NEW i \in 1..Len(w), NEW j \in 1..Len(w), i < j
              PROVE  ~IndexBefore(slots2, w[j], w[i])
          <5>1. w[i].slot \in 1..Len(slots) /\ w[j].slot \in 1..Len(slots)
            BY <1>15 DEF IndexesOK, IsIndex
          <5>2. ~IndexBefore(slots, w[j], w[i])
            BY <3>1, <4>1, <1>9
          <5>. QED  BY <5>1, <5>2, <1>7, BeforeSame
        <4>. QED  BY <4>1, <1>0, <1>7, <1>15, <2>5, <2>6, <2>7, SortedInOrder
      <3>2. CASE ~SortingRequired(Kept, new)
        <4>1. w = Pushed(new)
          BY <3>2, <1>9
        <4>2. IndexesOK(slots2, new)
          BY <1>3, <1>5, <1>7, IndexesGrow DEF SlotsOK
        <4>3. ToSet(Pushed(new)) = ToSet(new)
          BY <4>2, PushedFacts
        <4>4. Leading(slots2, new, rem \ {c})
          BY <4>1, <4>3, <2>6 DEF Leading
        <4>5. opts.order = "File" \/ ~OutOfOrder(new)
          BY <3>2 DEF SortingRequired
        <4>. QED  BY <4>1, <4>2, <4>4, <4>5, <1>0, <1>4, <1>6, <1>7, PushedInOrder
      <3>. QED  BY <3>1, <3>2
    <2>. QED  BY <1>0, <1>15, <2>1, <2>3, <2>4, <2>5, <2>8, LoadExact
  <1>17. ~spoiled' => Exact(chunk_slots', Unread', ToSet(Remaining)', yielded')
    BY <1>1, <1>2, <1>14, <1>16
  <1>. QED  BY <1>0, <1>1, <1>2, <1>7, <1>11, <1>13, <1>17, InvStep

\* insert_chunk_record_data.
LEMMA InsertInv ==
    ASSUME ReaderInv, NEW c \in DOMAIN file.chunks, NEW defect,
           NEW readable \in 0..(Len(file.chunks[c]) - 1), InsertChunkRecordData(c, defect, readable)
    PROVE  ReaderInv'
  <1>0. UNCHANGED <<file, opts, yielded>>
    BY DEF InsertChunkRecordData
  <1>1. StillNeeded(c) => c \in ToSet(Remaining)
    BY DEF StillNeeded, Range, ToSet
  <1>2. CASE RefuseChunk
    <2>1. UNCHANGED <<file, opts, reader, yielded, spoiled>> /\ event'.kind # "None"
      BY <1>0, <1>2 DEF RefuseChunk
    <2>. QED  BY <2>1, QuietInv
  <1>3. CASE BadCompression(c)
    BY <1>0, <1>3, CompressionInv
  <1>4. CASE BadRecords(c, readable)
    BY <1>0, <1>4, RecordsInv
  <1>5. CASE StillNeeded(c) /\ LoadChunk(c)
    BY <1>0, <1>1, <1>5, LoadInv
  <1>. QED  BY <1>2, <1>3, <1>4, <1>5 DEF InsertChunkRecordData

\* Every step keeps the invariant.
LEMMA NextInv ==
    ASSUME ReaderInv, [Next]_vars
    PROVE  ReaderInv'
  <1>1. CASE ReadChunkRequest
    BY <1>1, RequestInv
  <1>2. CASE YieldMessage
    BY <1>2, YieldInv
  <1>3. CASE Done
    BY <1>3, DoneInv
  <1>4. CASE InsertSome
    <2>1. PICK c \in DOMAIN file.chunks, defect \in Defects :
            \E readable \in 0..(Len(file.chunks[c]) - 1) : InsertChunkRecordData(c, defect, readable)
      BY <1>4 DEF InsertSome
    <2>. QED  BY <2>1, InsertInv
  <1>5. CASE UNCHANGED vars
    <2>1. UNCHANGED <<file, opts, reader, yielded, spoiled>> /\ event' = event
      BY <1>5 DEF vars
    <2>2. ~spoiled /\ event'.kind = "None" => ToSet(yielded) = MessagesOf(Selected)
      BY <2>1 DEF ReaderInv
    <2>. QED  BY <2>1, <2>2, QuietInv
  <1>. QED  BY <1>1, <1>2, <1>3, <1>4, <1>5 DEF Next, NextEvent

\* Throughout, what was yielded, what is unread and what is not loaded make up
\* the messages asked for, in order; and the slots count what is unread.
THEOREM ReaderInvariant == Spec => []ReaderInv
  <1>1. Init => ReaderInv
    BY InitInv
  <1>2. ReaderInv /\ [Next]_vars => ReaderInv'
    BY NextInv
  <1>. QED  BY <1>1, <1>2, PTL DEF Spec

-------------------------------------------------------------------------------
(* What the invariant says of the reader.                                  *)

\* The indexes that lead into a slot are as many as their places.
LEMMA PlacesCounted ==
    ASSUME NEW u, IsSeq(u), Distinct(u), NEW s
    PROVE  Cardinality({k \in DOMAIN u : u[k].slot = s}) = Cardinality({x \in ToSet(u) : x.slot = s})
  <1>. DEFINE P == {k \in DOMAIN u : u[k].slot = s}
              A == {x \in ToSet(u) : x.slot = s}
              f == [k \in P |-> u[k]]
  <1>0. DOMAIN u = 1..Len(u) /\ Len(u) \in Nat /\ ToSet(u) = {u[k] : k \in DOMAIN u}
    BY IsSeqFacts DEF ToSet
  <1>1. f \in Bijection(P, A)
    <2>1. f \in [P -> A]
      BY <1>0
    <2>2. \A a, b \in P : f[a] = f[b] => a = b
      BY <1>0 DEF Distinct
    <2>3. \A y \in A : \E k \in P : f[k] = y
      BY <1>0
    <2>. HIDE DEF P, A, f
    <2>. QED  BY <2>1, <2>2, <2>3 DEF Bijection, Injection, Surjection, IsInjective
  <1>2. IsFiniteSet(P)
    <2>1. IsFiniteSet(DOMAIN u)
      BY FinitePlaces
    <2>. QED  BY <2>1, FS_Subset
  <1>. HIDE DEF P, A, f
  <1>3. Cardinality(P) = Cardinality(A)
    BY <1>1, <1>2, FS_Bijection DEF ExistsBijection
  <1>. QED  BY <1>3 DEF P, A

\* The filter on records lets the messages asked for pass, and no others.
LEMMA AskedMatches ==
    ASSUME NEW rec, ~MatchesNoTopic
    PROVE  Asked(rec) <=> Matches(rec)
  <1>. DEFINE T == opts.include_topics
              ids == ChannelIds(opts)
  <1>1. CASE T = NoFilter
    <2>1. ids = {}
      BY <1>1 DEF ChannelIds
    <2>. QED  BY <1>1, <2>1 DEF Asked, Matches
  <1>2. CASE T # NoFilter
    <2>1. ids = {c \in DOMAIN TopicOf : TopicOf[c] \in T}
      BY <1>2 DEF ChannelIds
    <2>. HIDE DEF ids
    <2>2. (ids # {} => rec.channel \in ids) <=>
            rec.channel \in DOMAIN TopicOf /\ TopicOf[rec.channel] \in T
      BY <1>2, <2>1 DEF MatchesNoTopic, ids
    <2>. QED  BY <1>2, <2>2 DEF Asked, Matches, ids
  <1>. QED  BY <1>1, <1>2

\* The filter on chunks drops no chunk that holds a message asked for.
LEMMA MatchingSelected ==
    ASSUME file \in Files, opts \in Options, NEW c \in DOMAIN file.chunks,
           NEW k \in Matching(file.chunks[c])
    PROVE  c \in Selected
  <1>. DEFINE chunk == file.chunks[c]
              rec == chunk[k]
  <1>0. IsChunk(chunk)
    BY FileFacts
  <1>1. k \in Messages(chunk) /\ rec.log_time < opts.end /\ rec.log_time >= opts.start
    BY DEF Matching, Matches, Messages
  <1>2. /\ MinTime(chunk) \in Nat /\ MaxTime(chunk) \in Nat /\ rec.log_time \in Nat
        /\ MinTime(chunk) <= rec.log_time /\ rec.log_time <= MaxTime(chunk)
    BY <1>0, <1>1, TimeFacts
  <1>3. opts.start \in Nat /\ opts.end \in Nat
    BY OptionFacts
  <1>4. MaxTime(chunk) >= opts.start /\ MinTime(chunk) < opts.end
    BY <1>1, <1>2, <1>3
  <1>5. \/ ChannelIds(opts) = {}
        \/ IndexedChannels(file, c) = {}
        \/ IndexedChannels(file, c) \cap ChannelIds(opts) # {}
    <2>. SUFFICES ASSUME ChannelIds(opts) # {}, file.message_indexes
                  PROVE  rec.channel \in IndexedChannels(file, c) \cap ChannelIds(opts)
      BY DEF IndexedChannels
    <2>1. rec.channel \in ChannelIds(opts)
      BY DEF Matching, Matches
    <2>2. rec.channel \in IndexedChannels(file, c)
      BY <1>1 DEF IndexedChannels
    <2>. QED  BY <2>1, <2>2
  <1>. QED  BY <1>4, <1>5 DEF Selected, ChunkSelected

\* The messages asked for are those of the selected chunks.
LEMMA WantedFacts ==
    ASSUME file \in Files, opts \in Options, ~MatchesNoTopic
    PROVE  Wanted = MessagesOf(Selected)
  <1>1. ASSUME NEW m \in Wanted PROVE m \in MessagesOf(Selected)
    <2>1. PICK c \in DOMAIN file.chunks :
            m \in {[chunk |-> c, at |-> k] : k \in {j \in DOMAIN file.chunks[c] : Asked(file.chunks[c][j])}}
      BY DEF Wanted
    <2>2. PICK k \in DOMAIN file.chunks[c] : Asked(file.chunks[c][k]) /\ m = [chunk |-> c, at |-> k]
      BY <2>1
    <2>3. k \in Matching(file.chunks[c]) /\ Matches(file.chunks[c][k])
      BY <2>2, AskedMatches DEF Matching
    <2>4. c \in Selected
      BY <2>3, MatchingSelected
    <2>5. k \in Nat
      <3>1. IsChunk(file.chunks[c])
        BY FileFacts
      <3>. QED  BY <3>1, IsSeqFacts DEF IsChunk
    <2>. QED  BY <2>2, <2>3, <2>4, <2>5 DEF MessagesOf
  <1>2. ASSUME NEW m \in MessagesOf(Selected) PROVE m \in Wanted
    <2>1. m = [chunk |-> m.chunk, at |-> m.at] /\ m.chunk \in Selected /\ m.at \in DOMAIN file.chunks[m.chunk]
          /\ Matches(file.chunks[m.chunk][m.at])
      BY DEF MessagesOf
    <2>2. m.chunk \in DOMAIN file.chunks /\ Asked(file.chunks[m.chunk][m.at])
      BY <2>1, AskedMatches DEF Selected
    <2>. DEFINE c == m.chunk
                a == m.at
    <2>. HIDE DEF c, a
    <2>3. [chunk |-> c, at |-> a] \in Wanted
      <3>1. c \in DOMAIN file.chunks /\ a \in DOMAIN file.chunks[c] /\ Asked(file.chunks[c][a])
        BY <2>1, <2>2 DEF c, a
      <3>2. [chunk |-> c, at |-> a] \in
              {[chunk |-> c, at |-> k] : k \in {j \in DOMAIN file.chunks[c] : Asked(file.chunks[c][j])}}
        BY <3>1
      <3>. QED  BY <3>1, <3>2 DEF Wanted
    <2>. QED  BY <2>1, <2>3 DEF c, a
  <1>. QED  BY <1>1, <1>2

\* Cursors and slots.
LEMMA InvSlots ==
    ASSUME ReaderInv
    PROVE  SlotsConsistent
  <1>0. /\ StateOK /\ ChunksOK /\ SlotsOK(chunk_slots) /\ IndexesOK(chunk_slots, message_indexes)
        /\ file \in Files /\ cur_message_index \in 0..Len(message_indexes)
    BY InvFacts
  <1>1. /\ DOMAIN chunk_slots = 1..Len(chunk_slots) /\ DOMAIN message_indexes = 1..Len(message_indexes)
        /\ DOMAIN chunk_indexes = 1..Len(chunk_indexes)
    BY <1>0, IsSeqFacts DEF SlotsOK, IndexesOK, ChunksOK
  <1>2. TypeOK
    <2>1. \A c \in Range(chunk_indexes) : c \in DOMAIN file.chunks
      BY <1>0, <1>1 DEF Range, ChunksOK, Selected
    <2>2. \A s \in DOMAIN chunk_slots :
            /\ chunk_slots[s].data_start \in DOMAIN file.chunks
            /\ chunk_slots[s].message_count \in 0..MaxUsize
      BY <1>0, <1>1 DEF SlotsOK, IsSlot
    <2>3. \A k \in DOMAIN message_indexes : message_indexes[k].slot \in DOMAIN chunk_slots
      BY <1>0, <1>1 DEF IndexesOK, IsIndex
    <2>. QED  BY <1>0, <2>1, <2>2, <2>3 DEF TypeOK, ChunksOK
  <1>3. ASSUME ~spoiled, NEW s \in DOMAIN chunk_slots
        PROVE  chunk_slots[s].message_count = Cardinality({k \in DOMAIN Unread : Unread[k].slot = s})
    <2>1. Counted(chunk_slots, Unread)
      BY <1>3, InvFacts DEF Exact
    <2>2. IsSeq(Unread) /\ Distinct(Unread)
      BY <2>1, <1>0, UnreadFacts DEF IndexesOK, Counted, Distinct
    <2>3. chunk_slots[s].message_count = Cardinality({x \in ToSet(Unread) : x.slot = s})
      BY <2>1, <1>1 DEF Counted
    <2>. QED  BY <2>2, <2>3, PlacesCounted
  <1>4. ASSUME ~spoiled, NEW k \in DOMAIN Unread
        PROVE  LET buf == chunk_slots[Unread[k].slot].buf
               IN /\ Unread[k].offset \in Messages(buf)
                  /\ buf[Unread[k].offset].log_time = Unread[k].log_time
    <2>1. Leading(chunk_slots, Unread, ToSet(Remaining))
      BY <1>4, InvFacts DEF Exact
    <2>2. Unread[k] \in ToSet(Unread)
      BY DEF ToSet
    <2>. QED  BY <2>1, <2>2 DEF Leading, Matches, Messages
  <1>5. SlotsCountUnread
    BY <1>3, <1>4 DEF SlotsCountUnread
  <1>. QED  BY <1>2, <1>5 DEF SlotsConsistent

\* Each message once, and in order.
LEMMA InvYields ==
    ASSUME ReaderInv
    PROVE  YieldsInOrder
  <1>0. /\ file \in Files /\ opts \in Options /\ IsSeq(yielded) /\ DOMAIN yielded = 1..Len(yielded)
        /\ ~MatchesNoTopic => Wanted = MessagesOf(Selected)
        /\ Range(yielded) = ToSet(yielded)
    BY InvFacts, IsSeqFacts, WantedFacts DEF Range, ToSet
  <1>1. ASSUME ~spoiled
        PROVE  /\ IsInjective(yielded)
               /\ ~MatchesNoTopic => /\ Range(yielded) \subseteq Wanted
                                     /\ event.kind = "None" => Range(yielded) = Wanted
    <2>1. Complete(chunk_slots, Unread, ToSet(Remaining), yielded)
      BY <1>1, InvFacts DEF Exact
    <2>2. IsInjective(yielded)
      BY <1>0, <2>1 DEF Complete, IsInjective
    <2>3. MessagesOf(Selected \ ToSet(Remaining)) \subseteq MessagesOf(Selected)
      BY DEF MessagesOf
    <2>4. ToSet(yielded) \subseteq MessagesOf(Selected \ ToSet(Remaining))
      BY <2>1 DEF Complete
    <2>5. event.kind = "None" => ToSet(yielded) = MessagesOf(Selected)
      BY <1>1 DEF ReaderInv
    <2>. QED  BY <1>0, <2>2, <2>3, <2>4, <2>5
  <1>2. ASSUME ~spoiled, NEW m \in DOMAIN yielded, NEW n \in DOMAIN yielded, m < n
        PROVE  MayFollow(yielded[m], yielded[n])
    BY <1>0, <1>2, InvFacts DEF Exact, InOrder
  <1>3. InReadOrder
    BY <1>2 DEF InReadOrder
  <1>. QED  BY <1>1, <1>3 DEF YieldsInOrder, YieldsExactly

\* The lists and cursors stay well formed, and a slot counts exactly what is
\* unread in it, so that none is reused early: for any file and options, in
\* whatever order chunks are handed in, unless an insertion failed halfway.
THEOREM ReaderSlotsConsistent == Spec => []SlotsConsistent
  <1>1. ReaderInv => SlotsConsistent
    BY InvSlots
  <1>. QED  BY <1>1, ReaderInvariant, PTL

\* Exactly the messages asked for are yielded, each once and in the order asked
\* for, with messages of one log time in file order except at the edge of a
\* chunk: for any file and options (unless no channel has a topic asked for),
\* and in whatever order chunks are handed in, unless an insertion failed halfway.
THEOREM ReaderYieldsInOrder == Spec => []YieldsInOrder
  <1>1. ReaderInv => YieldsInOrder
    BY InvYields
  <1>. QED  BY <1>1, ReaderInvariant, PTL
===============================================================================
