--------------------------- MODULE WriterFileProofs ---------------------------
(***************************************************************************)
(* Theorems about what the writer leaves in the file, for every choice of  *)
(* the constants: what an id in it means, that it is declared before it is *)
(* used, that no message in it went uncounted, that a complete file is     *)
(* final, and that the attachments are counted and indexed as they are.    *)
(*                                                                         *)
(* The records put into the stream so far are one sequence: the file with  *)
(* its chunks opened, then the open chunk.  Two relations say all that the *)
(* theorems need of a helper (FinishChunk, AppendChunk, ...): it keeps the *)
(* declarations and the messages of that sequence where they are, or it    *)
(* adds one record behind them.                                            *)
(***************************************************************************)
EXTENDS WriterProofs

-------------------------------------------------------------------------------
(* The stream as one sequence of records.                                  *)

\* The records the theorems are about.
Loud(r) == r.op \in {"Schema", "Channel", "Message"}

ChunkOps == {"Schema", "Channel", "Message", "Private", "Torn"}

DataOps == ChunkOps \cup {"Header", "Metadata", "Attachment", "Chunk", "MessageIndex"}

IsChunkData(s) == IsSeq(s) /\ \A r \in ToSet(s) : r.op \in ChunkOps

Opened(r) == IF r.op = "Chunk" THEN r.recs ELSE <<r>>

\* A file that is not finished: no DataEnd, no summary, and chunks that hold
\* what a chunk may hold.
IsData(f) ==
    /\ IsSeq(f) /\ Len(f) >= 1
    /\ \A r \in ToSet(f) : r.op \in DataOps /\ (r.op = "Chunk" => IsChunkData(r.recs))

FileOK(o) ==
    /\ IsData(o.file)
    /\ IsChunkData(o.chunk.recs)
    /\ IsFiniteSet(DOMAIN o.chunk.index)
    /\ o.faults \in Nat

\* Everything put into the stream, whether or not it is finished.
Stream(o) == Flat(o.file) \o o.chunk.recs

-------------------------------------------------------------------------------
(* What the stream says of ids and messages.                               *)

\* Every declaration says what the registries say.
Faithful(s, S, K) ==
    \A r \in ToSet(s) : /\ r.op = "Schema" => Means(S, r.id, r.content)
                        /\ r.op = "Channel" => Means(K, r.id, r.content)

\* The id is declared by one of the first n records.
Declares(s, n, op, id) == \E q \in 1..n : s[q].op = op /\ s[q].id = id

DeclaredIn(s) ==
    \A p \in 1..Len(s) :
      /\ s[p].op = "Message" => Declares(s, p - 1, "Channel", s[p].channel)
      /\ s[p].op = "Channel" /\ s[p].content.schema # 0
           => Declares(s, p - 1, "Schema", s[p].content.schema)

\* Every registered id has its declaration.
AllDeclared(s, S, K) ==
    /\ \A i \in DOMAIN S.all : Declares(s, Len(s), "Schema", i)
    /\ \A i \in DOMAIN K.all : Declares(s, Len(s), "Channel", i)

\* The messages of a channel, and what the bookkeeping knows of them.
MessagesOn(s, c) == {p \in 1..Len(s) : s[p].op = "Message" /\ s[p].channel = c}

BookOK(b) ==
    /\ DOMAIN b = {"bounds", "counts"}
    /\ \A c \in DOMAIN b.counts : b.counts[c] \in Nat
    /\ \/ b.bounds = <<>>
       \/ \E lo, hi \in Nat : b.bounds = <<lo, hi>>

InBounds(b, t) == t \in Nat /\ \E lo, hi \in Nat : b = <<lo, hi>> /\ lo <= t /\ t <= hi

CountedIn(s, b) ==
    /\ \A p \in 1..Len(s) : s[p].op = "Message" => InBounds(b.bounds, s[p].time)
    /\ \A c : Cardinality(MessagesOn(s, c)) <= CountOf(b.counts, c)

-------------------------------------------------------------------------------
(* The invariant of a writer that is not finished.                         *)

Undisturbed == "interrupt" \notin Api

\* The modes in which records can still follow.
Live == {"Raw", "Chunk", "Attachment"}

\* A writer that is not finished, with registries S and K and bookkeeping b.
OpenInv(o, S, K, b) ==
    /\ BookOK(b)
    /\ FileOK(o)
    /\ Faithful(Stream(o), S, K)
    /\ CountedIn(Stream(o), b)
    /\ Undisturbed /\ o.faults = 0 => DeclaredIn(Stream(o))
    /\ Undisturbed /\ o.faults = 0 /\ o.mode \in Live => AllDeclared(Stream(o), S, K)

Unfinished == ~finished => OpenInv(out, schemas, channels, book)

-------------------------------------------------------------------------------
(* Opening the chunks of a file that grows.                                *)

Whole(f) == IsSeq(f) /\ \A r \in ToSet(f) : IsSeq(Opened(r))

\* The parts of a file, chunk by chunk.
Parts(f) == [p \in DOMAIN f |-> IF f[p].op = "Chunk" THEN f[p].recs ELSE <<f[p]>>]

\* There is a part for each record.
LEMMA PartsFacts ==
    ASSUME NEW f, Whole(f)
    PROVE  /\ IsSeq(Parts(f)) /\ Len(Parts(f)) = Len(f)
           /\ \A i \in 1..Len(f) : Parts(f)[i] = Opened(f[i]) /\ IsSeq(Parts(f)[i])
           /\ Flat(f) = FlattenSeq(Parts(f))
  <1>1. Len(f) \in Nat /\ DOMAIN f = 1..Len(f) /\ \A i \in 1..Len(f) : f[i] \in ToSet(f)
    BY IsSeqFacts DEF Whole
  <1>2. \A i \in 1..Len(f) : Parts(f)[i] = Opened(f[i]) /\ IsSeq(Parts(f)[i])
    BY <1>1 DEF Parts, Whole, Opened
  <1>3. IsSeq(Parts(f)) /\ Len(Parts(f)) = Len(f)
    <2>. DEFINE g == Parts(f)
    <2>1. DOMAIN g = 1..Len(f) /\ g = [i \in 1..Len(f) |-> g[i]]
      BY <1>1 DEF Parts
    <2>. HIDE DEF g
    <2>2. IsSeq(g) /\ Len(g) = Len(f)
      BY <1>1, <2>1, FunctionIsSeq
    <2>. QED  BY <2>2 DEF g
  <1>4. Flat(f) = FlattenSeq(Parts(f))
    BY DEF Flat, Parts
  <1>. QED  BY <1>2, <1>3, <1>4

\* One more record, and what it holds at the end.
LEMMA FlatAppend ==
    ASSUME NEW f, Whole(f), NEW r, IsSeq(Opened(r))
    PROVE  /\ IsSeq(Flat(f))
           /\ Whole(Append(f, r))
           /\ Flat(Append(f, r)) = Flat(f) \o Opened(r)
  <1>. DEFINE g == Append(f, r)
  <1>0. IsSeq(f)
    BY DEF Whole
  <1>1. /\ IsSeq(g) /\ Len(g) = Len(f) + 1 /\ g[Len(f) + 1] = r
        /\ \A i \in 1..Len(f) : g[i] = f[i]
        /\ ToSet(g) = ToSet(f) \cup {r}
    BY <1>0, AppendFacts
  <1>2. Whole(g)
    BY <1>1 DEF Whole
  <1>. HIDE DEF g
  <1>3. /\ IsSeq(Parts(f)) /\ Len(Parts(f)) = Len(f)
        /\ \A i \in 1..Len(f) : Parts(f)[i] = Opened(f[i]) /\ IsSeq(Parts(f)[i])
        /\ Flat(f) = FlattenSeq(Parts(f))
    BY PartsFacts
  <1>4. /\ IsSeq(Parts(g)) /\ Len(Parts(g)) = Len(g)
        /\ \A i \in 1..Len(g) : Parts(g)[i] = Opened(g[i])
        /\ Flat(g) = FlattenSeq(Parts(g))
    BY <1>2, PartsFacts
  <1>5. Parts(g) = Append(Parts(f), Opened(r))
    <2>. DEFINE a == Append(Parts(f), Opened(r))
    <2>0. Len(f) \in Nat
      BY <1>0, IsSeqFacts
    <2>1. /\ IsSeq(a) /\ Len(a) = Len(f) + 1 /\ a[Len(f) + 1] = Opened(r)
          /\ \A i \in 1..Len(f) : a[i] = Parts(f)[i]
      BY <1>3, AppendFacts
    <2>. HIDE DEF a
    <2>2. ASSUME NEW i \in 1..(Len(f) + 1) PROVE Parts(g)[i] = a[i]
      <3>1. Parts(g)[i] = Opened(g[i])
        BY <1>1, <1>4
      <3>2. CASE i = Len(f) + 1
        BY <1>1, <2>1, <3>1, <3>2
      <3>3. CASE i # Len(f) + 1
        <4>1. i \in 1..Len(f)
          BY <2>0, <3>3
        <4>. QED  BY <1>1, <1>3, <2>1, <3>1, <4>1
      <3>. QED  BY <3>2, <3>3
    <2>3. Parts(g) = a
      BY <1>1, <1>4, <2>1, <2>2, SeqExtensional
    <2>. QED  BY <2>3 DEF a
  <1>6. FlattenSeq(Append(Parts(f), Opened(r))) = FlattenSeq(Parts(f)) \o Opened(r)
    BY <1>3, FlattenAppend
  <1>7. IsSeq(FlattenSeq(Parts(f)))
    BY <1>3, FlattenFacts
  <1>. QED  BY <1>2, <1>3, <1>4, <1>5, <1>6, <1>7 DEF g

\* Records that are not chunks are opened to themselves.
LEMMA FlatConcat ==
    ASSUME NEW f, Whole(f), NEW g, IsSeq(g), \A r \in ToSet(g) : r.op # "Chunk"
    PROVE  Flat(f \o g) = Flat(f) \o g /\ Whole(f \o g) /\ IsSeq(Flat(f))
  <1>. DEFINE n == Len(g)
              up(m) == SubSeq(g, 1, m)
              T == {m \in Nat : m <= n => /\ Whole(f \o up(m))
                                          /\ Flat(f \o up(m)) = Flat(f) \o up(m)}
  <1>0. /\ n \in Nat /\ DOMAIN g = 1..n /\ IsSeq(f)
        /\ \A i \in 1..n : g[i] \in ToSet(g)
    BY IsSeqFacts DEF Whole
  <1>f. IsSeq(Flat(f))
    <2>1. Opened([op |-> "none"]) = <<[op |-> "none"]>>
      BY DEF Opened
    <2>. QED  BY <2>1, SingletonFacts, FlatAppend
  <1>1. \A m \in 0..n : /\ IsSeq(up(m)) /\ Len(up(m)) = m
                        /\ \A i \in 1..m : up(m)[i] = g[i]
    <2>. SUFFICES ASSUME NEW m \in 0..n
                  PROVE  /\ IsSeq(up(m)) /\ Len(up(m)) = m
                         /\ \A i \in 1..m : up(m)[i] = g[i]
      OBVIOUS
    <2>1. m \in Nat /\ 1 <= m + 1 /\ m <= Len(g) /\ m - 1 + 1 = m
      BY <1>0
    <2>2. /\ IsSeq(SubSeq(g, 1, m)) /\ Len(SubSeq(g, 1, m)) = m - 1 + 1
          /\ \A i \in 1..(m - 1 + 1) : SubSeq(g, 1, m)[i] = g[1 + i - 1]
      BY <2>1, SubSeqFacts
    <2>. QED  BY <2>1, <2>2
  <1>. HIDE DEF up
  <1>2. 0 \in T
    <2>1. up(0) = <<>>
      BY <1>0, <1>1, EmptyFacts, SeqExtensional
    <2>. QED  BY <2>1, <1>0, <1>f, ConcatEmpty
  <1>3. ASSUME NEW m \in Nat, m \in T PROVE m + 1 \in T
    <2>. SUFFICES ASSUME m + 1 <= n
                  PROVE  /\ Whole(f \o up(m + 1))
                         /\ Flat(f \o up(m + 1)) = Flat(f) \o up(m + 1)
      OBVIOUS
    <2>. DEFINE r == g[m + 1]
                e == <<r>>
    <2>1. m \in 0..n /\ m + 1 \in 0..n /\ m + 1 \in 1..n /\ r \in ToSet(g)
      BY <1>0
    <2>2. Opened(r) = <<r>> /\ IsSeq(<<r>>) /\ Len(<<r>>) = 1 /\ <<r>>[1] = r
      BY <2>1, SingletonFacts DEF Opened
    <2>3. up(m + 1) = up(m) \o <<r>>
      <3>1. /\ IsSeq(up(m) \o <<r>>) /\ Len(up(m) \o <<r>>) = m + 1
            /\ \A i \in 1..(m + 1) :
                 (up(m) \o <<r>>)[i] = IF i <= m THEN up(m)[i] ELSE <<r>>[i - m]
        BY <1>1, <2>1, <2>2, ConcatFacts
      <3>2. ASSUME NEW i \in 1..(m + 1) PROVE up(m + 1)[i] = (up(m) \o <<r>>)[i]
        <4>1. CASE i <= m
          BY <1>1, <2>1, <3>1, <4>1
        <4>2. CASE i = m + 1
          <5>1. i - m = 1
            BY <4>2
          <5>. QED  BY <1>1, <2>1, <2>2, <3>1, <4>2, <5>1
        <4>3. i <= m \/ i = m + 1
          OBVIOUS
        <4>. QED  BY <4>1, <4>2, <4>3
      <3>. QED  BY <1>1, <2>1, <3>1, <3>2, SeqExtensional
    <2>. HIDE DEF r
    <2>4. Whole(f \o up(m)) /\ Flat(f \o up(m)) = Flat(f) \o up(m)
      BY <1>3, <2>1
    <2>5. f \o up(m + 1) = (f \o up(m)) \o <<r>>
      <3>1. IsSeq(f) /\ IsSeq(up(m)) /\ IsSeq(e)
        BY <1>0, <1>1, <2>1, <2>2
      <3>2. (f \o up(m)) \o <<r>> = f \o (up(m) \o <<r>>)
        <4>. DEFINE u == up(m)
                    a == f
        <4>. HIDE DEF e, u, a
        <4>1. IsSeq(a) /\ IsSeq(u) /\ IsSeq(e)
          BY <3>1 DEF u, a
        <4>2. (a \o u) \o e = a \o (u \o e)
          BY ONLY <4>1, JoinAssociative
        <4>. QED  BY <4>2 DEF e, u, a
      <3>. QED  BY <2>3, <3>2
    <2>6. (f \o up(m)) \o <<r>> = Append(f \o up(m), r)
      BY <2>4, AppendIsJoin DEF Whole
    <2>7. /\ Whole(Append(f \o up(m), r))
          /\ Flat(Append(f \o up(m), r)) = Flat(f \o up(m)) \o <<r>>
      BY <2>2, <2>4, FlatAppend
    <2>8. (Flat(f) \o up(m)) \o <<r>> = Flat(f) \o (up(m) \o <<r>>)
      <3>1. IsSeq(up(m)) /\ IsSeq(e)
        BY <1>1, <2>1, <2>2
      <3>. DEFINE u == up(m)
                  a == Flat(f)
      <3>. HIDE DEF e, u, a
      <3>2. IsSeq(a) /\ IsSeq(u) /\ IsSeq(e)
        BY <1>f, <3>1 DEF a, u
      <3>3. (a \o u) \o e = a \o (u \o e)
        BY ONLY <3>2, JoinAssociative
      <3>. QED  BY <3>3 DEF e, u, a
    <2>. QED  BY <2>3, <2>4, <2>5, <2>6, <2>7, <2>8
  <1>4. n \in T
    <2>. HIDE DEF T
    <2>. QED  BY <1>0, <1>2, <1>3, SetInduction
  <1>5. up(n) = g
    BY <1>0, <1>1, SeqExtensional
  <1>. QED  BY <1>0, <1>4, <1>5, <1>f

-------------------------------------------------------------------------------
(* What a helper does to the stream.                                       *)

\* The declarations and the messages of t were already in s, at their place.
Within(s, t) == \A q \in 1..Len(t) : Loud(t[q]) => q \in 1..Len(s) /\ t[q] = s[q]

Same(s, t) == Within(s, t) /\ Within(t, s) /\ Len(s) <= Len(t)

\* And t has one record more, behind all of s.
Grown(s, t, r) ==
    /\ Within(t, s)
    /\ Len(s) <= Len(t)
    /\ \E n \in 1..Len(t) :
         /\ n > Len(s) /\ t[n] = r
         /\ \A q \in 1..Len(t) : Loud(t[q]) /\ q # n => q \in 1..Len(s) /\ t[q] = s[q]

\* Without an I/O error nothing is lost.
Kept(o, p) ==
    /\ FileOK(p) /\ o.faults <= p.faults
    /\ Within(Stream(o), Stream(p))
    /\ p.faults = o.faults => Same(Stream(o), Stream(p))

Grew(o, p, r) == FileOK(p) /\ p.faults = o.faults /\ Grown(Stream(o), Stream(p), r)

\* A call fails because of an I/O error, or because the mode is wrong.
Excused(o, x) == x.out.faults > o.faults \/ Refusal(o) # "none"

\* An Ok call has added the record, any other has not.
Adds(o, x, r) ==
    IF x.res = "Ok" THEN Grew(o, x.out, r) ELSE Kept(o, x.out) /\ Excused(o, x)

Keeps(o, x) ==
    /\ Kept(o, x.out)
    /\ IF x.res = "Ok" THEN x.out.faults = o.faults ELSE Excused(o, x)

\* The stream of a file that is being written is a sequence.
LEMMA StreamFacts ==
    ASSUME NEW o, FileOK(o)
    PROVE  /\ Whole(o.file) /\ IsSeq(Flat(o.file)) /\ IsSeq(o.chunk.recs)
           /\ IsSeq(Stream(o)) /\ Len(Stream(o)) \in Nat
           /\ DOMAIN Stream(o) = 1..Len(Stream(o)) /\ o.faults \in Nat
  <1>1. Whole(o.file) /\ IsSeq(o.chunk.recs) /\ o.faults \in Nat
    BY SingletonFacts DEF FileOK, IsData, IsChunkData, Whole, Opened
  <1>2. IsSeq(Flat(o.file))
    <2>1. \A r \in ToSet(<<>>) : r.op # "Chunk"
      BY EmptyFacts
    <2>. QED  BY <1>1, <2>1, EmptyFacts, FlatConcat
  <1>3. IsSeq(Stream(o))
    BY <1>1, <1>2, ConcatFacts DEF Stream
  <1>. QED  BY <1>1, <1>2, <1>3, IsSeqFacts

\* Quiet records at the end.
LEMMA SameConcat ==
    ASSUME NEW s, IsSeq(s), NEW g, IsSeq(g), \A r \in ToSet(g) : ~Loud(r)
    PROVE  Same(s, s \o g)
  <1>1. /\ Len(s) \in Nat /\ Len(g) \in Nat
        /\ \A i \in 1..Len(g) : ~Loud(g[i])
    BY IsSeqFacts
  <1>2. /\ Len(s \o g) = Len(s) + Len(g)
        /\ \A i \in 1..(Len(s) + Len(g)) :
             (s \o g)[i] = IF i <= Len(s) THEN s[i] ELSE g[i - Len(s)]
    BY ConcatFacts
  <1>. DEFINE t == s \o g
  <1>. HIDE DEF t
  <1>3. \A i \in 1..Len(s) : i \in 1..Len(t) /\ t[i] = s[i]
    BY <1>1, <1>2 DEF t
  <1>4. \A i \in 1..Len(t) : i \notin 1..Len(s) => ~Loud(t[i])
    <2>. SUFFICES ASSUME NEW i \in 1..Len(t), i \notin 1..Len(s) PROVE ~Loud(t[i])
      OBVIOUS
    <2>1. i - Len(s) \in 1..Len(g) /\ i \in 1..(Len(s) + Len(g)) /\ ~(i <= Len(s))
      BY <1>1, <1>2 DEF t
    <2>2. t[i] = g[i - Len(s)]
      BY <1>2, <2>1 DEF t
    <2>. QED  BY <1>1, <2>1, <2>2
  <1>5. Within(s, t)
    BY <1>3, <1>4 DEF Within
  <1>6. Within(t, s)
    BY <1>3 DEF Within
  <1>7. Len(s) <= Len(t)
    BY <1>1, <1>2 DEF t
  <1>. QED  BY <1>5, <1>6, <1>7 DEF Same, t

\* Quiet records in place of what followed a.
LEMMA WithinPrefix ==
    ASSUME NEW a, IsSeq(a), NEW b, IsSeq(b),
           NEW g, IsSeq(g), \A r \in ToSet(g) : ~Loud(r)
    PROVE  Within(a \o b, a \o g)
  <1>1. Len(a) \in Nat /\ Len(b) \in Nat
    BY IsSeqFacts
  <1>2. /\ Len(a \o b) = Len(a) + Len(b)
        /\ \A i \in 1..(Len(a) + Len(b)) :
             (a \o b)[i] = IF i <= Len(a) THEN a[i] ELSE b[i - Len(a)]
    BY ConcatFacts
  <1>. DEFINE s == a \o b
              t == a \o g
  <1>3. \A i \in 1..Len(a) : i \in 1..Len(s) /\ s[i] = a[i]
    BY <1>1, <1>2
  <1>4. \A q \in 1..Len(t) : Loud(t[q]) => q \in 1..Len(a) /\ t[q] = a[q]
    BY SameConcat DEF Same, Within
  <1>. HIDE DEF s, t
  <1>5. Within(s, t)
    BY <1>3, <1>4 DEF Within
  <1>. QED  BY <1>5 DEF s, t

\* One record at the end.
LEMMA GrownAppend ==
    ASSUME NEW s, IsSeq(s), NEW r
    PROVE  Grown(s, Append(s, r), r)
  <1>. DEFINE t == Append(s, r)
              n == Len(s) + 1
  <1>1. /\ Len(s) \in Nat /\ Len(t) = n /\ t[n] = r
        /\ \A i \in 1..Len(s) : t[i] = s[i]
    BY AppendFacts, IsSeqFacts
  <1>. HIDE DEF t
  <1>2. Within(t, s)
    BY <1>1 DEF Within
  <1>3. n \in 1..Len(t) /\ n > Len(s) /\ Len(s) <= Len(t)
    BY <1>1
  <1>4. \A q \in 1..Len(t) : q # n => q \in 1..Len(s) /\ t[q] = s[q]
    BY <1>1
  <1>. HIDE DEF n
  <1>5. Grown(s, t, r)
    BY <1>1, <1>2, <1>3, <1>4 DEF Grown
  <1>. QED  BY <1>5 DEF t

\* The relations are closed under doing one thing after the other.
LEMMA WithinTrans ==
    ASSUME NEW s, NEW t, NEW u, Within(s, t), Within(t, u)
    PROVE  Within(s, u)
  BY DEF Within

\* Nothing lost by two steps in a row.
LEMMA SameTrans ==
    ASSUME NEW s, NEW t, NEW u, Same(s, t), Same(t, u),
           Len(s) \in Nat, Len(t) \in Nat, Len(u) \in Nat
    PROVE  Same(s, u)
  BY WithinTrans DEF Same

\* A record behind what was kept.
LEMMA SameGrown ==
    ASSUME NEW s, NEW t, NEW u, NEW r, Same(s, t), Grown(t, u, r),
           Len(s) \in Nat, Len(t) \in Nat, Len(u) \in Nat
    PROVE  Grown(s, u, r)
  <1>1. Within(u, s)
    BY WithinTrans DEF Same, Grown
  <1>2. PICK n \in 1..Len(u) :
          /\ n > Len(t) /\ u[n] = r
          /\ \A q \in 1..Len(u) : Loud(u[q]) /\ q # n => q \in 1..Len(t) /\ u[q] = t[q]
    BY DEF Grown
  <1>3. n > Len(s) /\ Len(s) <= Len(u)
    BY <1>2 DEF Same, Grown
  <1>4. ASSUME NEW q \in 1..Len(u), Loud(u[q]), q # n
        PROVE  q \in 1..Len(s) /\ u[q] = s[q]
    <2>1. q \in 1..Len(t) /\ u[q] = t[q]
      BY <1>2, <1>4
    <2>. QED  BY <1>4, <2>1 DEF Same, Within
  <1>. QED  BY <1>1, <1>2, <1>3, <1>4 DEF Grown

\* Keeping everything twice, and keeping what is there.
LEMMA KeptTrans ==
    ASSUME NEW o, NEW p, NEW q, FileOK(o), Kept(o, p), Kept(p, q)
    PROVE  Kept(o, q)
  <1>1. FileOK(p) /\ FileOK(q)
    BY DEF Kept
  <1>2. /\ o.faults \in Nat /\ p.faults \in Nat /\ q.faults \in Nat
        /\ Len(Stream(o)) \in Nat /\ Len(Stream(p)) \in Nat /\ Len(Stream(q)) \in Nat
    BY <1>1, StreamFacts
  <1>3. Within(Stream(o), Stream(q)) /\ o.faults <= q.faults
    BY <1>2, WithinTrans DEF Kept
  <1>4. ASSUME q.faults = o.faults PROVE Same(Stream(o), Stream(q))
    <2>1. p.faults = o.faults /\ q.faults = p.faults
      BY <1>2, <1>4 DEF Kept
    <2>2. Same(Stream(o), Stream(p)) /\ Same(Stream(p), Stream(q))
      BY <2>1 DEF Kept
    <2>. QED  BY <1>2, <2>2, SameTrans
  <1>. QED  BY <1>1, <1>3, <1>4 DEF Kept

\* A call that changes nothing.
LEMMA KeptRefl ==
    ASSUME NEW o, FileOK(o)
    PROVE  Kept(o, o)
  <1>1. o.faults \in Nat /\ Len(Stream(o)) \in Nat
    BY StreamFacts
  <1>2. Same(Stream(o), Stream(o))
    BY <1>1 DEF Same, Within
  <1>. QED  BY <1>1, <1>2 DEF Kept, Same

\* The error outcomes of an operation that can leave any of the states in after.
LEMMA IoErrorKeeps ==
    ASSUME NEW o, FileOK(o), NEW after,
           \A a \in after : Within(Stream(o), Stream(a)) /\ FileOK(a)
                            /\ a.faults = o.faults /\ DOMAIN a = OutFields
    PROVE  \A x \in IoError(o, after) : Kept(o, x.out) /\ x.res = "Io" /\ Excused(o, x)
  <1>. SUFFICES ASSUME NEW x \in IoError(o, after)
                PROVE  Kept(o, x.out) /\ x.res = "Io" /\ Excused(o, x)
    OBVIOUS
  <1>1. PICK a \in after : x = [out |-> [a EXCEPT !.faults = @ + 1], res |-> "Io"]
    BY DEF IoError
  <1>2. x.out = [a EXCEPT !.faults = @ + 1] /\ x.res = "Io"
    BY <1>1
  <1>3. /\ Within(Stream(o), Stream(a)) /\ FileOK(a)
        /\ a.faults = o.faults /\ DOMAIN a = OutFields
    BY <1>1
  <1>4. o.faults \in Nat
    BY StreamFacts
  <1>5. x.out.faults = o.faults + 1 /\ x.out.file = a.file /\ x.out.chunk = a.chunk
    BY <1>2, <1>3 DEF OutFields
  <1>6. FileOK(x.out) /\ Stream(x.out) = Stream(a)
    BY <1>3, <1>4, <1>5 DEF FileOK, Stream
  <1>7. Kept(o, x.out)
    BY <1>3, <1>4, <1>5, <1>6 DEF Kept
  <1>8. x.out.faults > o.faults
    BY <1>4, <1>5
  <1>. QED  BY <1>2, <1>7, <1>8 DEF Excused

\* A record that is neither a declaration nor a message leaves them alone.
LEMMA QuietGrew ==
    ASSUME NEW o, NEW p, NEW r, FileOK(o), Grew(o, p, r), ~Loud(r)
    PROVE  Kept(o, p)
  <1>1. /\ o.faults \in Nat /\ p.faults = o.faults /\ FileOK(p)
        /\ Grown(Stream(o), Stream(p), r)
    BY StreamFacts DEF Grew
  <1>2. Same(Stream(o), Stream(p))
    BY <1>1 DEF Grown, Same, Within
  <1>. QED  BY <1>1, <1>2 DEF Kept, Same

-------------------------------------------------------------------------------
(* Writing to the file, and to the open chunk.                             *)

\* A closed chunk holds nothing.
LEMMA NoChunkHolds ==
    /\ NoChunk.recs = <<>> /\ IsChunkData(NoChunk.recs)
    /\ IsFiniteSet(DOMAIN NoChunk.index)
  <1>1. NoChunk.recs = <<>> /\ DOMAIN NoChunk.index = {}
    BY DEF NoChunk
  <1>. QED  BY <1>1, EmptyFacts, FS_EmptySet DEF IsChunkData

\* Records behind the file, with no chunk open afterwards.
LEMMA FileGrows ==
    ASSUME NEW o, FileOK(o), NEW p, p.chunk = NoChunk, p.faults = o.faults,
           NEW g, IsSeq(g), p.file = o.file \o g,
           \A r \in ToSet(g) : r.op \in DataOps \ {"Chunk"}
    PROVE  FileOK(p) /\ Stream(p) = Flat(o.file) \o g
  <1>1. Whole(o.file) /\ IsSeq(o.file) /\ IsSeq(Flat(o.file)) /\ o.faults \in Nat
    BY StreamFacts DEF Whole
  <1>2. /\ Flat(p.file) = Flat(o.file) \o g
        /\ IsSeq(p.file) /\ Len(p.file) = Len(o.file) + Len(g)
        /\ ToSet(p.file) = ToSet(o.file) \cup ToSet(g)
    BY <1>1, FlatConcat, ConcatFacts, ConcatElements
  <1>3. Len(p.file) >= 1
    BY <1>1, <1>2, IsSeqFacts DEF FileOK, IsData
  <1>4. IsData(p.file)
    BY <1>2, <1>3 DEF FileOK, IsData
  <1>5. Stream(p) = Flat(o.file) \o g
    BY <1>1, <1>2, NoChunkHolds, ConcatFacts, ConcatEmpty DEF Stream
  <1>. QED  BY <1>1, <1>4, <1>5, NoChunkHolds DEF FileOK

\* What a record of the file may be other than a chunk.
PlainOps == DataOps \ {"Chunk"}

\* One record appended to the raw stream.
LEMMA AppendedGrows ==
    ASSUME NEW o, StreamOK(o), FileOK(o), o.chunk = NoChunk,
           NEW r, r.op \in PlainOps
    PROVE  /\ Grew(o, Appended(o, <<r>>), r)
           /\ Appended(o, <<r>>).faults = o.faults
           /\ DOMAIN Appended(o, <<r>>) = OutFields
  <1>. DEFINE p == Appended(o, <<r>>)
  <1>1. /\ p.file = o.file \o <<r>> /\ p.chunk = NoChunk /\ p.faults = o.faults
        /\ DOMAIN p = OutFields
    BY DEF Appended, StreamOK, OutFields
  <1>. HIDE DEF p
  <1>2. IsSeq(<<r>>) /\ ToSet(<<r>>) = {r} /\ IsSeq(Flat(o.file))
    BY SingletonFacts, StreamFacts
  <1>3. FileOK(p) /\ Stream(p) = Flat(o.file) \o <<r>>
    BY <1>1, <1>2, FileGrows DEF PlainOps
  <1>4. Stream(o) = Flat(o.file)
    BY <1>2, NoChunkHolds, ConcatEmpty DEF Stream
  <1>5. Stream(p) = Append(Stream(o), r)
    BY <1>2, <1>3, <1>4, AppendIsJoin
  <1>6. Grown(Stream(o), Stream(p), r)
    BY <1>2, <1>4, <1>5, GrownAppend
  <1>. QED  BY <1>1, <1>3, <1>6 DEF Grew, p

\* A torn record is not one of those the theorems are about.
LEMMA TornIsQuiet == Torn.op \in PlainOps /\ ~Loud(Torn)
  BY DEF Torn, PlainOps, DataOps, ChunkOps, Loud

\* A write that fails leaves what was there.
LEMMA TornKeeps ==
    ASSUME NEW o, StreamOK(o), FileOK(o), o.chunk = NoChunk, NEW a \in TornOr(o)
    PROVE  /\ Kept(o, a) /\ Within(Stream(o), Stream(a)) /\ FileOK(a)
           /\ a.faults = o.faults /\ DOMAIN a = OutFields
  <1>1. CASE a = o
    BY <1>1, KeptRefl DEF Kept, StreamOK
  <1>2. CASE a = Appended(o, <<Torn>>)
    BY <1>2, AppendedGrows, TornIsQuiet, QuietGrew DEF Kept
  <1>. QED  BY <1>1, <1>2 DEF TornOr

\* write_record on the raw stream.
LEMMA AppendRawAdds ==
    ASSUME NEW o, StreamOK(o), FileOK(o), o.chunk = NoChunk, NEW r, r.op \in PlainOps
    PROVE  \A x \in AppendRaw(o, r) : Adds(o, x, r)
  <1>1. \A x \in IoError(o, TornOr(o)) : Kept(o, x.out) /\ x.res = "Io" /\ Excused(o, x)
    <2>1. \A a \in TornOr(o) : /\ Within(Stream(o), Stream(a)) /\ FileOK(a)
                               /\ a.faults = o.faults /\ DOMAIN a = OutFields
      BY TornKeeps
    <2>. QED  BY <2>1, IoErrorKeeps
  <1>2. \A x \in Ok(Appended(o, <<r>>)) : Grew(o, x.out, r) /\ x.res = "Ok"
    BY AppendedGrows DEF Ok
  <1>. QED  BY <1>1, <1>2 DEF AppendRaw, Adds

\* One record appended to the open chunk.
LEMMA ChunkGrows ==
    ASSUME NEW o, StreamOK(o), FileOK(o), NEW r, r.op \in ChunkOps
    PROVE  LET p == [o EXCEPT !.chunk.recs = Append(@, r)]
           IN Grew(o, p, r) /\ p.faults = o.faults /\ DOMAIN p = OutFields
  <1>. DEFINE p == [o EXCEPT !.chunk.recs = Append(@, r)]
              c == [o.chunk EXCEPT !.recs = Append(@, r)]
  <1>1. c.recs = Append(o.chunk.recs, r) /\ c.index = o.chunk.index
    BY DEF StreamOK, ChunkFields
  <1>2. p.file = o.file /\ p.chunk = c /\ p.faults = o.faults /\ DOMAIN p = OutFields
    BY DEF StreamOK, OutFields
  <1>. HIDE DEF p, c
  <1>3. IsSeq(Flat(o.file)) /\ IsSeq(o.chunk.recs) /\ IsSeq(Stream(o))
    BY StreamFacts
  <1>4. IsSeq(c.recs) /\ ToSet(c.recs) = ToSet(o.chunk.recs) \cup {r}
    BY <1>1, <1>3, AppendFacts
  <1>5. FileOK(p)
    BY <1>1, <1>2, <1>4 DEF FileOK, IsChunkData
  <1>6. Stream(p) = Append(Stream(o), r)
    <2>1. IsSeq(<<r>>)
      BY SingletonFacts
    <2>2. (Flat(o.file) \o o.chunk.recs) \o <<r>> = Flat(o.file) \o (o.chunk.recs \o <<r>>)
      <3>. DEFINE a == Flat(o.file)
                  b == o.chunk.recs
                  e == <<r>>
      <3>1. IsSeq(a) /\ IsSeq(b) /\ IsSeq(e)
        BY <1>3, <2>1
      <3>. HIDE DEF a, b, e
      <3>2. (a \o b) \o e = a \o (b \o e)
        BY <3>1, JoinAssociative
      <3>. QED  BY <3>2 DEF a, b, e
    <2>3. o.chunk.recs \o <<r>> = Append(o.chunk.recs, r)
      BY <1>3, AppendIsJoin
    <2>4. Stream(o) \o <<r>> = Append(Stream(o), r)
      BY <1>3, AppendIsJoin
    <2>. QED  BY <1>1, <1>2, <2>2, <2>3, <2>4 DEF Stream
  <1>7. Grown(Stream(o), Stream(p), r)
    BY <1>3, <1>6, GrownAppend
  <1>. QED  BY <1>2, <1>5, <1>7 DEF Grew, p

\* write_record on the open chunk.
LEMMA AppendChunkAdds ==
    ASSUME NEW o, StreamOK(o), FileOK(o), NEW r, r.op \in ChunkOps
    PROVE  \A x \in AppendChunk(o, r) : Adds(o, x, r)
  <1>. DEFINE d(q) == [o EXCEPT !.chunk.recs = Append(@, q)]
  <1>1. \A q : q.op \in ChunkOps => /\ Grew(o, d(q), q)
                                    /\ d(q).faults = o.faults /\ DOMAIN d(q) = OutFields
    BY ChunkGrows
  <1>2. AppendChunk(o, r) =
          Ok(d(r)) \cup (IF o.chunk.buffered THEN {} ELSE IoError(o, {o, d(Torn)}))
    BY DEF AppendChunk
  <1>. HIDE DEF d
  <1>3. Torn.op \in ChunkOps
    BY DEF Torn, ChunkOps
  <1>4. Kept(o, d(Torn)) /\ d(Torn).faults = o.faults /\ DOMAIN d(Torn) = OutFields
    BY <1>1, <1>3, TornIsQuiet, QuietGrew
  <1>5. \A x \in IoError(o, {o, d(Torn)}) : Kept(o, x.out) /\ x.res = "Io" /\ Excused(o, x)
    <2>1. \A a \in {o, d(Torn)} : /\ Within(Stream(o), Stream(a)) /\ FileOK(a)
                                  /\ a.faults = o.faults /\ DOMAIN a = OutFields
      BY <1>4, KeptRefl DEF Kept, StreamOK
    <2>. QED  BY <2>1, IoErrorKeeps
  <1>6. \A x \in Ok(d(r)) : Grew(o, x.out, r) /\ x.res = "Ok"
    BY <1>1 DEF Ok
  <1>. QED  BY <1>2, <1>5, <1>6 DEF Adds

-------------------------------------------------------------------------------
(* Chunks are opened and finished.                                         *)

\* One message index per channel of the chunk.
LEMMA MessageIndexesFacts ==
    ASSUME NEW c, IsFiniteSet(DOMAIN c.index)
    PROVE  /\ IsSeq(MessageIndexes(c))
           /\ \A r \in ToSet(MessageIndexes(c)) : r.op = "MessageIndex"
  <1>. DEFINE S == DOMAIN c.index
              nth(n) == CHOOSE x \in S : Cardinality({y \in S : y < x}) = n - 1
              f == [n \in 1..Cardinality(S) |-> nth(n)]
              ix == IndexChannels(c)
              mi == MessageIndexes(c)
  <1>1. Cardinality(S) \in Nat
    BY FS_CardinalityType
  <1>3. ix = f \o <<>>
    BY DEF IndexChannels, SortedSet
  <1>. HIDE DEF nth
  <1>2. IsSeq(f) /\ Len(f) = Cardinality(S)
    <2>1. DOMAIN f = 1..Cardinality(S) /\ f = [i \in 1..Cardinality(S) |-> f[i]]
      OBVIOUS
    <2>. HIDE DEF f
    <2>. QED  BY <1>1, <2>1, FunctionIsSeq
  <1>. HIDE DEF f
  <1>4. ix = f
    BY <1>2, <1>3, ConcatEmpty
  <1>5. Len(ix) \in Nat /\ DOMAIN ix = 1..Len(ix)
    BY <1>2, <1>4, IsSeqFacts
  <1>6. /\ DOMAIN mi = 1..Len(ix) /\ mi = [i \in 1..Len(ix) |-> mi[i]]
        /\ \A i \in 1..Len(ix) : mi[i].op = "MessageIndex"
    BY <1>5 DEF MessageIndexes
  <1>. HIDE DEF mi, ix
  <1>7. IsSeq(mi) /\ Len(mi) = Len(ix)
    BY <1>5, <1>6, FunctionIsSeq
  <1>8. \A r \in ToSet(mi) : r.op = "MessageIndex"
    BY <1>6 DEF ToSet
  <1>. QED  BY <1>7, <1>8 DEF mi

\* The chunk record and some message indexes behind it.
LEMMA ChunkWritten ==
    ASSUME NEW o, FileOK(o), NEW p, p.chunk = NoChunk, p.faults = o.faults,
           NEW g, IsSeq(g), \A r \in ToSet(g) : r.op = "MessageIndex",
           p.file = o.file \o <<ChunkRec(o.chunk)>> \o g
    PROVE  FileOK(p) /\ Same(Stream(o), Stream(p))
  <1>. DEFINE r == ChunkRec(o.chunk)
              f == Append(o.file, r)
  <1>1. /\ Whole(o.file) /\ IsSeq(o.file) /\ IsSeq(Flat(o.file)) /\ o.faults \in Nat
        /\ IsSeq(o.chunk.recs) /\ IsSeq(Stream(o))
    BY StreamFacts DEF Whole
  <1>2. r.op = "Chunk" /\ r.recs = o.chunk.recs /\ Opened(r) = o.chunk.recs
    BY DEF ChunkRec, Opened
  <1>. HIDE DEF r
  <1>3. Whole(f) /\ Flat(f) = Stream(o)
    BY <1>1, <1>2, FlatAppend DEF Stream
  <1>4. p.file = f \o g
    BY <1>1, AppendIsJoin DEF r
  <1>5. /\ IsSeq(f) /\ Len(f) = Len(o.file) + 1
        /\ ToSet(f) = ToSet(o.file) \cup {r}
    BY <1>1, AppendFacts
  <1>. HIDE DEF f
  <1>6. \A q \in ToSet(g) : q.op # "Chunk" /\ ~Loud(q) /\ q.op \in DataOps
    BY DEF Loud, DataOps
  <1>7. Flat(p.file) = Stream(o) \o g
    BY <1>3, <1>4, <1>6, FlatConcat
  <1>8. /\ IsSeq(p.file) /\ Len(p.file) = Len(f) + Len(g)
        /\ ToSet(p.file) = ToSet(f) \cup ToSet(g)
    BY <1>4, <1>5, ConcatFacts, ConcatElements
  <1>9. Len(p.file) >= 1
    BY <1>1, <1>5, <1>8, IsSeqFacts
  <1>10. IsData(p.file)
    BY <1>2, <1>5, <1>6, <1>8, <1>9 DEF FileOK, IsData, DataOps
  <1>11. Stream(p) = Stream(o) \o g
    BY <1>1, <1>7, NoChunkHolds, ConcatFacts, ConcatEmpty DEF Stream
  <1>12. Same(Stream(o), Stream(p))
    BY <1>1, <1>6, <1>11, SameConcat
  <1>. QED  BY <1>1, <1>10, <1>12, NoChunkHolds DEF FileOK

\* ChunkWriter::finish puts the records of the chunk where they were.
LEMMA ChunkDoneKeeps ==
    ASSUME NEW o, StreamOK(o), FileOK(o)
    PROVE  Kept(o, ChunkDone(o)) /\ ChunkDone(o).faults = o.faults
  <1>. DEFINE d == ChunkDone(o)
              mi == MessageIndexes(o.chunk)
  <1>1. /\ d.file = o.file \o <<ChunkRec(o.chunk)>> \o mi
        /\ d.chunk = NoChunk /\ d.faults = o.faults
    BY DEF ChunkDone, StreamOK, OutFields
  <1>2. IsSeq(mi) /\ \A r \in ToSet(mi) : r.op = "MessageIndex"
    BY MessageIndexesFacts DEF FileOK
  <1>. HIDE DEF d, mi
  <1>3. FileOK(d) /\ Same(Stream(o), Stream(d)) /\ o.faults \in Nat
    BY <1>1, <1>2, ChunkWritten, StreamFacts
  <1>. QED  BY <1>1, <1>3 DEF Kept, Same, d

\* An error in the middle of it loses at most the open chunk.
LEMMA ChunkBrokenKeeps ==
    ASSUME NEW o, StreamOK(o), FileOK(o), NEW a \in ChunkBroken(o)
    PROVE  /\ Within(Stream(o), Stream(a)) /\ FileOK(a)
           /\ a.faults = o.faults /\ DOMAIN a = OutFields
  <1>. DEFINE mi == MessageIndexes(o.chunk)
  <1>0. /\ IsSeq(mi) /\ \A r \in ToSet(mi) : r.op = "MessageIndex"
        /\ Len(mi) \in Nat
    BY MessageIndexesFacts, IsSeqFacts DEF FileOK
  <1>s. /\ IsSeq(o.file) /\ IsSeq(Flat(o.file)) /\ IsSeq(o.chunk.recs)
        /\ Stream(o) = Flat(o.file) \o o.chunk.recs
    BY StreamFacts DEF Whole, Stream
  <1>1. PICK f : /\ a = [o EXCEPT !.mode = "Failed", !.file = f, !.chunk = NoChunk]
                 /\ \/ f = Append(o.file, Torn)
                    \/ f = o.file
                    \/ \E k \in 0..Len(mi) :
                         f = o.file \o <<ChunkRec(o.chunk)>> \o SubSeq(mi, 1, k)
    BY DEF ChunkBroken
  <1>2. /\ a.file = f /\ a.chunk = NoChunk /\ a.faults = o.faults
        /\ DOMAIN a = OutFields
    BY <1>1 DEF StreamOK, OutFields
  <1>. HIDE DEF mi
  <1>3. ASSUME NEW g, IsSeq(g), f = o.file \o g, \A r \in ToSet(g) : r = Torn
        PROVE  Within(Stream(o), Stream(a)) /\ FileOK(a)
    <2>1. \A r \in ToSet(g) : r.op \in DataOps \ {"Chunk"} /\ ~Loud(r)
      BY <1>3, TornIsQuiet DEF PlainOps
    <2>2. FileOK(a) /\ Stream(a) = Flat(o.file) \o g
      BY <1>2, <1>3, <2>1, FileGrows
    <2>. QED  BY <1>s, <1>3, <2>1, <2>2, WithinPrefix
  <1>4. CASE f = Append(o.file, Torn)
    <2>. DEFINE g == <<Torn>>
    <2>1. IsSeq(g) /\ ToSet(g) = {Torn} /\ f = o.file \o g
      BY <1>s, <1>4, AppendIsJoin, SingletonFacts
    <2>. HIDE DEF g
    <2>. QED  BY <1>2, <1>3, <2>1
  <1>5. CASE f = o.file
    BY <1>s, <1>2, <1>3, <1>5, ConcatEmpty, EmptyFacts
  <1>6. ASSUME NEW k \in 0..Len(mi),
               f = o.file \o <<ChunkRec(o.chunk)>> \o SubSeq(mi, 1, k)
        PROVE  Within(Stream(o), Stream(a)) /\ FileOK(a)
    <2>1. k \in Nat /\ 1 <= k + 1 /\ k <= Len(mi)
      BY <1>0
    <2>2. IsSeq(SubSeq(mi, 1, k)) /\ ToSet(SubSeq(mi, 1, k)) \subseteq ToSet(mi)
      BY <1>0, <2>1, SubSeqFacts
    <2>3. \A r \in ToSet(SubSeq(mi, 1, k)) : r.op = "MessageIndex"
      BY <1>0, <2>2
    <2>. DEFINE g == SubSeq(mi, 1, k)
    <2>. HIDE DEF g
    <2>4. a.file = o.file \o <<ChunkRec(o.chunk)>> \o g
      BY <1>2, <1>6 DEF g
    <2>5. FileOK(a) /\ Same(Stream(o), Stream(a))
      BY <1>2, <2>2, <2>3, <2>4, ChunkWritten DEF g
    <2>. QED  BY <2>5 DEF Same
  <1>. QED  BY <1>1, <1>2, <1>4, <1>5, <1>6

\* A refusal is not an Ok.
LEMMA RefusalNotOk == \A o : Refusal(o) # "Ok"
  BY DEF Refusal, ModeRefusal

\* Writer::finish_chunk: after an Ok no chunk is open.
LEMMA FinishChunkKeeps ==
    ASSUME NEW o, StreamOK(o), FileOK(o)
    PROVE  \A x \in FinishChunk(o) : Keeps(o, x)
  <1>0. Kept(o, o)
    BY KeptRefl
  <1>1. CASE Refusal(o) # "none"
    <2>1. FinishChunk(o) = Fails(o, Refusal(o))
      BY <1>1 DEF FinishChunk
    <2>. QED  BY <1>0, <1>1, <2>1, RefusalNotOk DEF Fails, Keeps, Excused
  <1>2. CASE Refusal(o) = "none" /\ o.mode = "Chunk"
    <2>1. FinishChunk(o) = Ok(ChunkDone(o)) \cup IoError(o, ChunkBroken(o))
      BY <1>2 DEF FinishChunk
    <2>2. \A a \in ChunkBroken(o) : /\ Within(Stream(o), Stream(a)) /\ FileOK(a)
                                    /\ a.faults = o.faults /\ DOMAIN a = OutFields
      BY ChunkBrokenKeeps
    <2>3. \A x \in IoError(o, ChunkBroken(o)) : Kept(o, x.out) /\ x.res = "Io" /\ Excused(o, x)
      BY <2>2, IoErrorKeeps
    <2>4. \A x \in Ok(ChunkDone(o)) : Keeps(o, x)
      BY ChunkDoneKeeps DEF Ok, Keeps
    <2>. QED  BY <2>1, <2>3, <2>4 DEF Keeps
  <1>3. CASE Refusal(o) = "none" /\ o.mode # "Chunk"
    <2>1. FinishChunk(o) = Ok(o)
      BY <1>3 DEF FinishChunk
    <2>. QED  BY <1>0, <2>1 DEF Ok, Keeps
  <1>. QED  BY <1>1, <1>2, <1>3

\* Taking the stream, or losing it, leaves the file alone.
LEMMA SameFileKept ==
    ASSUME NEW o, FileOK(o), NEW p, p.file = o.file, p.faults = o.faults,
           p.chunk.recs = o.chunk.recs, IsFiniteSet(DOMAIN p.chunk.index)
    PROVE  Kept(o, p)
  <1>1. FileOK(p) /\ Stream(p) = Stream(o)
    BY DEF FileOK, Stream
  <1>. QED  BY <1>1, KeptRefl DEF Kept

\* Writer::start_chunk.
LEMMA StartChunkKeeps ==
    ASSUME NEW o, StreamOK(o), FileOK(o)
    PROVE  \A x \in StartChunk(o) : Keeps(o, x)
  <1>0. Kept(o, o)
    BY KeptRefl
  <1>1. CASE Refusal(o) # "none"
    <2>1. StartChunk(o) = Fails(o, Refusal(o))
      BY <1>1 DEF StartChunk
    <2>. QED  BY <1>0, <1>1, <2>1, RefusalNotOk DEF Fails, Keeps, Excused
  <1>2. CASE Refusal(o) = "none" /\ o.mode = "Raw"
    <2>. DEFINE lost == {[a EXCEPT !.mode = "None"] : a \in
                           IF o.chunk_mode = "Buffered" THEN {o} ELSE TornOr(o)}
    <2>1. StartChunk(o) = Ok(ChunkOpened(o)) \cup IoError(o, lost)
      BY <1>2 DEF StartChunk
    <2>2. o.chunk = NoChunk /\ o.chunk.recs = <<>> /\ DOMAIN o.chunk = ChunkFields
      BY <1>2, NoChunkHolds DEF StreamOK
    <2>3. \A b \in lost : /\ Within(Stream(o), Stream(b)) /\ FileOK(b)
                          /\ b.faults = o.faults /\ DOMAIN b = OutFields
      <3>. SUFFICES ASSUME NEW a \in {o} \cup TornOr(o),
                           NEW b, b = [a EXCEPT !.mode = "None"]
                    PROVE  /\ Within(Stream(o), Stream(b)) /\ FileOK(b)
                           /\ b.faults = o.faults /\ DOMAIN b = OutFields
        OBVIOUS
      <3>1. /\ Within(Stream(o), Stream(a)) /\ FileOK(a)
            /\ a.faults = o.faults /\ DOMAIN a = OutFields
        BY <2>2, TornKeeps, KeptRefl DEF Kept, StreamOK
      <3>2. /\ b.file = a.file /\ b.chunk = a.chunk /\ b.faults = a.faults
            /\ DOMAIN b = OutFields
        BY <3>1 DEF OutFields
      <3>. QED  BY <3>1, <3>2 DEF FileOK, Stream
    <2>. HIDE DEF lost
    <2>4. \A x \in IoError(o, lost) : Kept(o, x.out) /\ x.res = "Io" /\ Excused(o, x)
      BY <2>3, IoErrorKeeps
    <2>5. Kept(o, ChunkOpened(o)) /\ ChunkOpened(o).faults = o.faults
      <3>. DEFINE d == ChunkOpened(o)
                  c == [NoChunk EXCEPT !.offset = Len(o.file) + 1,
                                       !.buffered = o.chunk_mode = "Buffered"]
      <3>1. c.recs = NoChunk.recs /\ c.index = NoChunk.index
        BY DEF NoChunk
      <3>2. d.file = o.file /\ d.chunk = c /\ d.faults = o.faults
        BY DEF ChunkOpened, StreamOK, OutFields
      <3>. HIDE DEF d, c
      <3>3. Kept(o, d)
        BY <2>2, <3>1, <3>2, NoChunkHolds, SameFileKept
      <3>. QED  BY <3>2, <3>3 DEF d
    <2>6. \A x \in Ok(ChunkOpened(o)) : Keeps(o, x)
      BY <2>5 DEF Ok, Keeps
    <2>. QED  BY <2>1, <2>4, <2>6 DEF Keeps
  <1>3. CASE Refusal(o) = "none" /\ o.mode # "Raw"
    <2>1. StartChunk(o) = Ok(o)
      BY <1>3 DEF StartChunk
    <2>. QED  BY <1>0, <2>1 DEF Ok, Keeps
  <1>. QED  BY <1>1, <1>2, <1>3

-------------------------------------------------------------------------------
(* Calls made of several helpers.                                          *)

\* One helper after another that went well.
LEMMA ThenAdds ==
    ASSUME NEW o, FileOK(o), NEW y, Keeps(o, y), y.res = "Ok",
           NEW x, NEW r, Adds(y.out, x, r), Refusal(y.out) = "none"
    PROVE  Adds(o, x, r)
  <1>1. /\ Kept(o, y.out) /\ y.out.faults = o.faults /\ FileOK(y.out)
        /\ Same(Stream(o), Stream(y.out))
    BY DEF Keeps, Kept
  <1>2. CASE x.res = "Ok"
    <2>1. Grew(y.out, x.out, r) /\ FileOK(x.out) /\ x.out.faults = o.faults
      BY <1>1, <1>2 DEF Adds, Grew
    <2>2. /\ Len(Stream(o)) \in Nat /\ Len(Stream(y.out)) \in Nat
          /\ Len(Stream(x.out)) \in Nat
      BY <1>1, <2>1, StreamFacts
    <2>3. Grown(Stream(o), Stream(x.out), r)
      BY <1>1, <2>1, <2>2, SameGrown DEF Grew
    <2>. QED  BY <1>2, <2>1, <2>3 DEF Adds, Grew
  <1>3. CASE x.res # "Ok"
    BY <1>1, <1>3, KeptTrans DEF Adds, Excused
  <1>. QED  BY <1>2, <1>3

\* A quiet record, or none.
LEMMA AddsKept ==
    ASSUME NEW o, FileOK(o), NEW x, NEW r, Adds(o, x, r), ~Loud(r)
    PROVE  Kept(o, x.out)
  BY QuietGrew DEF Adds

\* Where a record can still be written.
LEMMA NotRefused ==
    ASSUME NEW o, ~finished, o.mode \in {"Raw", "Chunk"}
    PROVE  Refusal(o) = "none"
  BY DEF Refusal, ModeRefusal

\* A record into the open chunk, or behind the file.
LEMMA RecordInChunk ==
    ASSUME NEW o, StreamOK(o), FileOK(o), o.mode # "Dropped", finished \in BOOLEAN,
           opts.use_chunks, NEW r, r.op \in ChunkOps,
           NEW x \in Then(StartChunk(o), LAMBDA y : AppendChunk(y, r))
    PROVE  Adds(o, x, r)
  <1>1. \/ x \in StartChunk(o) /\ x.res # "Ok"
        \/ \E y \in StartChunk(o) : y.res = "Ok" /\ x \in AppendChunk(y.out, r)
    BY DEF Then
  <1>2. CASE x \in StartChunk(o) /\ x.res # "Ok"
    BY <1>2, StartChunkKeeps DEF Keeps, Adds
  <1>3. ASSUME NEW y \in StartChunk(o), y.res = "Ok", x \in AppendChunk(y.out, r)
        PROVE  Adds(o, x, r)
    <2>1. StreamOK(y.out) /\ y.out.mode = "Chunk" /\ ~finished
      BY <1>3, StartChunkOK DEF OutcomeOK
    <2>2. Keeps(o, y) /\ FileOK(y.out)
      BY StartChunkKeeps DEF Keeps, Kept
    <2>3. Adds(y.out, x, r)
      BY <1>3, <2>1, <2>2, AppendChunkAdds
    <2>. QED  BY <1>3, <2>1, <2>2, <2>3, NotRefused, ThenAdds
  <1>. QED  BY <1>1, <1>2, <1>3

\* A record behind the file, the open chunk finished first.
LEMMA RecordInFile ==
    ASSUME NEW o, StreamOK(o), FileOK(o), o.mode # "Dropped", finished \in BOOLEAN,
           opts \in OptionType, NEW r, r.op \in PlainOps,
           NEW x \in Then(FinishChunk(o), LAMBDA y : AppendRaw(y, r))
    PROVE  Adds(o, x, r)
  <1>1. \/ x \in FinishChunk(o) /\ x.res # "Ok"
        \/ \E y \in FinishChunk(o) : y.res = "Ok" /\ x \in AppendRaw(y.out, r)
    BY DEF Then
  <1>2. CASE x \in FinishChunk(o) /\ x.res # "Ok"
    BY <1>2, FinishChunkKeeps DEF Keeps, Adds
  <1>3. ASSUME NEW y \in FinishChunk(o), y.res = "Ok", x \in AppendRaw(y.out, r)
        PROVE  Adds(o, x, r)
    <2>1. StreamOK(y.out) /\ y.out.mode = "Raw" /\ ~finished
      BY <1>3, FinishChunkOK DEF OutcomeOK
    <2>2. Keeps(o, y) /\ FileOK(y.out) /\ y.out.chunk = NoChunk
      BY <2>1, FinishChunkKeeps DEF Keeps, Kept, StreamOK
    <2>3. Adds(y.out, x, r)
      BY <1>3, <2>1, <2>2, AppendRawAdds
    <2>. QED  BY <1>3, <2>1, <2>2, <2>3, NotRefused, ThenAdds
  <1>. QED  BY <1>1, <1>2, <1>3

\* write_schema, write_channel.
LEMMA WriteRecordAdds ==
    ASSUME NEW o, StreamOK(o), FileOK(o), o.mode # "Dropped", finished \in BOOLEAN,
           opts \in OptionType, NEW r, r.op \in ChunkOps
    PROVE  \A x \in WriteRecord(o, r) : Adds(o, x, r)
  <1>1. r.op \in PlainOps
    BY DEF PlainOps, DataOps, ChunkOps
  <1>2. CASE opts.use_chunks
    BY <1>2, RecordInChunk DEF WriteRecord
  <1>3. CASE ~opts.use_chunks
    BY <1>1, <1>3, RecordInFile DEF WriteRecord
  <1>. QED  BY <1>2, <1>3

\* The index of the open chunk has an entry for one more message.
LEMMA IndexMessageKeeps ==
    ASSUME NEW o, StreamOK(o), FileOK(o), NEW id, NEW t
    PROVE  Kept(o, IndexMessage(o, id, t)) /\ IndexMessage(o, id, t).faults = o.faults
  <1>. DEFINE d == IndexMessage(o, id, t)
  <1>1. d.file = o.file /\ d.faults = o.faults /\ d.chunk.recs = o.chunk.recs
    BY DEF IndexMessage, StreamOK, OutFields, ChunkFields
  <1>2. d.chunk.index = o.chunk.index \/ \E v : d.chunk.index = Put(o.chunk.index, id, v)
    BY DEF IndexMessage, StreamOK, OutFields, ChunkFields
  <1>. HIDE DEF d
  <1>3. IsFiniteSet(DOMAIN d.chunk.index)
    <2>1. \A v : DOMAIN Put(o.chunk.index, id, v) = DOMAIN o.chunk.index \cup {id}
      BY DEF Put
    <2>2. IsFiniteSet(DOMAIN o.chunk.index \cup {id})
      BY FS_AddElement DEF FileOK
    <2>. QED  BY <1>2, <2>1, <2>2 DEF FileOK
  <1>4. Kept(o, d)
    BY <1>1, <1>3, SameFileKept
  <1>. QED  BY <1>1, <1>4 DEF d

\* The stream half of write_to_known_channel.
LEMMA WriteMessageAdds ==
    ASSUME NEW o, StreamOK(o), FileOK(o), o.mode # "Dropped", finished \in BOOLEAN,
           opts \in OptionType, NEW id, NEW t
    PROVE  \A x \in WriteMessage(o, id, t) : Adds(o, x, MessageRec(id, t))
  <1>. SUFFICES ASSUME NEW x \in WriteMessage(o, id, t)
                PROVE  Adds(o, x, MessageRec(id, t))
    OBVIOUS
  <1>. DEFINE First == IF TargetReached(o) THEN FinishChunk(o) ELSE Ok(o)
              r == MessageRec(id, t)
              Rest(y) == IF opts.use_chunks
                         THEN Then(StartChunk(y),
                                   LAMBDA z : AppendChunk(IndexMessage(z, id, t), r))
                         ELSE Then(FinishChunk(y), LAMBDA z : AppendRaw(z, r))
  <1>0. r.op \in ChunkOps /\ r.op \in PlainOps
    BY DEF MessageRec, ChunkOps, PlainOps, DataOps
  <1>1. CASE x \in First /\ x.res # "Ok"
    <2>1. TargetReached(o)
      BY <1>1 DEF Ok
    <2>. QED  BY <1>1, <2>1, FinishChunkKeeps DEF Keeps, Adds
  <1>2. \/ x \in First /\ x.res # "Ok"
        \/ \E y \in First : y.res = "Ok" /\ x \in Rest(y.out)
    BY DEF WriteMessage, Then
  <1>3. ASSUME NEW y, StreamOK(y), FileOK(y), y.mode # "Dropped", x \in Rest(y)
        PROVE  Adds(y, x, r)
    <2>1. CASE opts.use_chunks
      <3>1. \/ x \in StartChunk(y) /\ x.res # "Ok"
            \/ \E z \in StartChunk(y) :
                 z.res = "Ok" /\ x \in AppendChunk(IndexMessage(z.out, id, t), r)
        BY <1>3, <2>1 DEF Then
      <3>2. CASE x \in StartChunk(y) /\ x.res # "Ok"
        BY <1>3, <3>2, StartChunkKeeps DEF Keeps, Adds
      <3>3. ASSUME NEW z \in StartChunk(y), z.res = "Ok",
                   x \in AppendChunk(IndexMessage(z.out, id, t), r)
            PROVE  Adds(y, x, r)
        <4>. DEFINE p == IndexMessage(z.out, id, t)
                    w == [out |-> p, res |-> "Ok"]
        <4>1. StreamOK(z.out) /\ z.out.mode = "Chunk" /\ ~finished
          BY <1>3, <2>1, <3>3, StartChunkOK DEF OutcomeOK
        <4>2. Keeps(y, z) /\ Kept(y, z.out) /\ FileOK(z.out) /\ z.out.faults = y.faults
          BY <1>3, <3>3, StartChunkKeeps DEF Keeps, Kept
        <4>3. StreamOK(p) /\ p.mode = "Chunk"
          BY <4>1, IndexMessageOK
        <4>4. Kept(z.out, p) /\ p.faults = z.out.faults /\ FileOK(p)
          BY <4>1, <4>2, IndexMessageKeeps DEF Kept
        <4>. HIDE DEF p
        <4>5. Adds(p, x, r)
          <5>1. x \in AppendChunk(p, r)
            BY <3>3 DEF p
          <5>. HIDE DEF r
          <5>. QED  BY <1>0, <4>3, <4>4, <5>1, AppendChunkAdds
        <4>6. Kept(y, p)
          BY <1>3, <4>2, <4>4, KeptTrans
        <4>7. Keeps(y, w) /\ w.res = "Ok" /\ w.out = p
          BY <4>2, <4>4, <4>6 DEF Keeps
        <4>. HIDE DEF w, r
        <4>. QED  BY <1>3, <4>1, <4>3, <4>5, <4>7, NotRefused, ThenAdds
      <3>. QED  BY <3>1, <3>2, <3>3
    <2>2. CASE ~opts.use_chunks
      <3>1. x \in Then(FinishChunk(y), LAMBDA z : AppendRaw(z, r))
        BY <1>3, <2>2
      <3>. HIDE DEF r
      <3>. QED  BY <1>0, <1>3, <3>1, RecordInFile
    <2>. QED  BY <2>1, <2>2
  <1>4. ASSUME NEW y \in First, y.res = "Ok", x \in Rest(y.out)
        PROVE  Adds(o, x, r)
    <2>1. CASE TargetReached(o)
      <3>1. y \in FinishChunk(o)
        BY <2>1
      <3>2. StreamOK(y.out) /\ y.out.mode = "Raw" /\ ~finished
        BY <1>4, <3>1, FinishChunkOK DEF OutcomeOK
      <3>3. Keeps(o, y) /\ FileOK(y.out)
        BY <3>1, FinishChunkKeeps DEF Keeps, Kept
      <3>. HIDE DEF Rest, r
      <3>4. Adds(y.out, x, r)
        BY <1>3, <1>4, <3>2, <3>3
      <3>. QED  BY <1>4, <3>2, <3>3, <3>4, NotRefused, ThenAdds
    <2>2. CASE ~TargetReached(o)
      <3>1. y.out = o
        BY <2>2 DEF Ok
      <3>. HIDE DEF Rest, r
      <3>. QED  BY <1>3, <1>4, <3>1
    <2>. QED  BY <2>1, <2>2
  <1>. HIDE DEF First, Rest
  <1>. QED  BY <1>1, <1>2, <1>4

-------------------------------------------------------------------------------
(* The calls that write neither declarations nor messages.                 *)

\* A state that has the file of another, and no open chunk either.
LEMMA SameStream ==
    ASSUME NEW o, FileOK(o), NEW a, Kept(o, a),
           NEW p, p.file = a.file, p.chunk = a.chunk, p.faults = a.faults
    PROVE  Kept(o, p)
  <1>1. FileOK(p) /\ Stream(p) = Stream(a)
    BY DEF Kept, FileOK, Stream
  <1>. QED  BY <1>1 DEF Kept

\* The error outcomes, from states that keep the stream.
LEMMA IoErrorKept ==
    ASSUME NEW o, FileOK(o), NEW after,
           \A a \in after : Kept(o, a) /\ a.faults = o.faults /\ DOMAIN a = OutFields
    PROVE  \A x \in IoError(o, after) : Kept(o, x.out)
  BY IoErrorKeeps DEF Kept

\* start_attachment.
LEMMA BeginAttachmentKeeps ==
    ASSUME NEW o, StreamOK(o), FileOK(o), o.mode # "Dropped", finished \in BOOLEAN,
           opts \in OptionType, NEW length \in Nat
    PROVE  \A x \in BeginAttachment(o, length) :
             Kept(o, x.out) /\ (x.res = "Ok" => x.out.mode = "Attachment")
  <1>. SUFFICES ASSUME NEW x \in BeginAttachment(o, length)
                PROVE  Kept(o, x.out) /\ (x.res = "Ok" => x.out.mode = "Attachment")
    OBVIOUS
  <1>. DEFINE begun(y) == [y EXCEPT !.mode = "Attachment",
                                    !.att = [length |-> length, position |-> 0]]
              lost(y) == {[a EXCEPT !.mode = "None"] : a \in TornOr(y)}
  <1>1. \/ x \in FinishChunk(o) /\ x.res # "Ok"
        \/ \E y \in FinishChunk(o) :
             y.res = "Ok" /\ x \in Ok(begun(y.out)) \cup IoError(y.out, lost(y.out))
    BY DEF BeginAttachment, Then
  <1>2. CASE x \in FinishChunk(o) /\ x.res # "Ok"
    BY <1>2, FinishChunkKeeps DEF Keeps
  <1>3. ASSUME NEW y, StreamOK(y), FileOK(y), y.chunk = NoChunk,
               x \in Ok(begun(y)) \cup IoError(y, lost(y))
        PROVE  Kept(y, x.out) /\ (x.res = "Ok" => x.out.mode = "Attachment")
    <2>1. /\ begun(y).file = y.file /\ begun(y).chunk = y.chunk
          /\ begun(y).faults = y.faults /\ begun(y).mode = "Attachment"
      BY <1>3 DEF StreamOK, OutFields
    <2>2. \A b \in lost(y) : Kept(y, b) /\ b.faults = y.faults /\ DOMAIN b = OutFields
      <3>. SUFFICES ASSUME NEW a \in TornOr(y), NEW b, b = [a EXCEPT !.mode = "None"]
                    PROVE  Kept(y, b) /\ b.faults = y.faults /\ DOMAIN b = OutFields
        OBVIOUS
      <3>1. Kept(y, a) /\ a.faults = y.faults /\ DOMAIN a = OutFields
        BY <1>3, TornKeeps
      <3>2. /\ b.file = a.file /\ b.chunk = a.chunk /\ b.faults = a.faults
            /\ DOMAIN b = OutFields
        BY <3>1 DEF OutFields
      <3>. QED  BY <1>3, <3>1, <3>2, SameStream
    <2>. HIDE DEF begun, lost
    <2>3. \A z \in IoError(y, lost(y)) : Kept(y, z.out) /\ z.res # "Ok"
      BY <1>3, <2>2, IoErrorKeeps DEF Kept
    <2>4. \A z \in Ok(begun(y)) : Kept(y, z.out) /\ z.out.mode = "Attachment"
      BY <1>3, <2>1, KeptRefl, SameStream DEF Ok
    <2>. QED  BY <1>3, <2>3, <2>4
  <1>. HIDE DEF begun, lost
  <1>4. ASSUME NEW y \in FinishChunk(o), y.res = "Ok",
               x \in Ok(begun(y.out)) \cup IoError(y.out, lost(y.out))
        PROVE  Kept(o, x.out) /\ (x.res = "Ok" => x.out.mode = "Attachment")
    <2>1. StreamOK(y.out) /\ y.out.mode = "Raw"
      BY <1>4, FinishChunkOK DEF OutcomeOK
    <2>2. Kept(o, y.out) /\ FileOK(y.out) /\ y.out.chunk = NoChunk
      BY <2>1, FinishChunkKeeps DEF Keeps, Kept, StreamOK
    <2>3. Kept(y.out, x.out) /\ (x.res = "Ok" => x.out.mode = "Attachment")
      BY <1>3, <1>4, <2>1, <2>2
    <2>. QED  BY <2>2, <2>3, KeptTrans
  <1>. QED  BY <1>1, <1>2, <1>4

\* put_attachment_bytes.
LEMMA PutBytesKeeps ==
    ASSUME NEW o, StreamOK(o), FileOK(o), NEW n \in Nat
    PROVE  \A x \in PutBytes(o, n) : Kept(o, x.out) /\ x.out.mode = o.mode
  <1>0. Kept(o, o)
    BY KeptRefl
  <1>1. CASE o.mode # "Attachment" \/ NoSpace(o.att, n)
    <2>1. \E why : PutBytes(o, n) = Fails(o, why)
      BY <1>1 DEF PutBytes
    <2>. QED  BY <1>0, <2>1 DEF Fails
  <1>2. CASE o.mode = "Attachment" /\ ~NoSpace(o.att, n)
    <2>. DEFINE d(k) == [o EXCEPT !.att.position = @ + k]
                some == {d(k) : k \in 0..n}
    <2>1. PutBytes(o, n) = Ok(d(n)) \cup IoError(o, some)
      BY <1>2 DEF PutBytes
    <2>2. \A k \in 0..n : /\ d(k).file = o.file /\ d(k).chunk = o.chunk
                          /\ d(k).faults = o.faults /\ DOMAIN d(k) = OutFields
                          /\ d(k).mode = o.mode
      BY DEF StreamOK, OutFields
    <2>. HIDE DEF d
    <2>3. \A k \in 0..n : Kept(o, d(k))
      BY <1>0, <2>2, SameStream
    <2>4. \A a \in some : /\ Kept(o, a) /\ a.faults = o.faults
                          /\ DOMAIN a = OutFields /\ a.mode = o.mode
      BY <2>2, <2>3
    <2>. HIDE DEF some
    <2>5. \A x \in IoError(o, some) : Kept(o, x.out)
      BY <2>4, IoErrorKept
    <2>6. \A x \in IoError(o, some) : x.out.mode = o.mode
      BY <2>4 DEF IoError, OutFields
    <2>7. \A x \in Ok(d(n)) : Kept(o, x.out) /\ x.out.mode = o.mode
      BY <2>2, <2>3 DEF Ok
    <2>. QED  BY <2>1, <2>5, <2>6, <2>7
  <1>. QED  BY <1>1, <1>2

\* finish_attachment.
LEMMA EndAttachmentKeeps ==
    ASSUME NEW o, StreamOK(o), FileOK(o)
    PROVE  \A x \in EndAttachment(o) : Kept(o, x.out)
  <1>. DEFINE rec == [op |-> "Attachment", length |-> o.att.length]
              lost(r) == [Appended(o, <<r>>) EXCEPT !.mode = "None", !.att = NoAttachment]
              done == [Appended(o, <<rec>>) EXCEPT
                         !.mode = "Raw", !.att = NoAttachment,
                         !.attachment_count = @ + 1,
                         !.attachment_indexes =
                            IF opts.emit_attachment_indexes
                            THEN Append(@, [op |-> "AttachmentIndex",
                                            offset |-> Len(o.file) + 1,
                                            length |-> o.att.length])
                            ELSE @]
  <1>0. Kept(o, o)
    BY KeptRefl
  <1>1. CASE o.mode # "Attachment"
    <2>1. EndAttachment(o) = Fails(o, "AttachmentNotInProgress")
      BY <1>1 DEF EndAttachment
    <2>. QED  BY <1>0, <2>1 DEF Fails
  <1>2. CASE o.mode = "Attachment"
    <2>1. o.chunk = NoChunk
      BY <1>2 DEF StreamOK
    <2>2. rec.op \in PlainOps /\ ~Loud(rec)
      BY DEF PlainOps, DataOps, ChunkOps, Loud
    <2>3. EndAttachment(o) \subseteq
            Fails(lost(Torn), "AttachmentIncomplete")
              \cup Ok(done) \cup IoError(o, {lost(Torn), lost(rec)})
      BY <1>2 DEF EndAttachment
    <2>a. ASSUME NEW r, r.op \in PlainOps, ~Loud(r)
          PROVE  LET a == Appended(o, <<r>>)
                 IN Kept(o, a) /\ a.faults = o.faults /\ DOMAIN a = OutFields
      BY <2>1, <2>a, AppendedGrows, QuietGrew
    <2>4. ASSUME NEW r, r.op \in PlainOps, ~Loud(r)
          PROVE  Kept(o, lost(r)) /\ lost(r).faults = o.faults /\ DOMAIN lost(r) = OutFields
      <3>. DEFINE a == Appended(o, <<r>>)
      <3>1. Kept(o, a) /\ a.faults = o.faults /\ DOMAIN a = OutFields
        BY <2>4, <2>a
      <3>2. lost(r) = [a EXCEPT !.mode = "None", !.att = NoAttachment]
        OBVIOUS
      <3>. HIDE DEF a, lost
      <3>3. /\ lost(r).file = a.file /\ lost(r).chunk = a.chunk
            /\ lost(r).faults = a.faults /\ DOMAIN lost(r) = OutFields
        BY <3>1, <3>2 DEF OutFields
      <3>. QED  BY <3>1, <3>3, SameStream
    <2>5. Kept(o, done)
      <3>. DEFINE a == Appended(o, <<rec>>)
      <3>1. Kept(o, a) /\ a.faults = o.faults /\ DOMAIN a = OutFields
        BY <2>2, <2>a
      <3>2. \E count, indexes :
              done = [a EXCEPT !.mode = "Raw", !.att = NoAttachment,
                               !.attachment_count = count,
                               !.attachment_indexes = indexes]
        OBVIOUS
      <3>. HIDE DEF a, done
      <3>3. done.file = a.file /\ done.chunk = a.chunk /\ done.faults = a.faults
        BY <3>1, <3>2 DEF OutFields
      <3>. QED  BY <3>1, <3>3, SameStream
    <2>. HIDE DEF lost, done, rec
    <2>6. \A x \in IoError(o, {lost(Torn), lost(rec)}) : Kept(o, x.out)
      BY <2>2, <2>4, TornIsQuiet, IoErrorKept
    <2>7. \A x \in Fails(lost(Torn), "AttachmentIncomplete") \cup Ok(done) : Kept(o, x.out)
      BY <2>4, <2>5, TornIsQuiet DEF Fails, Ok
    <2>. QED  BY <2>3, <2>6, <2>7
  <1>. QED  BY <1>1, <1>2

\* write_metadata.
LEMMA PutMetadataKeeps ==
    ASSUME NEW o, StreamOK(o), FileOK(o), o.mode # "Dropped", finished \in BOOLEAN,
           opts \in OptionType
    PROVE  \A x \in PutMetadata(o) : Kept(o, x.out)
  <1>. SUFFICES ASSUME NEW x \in PutMetadata(o) PROVE Kept(o, x.out)
    OBVIOUS
  <1>. DEFINE written(y) == Appended(y, <<MetadataRec>>)
              counted(y) == [written(y) EXCEPT
                               !.metadata_count = @ + 1,
                               !.metadata_indexes =
                                  IF opts.emit_metadata_indexes
                                  THEN Append(@, [op |-> "MetadataIndex",
                                                  offset |-> Len(y.file) + 1])
                                  ELSE @]
  <1>1. \/ x \in FinishChunk(o) /\ x.res # "Ok"
        \/ \E y \in FinishChunk(o) :
             /\ y.res = "Ok"
             /\ x \in Ok(counted(y.out))
                        \cup IoError(y.out, TornOr(y.out) \cup {written(y.out)})
    BY DEF PutMetadata, Then
  <1>2. CASE x \in FinishChunk(o) /\ x.res # "Ok"
    BY <1>2, FinishChunkKeeps DEF Keeps
  <1>3. ASSUME NEW y, StreamOK(y), FileOK(y), y.chunk = NoChunk,
               x \in Ok(counted(y)) \cup IoError(y, TornOr(y) \cup {written(y)})
        PROVE  Kept(y, x.out)
    <2>1. MetadataRec.op \in PlainOps /\ ~Loud(MetadataRec)
      BY DEF MetadataRec, PlainOps, DataOps, ChunkOps, Loud
    <2>2. /\ Kept(y, written(y)) /\ written(y).faults = y.faults
          /\ DOMAIN written(y) = OutFields
      BY <1>3, <2>1, AppendedGrows, QuietGrew
    <2>3. \E count, indexes : counted(y) = [written(y) EXCEPT
              !.metadata_count = count, !.metadata_indexes = indexes]
      OBVIOUS
    <2>. HIDE DEF written, counted
    <2>4. /\ counted(y).file = written(y).file /\ counted(y).chunk = written(y).chunk
          /\ counted(y).faults = written(y).faults
      BY <2>2, <2>3 DEF OutFields
    <2>5. Kept(y, counted(y))
      BY <1>3, <2>2, <2>4, SameStream
    <2>6. \A a \in TornOr(y) \cup {written(y)} :
            Kept(y, a) /\ a.faults = y.faults /\ DOMAIN a = OutFields
      BY <1>3, <2>2, TornKeeps
    <2>7. \A z \in IoError(y, TornOr(y) \cup {written(y)}) : Kept(y, z.out)
      BY <1>3, <2>6, IoErrorKept
    <2>8. \A z \in Ok(counted(y)) : Kept(y, z.out)
      BY <2>5 DEF Ok
    <2>. QED  BY <1>3, <2>7, <2>8
  <1>. HIDE DEF written, counted
  <1>4. ASSUME NEW y \in FinishChunk(o), y.res = "Ok",
               x \in Ok(counted(y.out))
                       \cup IoError(y.out, TornOr(y.out) \cup {written(y.out)})
        PROVE  Kept(o, x.out)
    <2>1. StreamOK(y.out) /\ y.out.mode = "Raw"
      BY <1>4, FinishChunkOK DEF OutcomeOK
    <2>2. Kept(o, y.out) /\ FileOK(y.out) /\ y.out.chunk = NoChunk
      BY <2>1, FinishChunkKeeps DEF Keeps, Kept, StreamOK
    <2>3. Kept(y.out, x.out)
      BY <1>3, <1>4, <2>1, <2>2
    <2>. QED  BY <2>2, <2>3, KeptTrans
  <1>. QED  BY <1>1, <1>2, <1>4

-------------------------------------------------------------------------------
(* What the relations mean for ids.                                        *)

\* The content of an id does not change when ids are added.
LEMMA MeansExtends ==
    ASSUME NEW old, NEW new, Extends(old, new), NEW id, NEW c, Means(old, id, c)
    PROVE  Means(new, id, c)
  BY DEF Means, Extends

\* Declarations stay true when ids are added.
LEMMA FaithfulExtends ==
    ASSUME NEW s, NEW S, NEW K, NEW S2, NEW K2,
           Extends(S, S2), Extends(K, K2), Faithful(s, S, K)
    PROVE  Faithful(s, S2, K2)
  BY MeansExtends DEF Faithful

\* Keeping the declarations keeps them true.
LEMMA FaithfulWithin ==
    ASSUME NEW s, IsSeq(s), NEW t, IsSeq(t), Within(s, t), NEW S, NEW K, Faithful(s, S, K)
    PROVE  Faithful(t, S, K)
  <1>1. DOMAIN s = 1..Len(s) /\ DOMAIN t = 1..Len(t)
    BY IsSeqFacts
  <1>. SUFFICES ASSUME NEW q \in 1..Len(t), Loud(t[q])
                PROVE  /\ t[q].op = "Schema" => Means(S, t[q].id, t[q].content)
                       /\ t[q].op = "Channel" => Means(K, t[q].id, t[q].content)
    BY <1>1 DEF Faithful, ToSet, Loud
  <1>2. t[q] = s[q] /\ s[q] \in ToSet(s)
    BY <1>1 DEF Within, ToSet
  <1>. QED  BY <1>2 DEF Faithful

\* One more record, true to the registries.
LEMMA FaithfulGrown ==
    ASSUME NEW s, IsSeq(s), NEW t, IsSeq(t), NEW r, Grown(s, t, r),
           NEW S, NEW K, Faithful(s, S, K),
           r.op = "Schema" => Means(S, r.id, r.content),
           r.op = "Channel" => Means(K, r.id, r.content)
    PROVE  Faithful(t, S, K)
  <1>1. DOMAIN s = 1..Len(s) /\ DOMAIN t = 1..Len(t)
    BY IsSeqFacts
  <1>. SUFFICES ASSUME NEW q \in 1..Len(t), Loud(t[q])
                PROVE  /\ t[q].op = "Schema" => Means(S, t[q].id, t[q].content)
                       /\ t[q].op = "Channel" => Means(K, t[q].id, t[q].content)
    BY <1>1 DEF Faithful, ToSet, Loud
  <1>2. t[q] = r \/ (q \in 1..Len(s) /\ t[q] = s[q])
    BY DEF Grown
  <1>3. CASE t[q] = r
    BY <1>3
  <1>4. CASE q \in 1..Len(s) /\ t[q] = s[q]
    <2>1. s[q] \in ToSet(s)
      BY <1>1, <1>4 DEF ToSet
    <2>. QED  BY <1>4, <2>1 DEF Faithful
  <1>. QED  BY <1>2, <1>3, <1>4

\* A declaration in the first n records is one in more of them.
LEMMA DeclaresMonotone ==
    ASSUME NEW s, NEW t, Within(t, s), NEW n \in Nat, n <= Len(s), Len(s) \in Nat,
           NEW m \in Nat, n <= m,
           NEW op \in {"Schema", "Channel"}, NEW id, Declares(s, n, op, id)
    PROVE  Declares(t, m, op, id)
  <1>1. PICK q \in 1..n : s[q].op = op /\ s[q].id = id
    BY DEF Declares
  <1>2. q \in 1..Len(s) /\ q \in 1..m /\ Loud(s[q])
    BY <1>1 DEF Loud
  <1>3. s[q] = t[q]
    BY <1>2 DEF Within
  <1>. QED  BY <1>1, <1>2, <1>3 DEF Declares

\* What the record r needs to have before it.
NeedsMet(s, r) ==
    /\ r.op = "Message" => Declares(s, Len(s), "Channel", r.channel)
    /\ r.op = "Channel" /\ r.content.schema # 0
         => Declares(s, Len(s), "Schema", r.content.schema)

\* The records of s stay declared when the stream grows behind them.
LEMMA OldStayDeclared ==
    ASSUME NEW s, NEW t, Within(t, s), Len(s) \in Nat, DeclaredIn(s),
           NEW p \in 1..Len(s), t[p] = s[p]
    PROVE  /\ t[p].op = "Message" => Declares(t, p - 1, "Channel", t[p].channel)
           /\ t[p].op = "Channel" /\ t[p].content.schema # 0
                => Declares(t, p - 1, "Schema", t[p].content.schema)
  <1>1. p - 1 \in Nat /\ p - 1 <= Len(s)
    OBVIOUS
  <1>2. CASE t[p].op = "Message"
    <2>1. Declares(s, p - 1, "Channel", t[p].channel)
      BY <1>2 DEF DeclaredIn
    <2>. QED  BY <1>1, <1>2, <2>1, DeclaresMonotone
  <1>3. CASE t[p].op = "Channel" /\ t[p].content.schema # 0
    <2>1. Declares(s, p - 1, "Schema", t[p].content.schema)
      BY <1>3 DEF DeclaredIn
    <2>. QED  BY <1>1, <1>3, <2>1, DeclaresMonotone
  <1>. QED  BY <1>2, <1>3

\* Keeping all declarations and messages keeps them declared.
LEMMA DeclaredSame ==
    ASSUME NEW s, NEW t, Same(s, t), Len(s) \in Nat, Len(t) \in Nat, DeclaredIn(s)
    PROVE  DeclaredIn(t)
  <1>. SUFFICES ASSUME NEW p \in 1..Len(t), Loud(t[p])
                PROVE  /\ t[p].op = "Message" => Declares(t, p - 1, "Channel", t[p].channel)
                       /\ t[p].op = "Channel" /\ t[p].content.schema # 0
                            => Declares(t, p - 1, "Schema", t[p].content.schema)
    BY DEF DeclaredIn, Loud
  <1>1. p \in 1..Len(s) /\ t[p] = s[p] /\ Within(t, s)
    BY DEF Same, Within
  <1>. QED  BY <1>1, OldStayDeclared

\* One more record whose needs are met.
LEMMA DeclaredGrown ==
    ASSUME NEW s, NEW t, NEW r, Grown(s, t, r), Len(s) \in Nat, Len(t) \in Nat,
           DeclaredIn(s), NeedsMet(s, r)
    PROVE  DeclaredIn(t)
  <1>. SUFFICES ASSUME NEW p \in 1..Len(t), Loud(t[p])
                PROVE  /\ t[p].op = "Message" => Declares(t, p - 1, "Channel", t[p].channel)
                       /\ t[p].op = "Channel" /\ t[p].content.schema # 0
                            => Declares(t, p - 1, "Schema", t[p].content.schema)
    BY DEF DeclaredIn, Loud
  <1>1. PICK n \in 1..Len(t) :
          /\ n > Len(s) /\ t[n] = r
          /\ \A q \in 1..Len(t) : Loud(t[q]) /\ q # n => q \in 1..Len(s) /\ t[q] = s[q]
    BY DEF Grown
  <1>2. Within(t, s)
    BY DEF Grown
  <1>3. CASE p # n
    BY <1>1, <1>2, <1>3, OldStayDeclared
  <1>4. CASE p = n
    <2>1. Len(s) <= p - 1 /\ p - 1 \in Nat /\ Len(s) <= Len(s)
      BY <1>1, <1>4
    <2>2. t[p].op = "Message" => Declares(t, p - 1, "Channel", t[p].channel)
      BY <1>1, <1>2, <1>4, <2>1, DeclaresMonotone DEF NeedsMet
    <2>3. t[p].op = "Channel" /\ t[p].content.schema # 0
            => Declares(t, p - 1, "Schema", t[p].content.schema)
      BY <1>1, <1>2, <1>4, <2>1, DeclaresMonotone DEF NeedsMet
    <2>. QED  BY <2>2, <2>3
  <1>. QED  BY <1>3, <1>4

\* A beginning of the stream is declared in itself.
LEMMA DeclaredPrefix ==
    ASSUME NEW a, IsSeq(a), NEW b, IsSeq(b), DeclaredIn(a \o b)
    PROVE  DeclaredIn(a)
  <1>. DEFINE s == a \o b
  <1>1. /\ Len(a) \in Nat /\ Len(b) \in Nat /\ Len(s) = Len(a) + Len(b)
        /\ \A i \in 1..(Len(a) + Len(b)) :
             s[i] = IF i <= Len(a) THEN a[i] ELSE b[i - Len(a)]
    BY ConcatFacts, IsSeqFacts
  <1>2. \A i \in 1..Len(a) : i \in 1..Len(s) /\ s[i] = a[i]
    BY <1>1
  <1>. HIDE DEF s
  <1>3. \A p \in 1..Len(a) : \A q \in 1..(p - 1) : q \in 1..Len(a)
    BY <1>1
  <1>4. \A p \in 1..Len(a) : \A op, id : Declares(s, p - 1, op, id) => Declares(a, p - 1, op, id)
    BY <1>2, <1>3 DEF Declares
  <1>5. DeclaredIn(s)
    BY DEF s
  <1>. QED  BY <1>2, <1>4, <1>5 DEF DeclaredIn

\* Registered ids keep their declarations.
LEMMA AllDeclaredKept ==
    ASSUME NEW s, NEW t, Within(t, s), Len(s) <= Len(t), Len(s) \in Nat, Len(t) \in Nat,
           NEW S, NEW K, AllDeclared(s, S, K)
    PROVE  AllDeclared(t, S, K)
  <1>1. \A op \in {"Schema", "Channel"} : \A id :
          Declares(s, Len(s), op, id) => Declares(t, Len(t), op, id)
    BY DeclaresMonotone
  <1>. QED  BY <1>1 DEF AllDeclared

\* The record of a new id.
LEMMA NewDeclared ==
    ASSUME NEW s, NEW t, NEW r, Grown(s, t, r), Len(t) \in Nat
    PROVE  Declares(t, Len(t), r.op, r.id)
  BY DEF Grown, Declares

-------------------------------------------------------------------------------
(* What the relations mean for the bookkeeping.                            *)

\* The messages of a channel are finitely many.
LEMMA MessagesFinite ==
    ASSUME NEW s, Len(s) \in Nat, NEW c
    PROVE  IsFiniteSet(MessagesOn(s, c)) /\ Cardinality(MessagesOn(s, c)) \in Nat
  <1>1. IsFiniteSet(1..Len(s))
    BY FS_Interval
  <1>2. MessagesOn(s, c) \subseteq 1..Len(s)
    BY DEF MessagesOn
  <1>. QED  BY <1>1, <1>2, FS_Subset, FS_CardinalityType

\* Counts are numbers.
LEMMA CountIsNat ==
    ASSUME NEW b, BookOK(b), NEW c
    PROVE  CountOf(b.counts, c) \in Nat
  BY DEF BookOK, CountOf

\* Messages that stay, or are lost, are not missed by the bookkeeping.
LEMMA CountedWithin ==
    ASSUME NEW s, NEW t, Within(s, t), Len(s) \in Nat, Len(t) \in Nat,
           NEW b, BookOK(b), CountedIn(s, b)
    PROVE  CountedIn(t, b)
  <1>1. ASSUME NEW p \in 1..Len(t), t[p].op = "Message"
        PROVE  p \in 1..Len(s) /\ t[p] = s[p]
    BY <1>1 DEF Within, Loud
  <1>2. ASSUME NEW c PROVE Cardinality(MessagesOn(t, c)) <= CountOf(b.counts, c)
    <2>1. MessagesOn(t, c) \subseteq MessagesOn(s, c)
      BY <1>1 DEF MessagesOn
    <2>2. Cardinality(MessagesOn(t, c)) <= Cardinality(MessagesOn(s, c))
      BY <2>1, MessagesFinite, FS_Subset
    <2>3. /\ Cardinality(MessagesOn(t, c)) \in Nat /\ Cardinality(MessagesOn(s, c)) \in Nat
          /\ CountOf(b.counts, c) \in Nat
      BY MessagesFinite, CountIsNat
    <2>4. Cardinality(MessagesOn(s, c)) <= CountOf(b.counts, c)
      BY DEF CountedIn
    <2>. QED  BY <2>2, <2>3, <2>4
  <1>3. \A p \in 1..Len(t) : t[p].op = "Message" => InBounds(b.bounds, t[p].time)
    BY <1>1 DEF CountedIn
  <1>. QED  BY <1>2, <1>3 DEF CountedIn

\* The bounds of the messages with one more time.
LEMMA ExtendFacts ==
    ASSUME NEW b, b = <<>> \/ (\E lo, hi \in Nat : b = <<lo, hi>>), NEW t \in Nat
    PROVE  /\ \E lo, hi \in Nat : Extend(b, t) = <<lo, hi>>
           /\ InBounds(Extend(b, t), t)
           /\ \A u : InBounds(b, u) => InBounds(Extend(b, t), u)
  <1>1. CASE b = <<>>
    <2>1. Extend(b, t) = <<t, t>>
      BY <1>1 DEF Extend
    <2>2. \A u : ~InBounds(b, u)
      BY <1>1 DEF InBounds
    <2>. QED  BY <2>1, <2>2 DEF InBounds
  <1>2. ASSUME NEW lo \in Nat, NEW hi \in Nat, b = <<lo, hi>>
        PROVE  /\ \E l, h \in Nat : Extend(b, t) = <<l, h>>
               /\ InBounds(Extend(b, t), t)
               /\ \A u : InBounds(b, u) => InBounds(Extend(b, t), u)
    <2>. DEFINE l == Min({lo, t})
                h == Max({hi, t})
    <2>1. l \in Nat /\ l <= lo /\ l <= t
      <3>1. \E x \in {lo, t} : \A y \in {lo, t} : x <= y
        <4>1. CASE lo <= t
          BY <4>1
        <4>2. CASE t <= lo
          BY <4>2
        <4>. QED  BY <4>1, <4>2
      <3>2. l \in {lo, t} /\ \A y \in {lo, t} : l <= y
        BY <3>1 DEF Min
      <3>. HIDE DEF l
      <3>. QED  BY <3>2
    <2>2. h \in Nat /\ hi <= h /\ t <= h
      <3>1. \E x \in {hi, t} : \A y \in {hi, t} : x >= y
        <4>1. CASE hi >= t
          BY <4>1
        <4>2. CASE t >= hi
          BY <4>2
        <4>. QED  BY <4>1, <4>2
      <3>2. h \in {hi, t} /\ \A y \in {hi, t} : h >= y
        BY <3>1 DEF Max
      <3>. HIDE DEF h
      <3>. QED  BY <3>2
    <2>3. b # <<>> /\ b[1] = lo /\ b[2] = hi
      BY <1>2
    <2>4. Extend(b, t) = <<l, h>>
      BY <2>3 DEF Extend
    <2>. HIDE DEF l, h
    <2>5. InBounds(<<l, h>>, t)
      BY <2>1, <2>2 DEF InBounds
    <2>6. ASSUME NEW u, InBounds(b, u) PROVE InBounds(<<l, h>>, u)
      <3>1. u \in Nat /\ lo <= u /\ u <= hi
        BY <1>2, <2>6 DEF InBounds
      <3>2. l <= u /\ u <= h
        BY <2>1, <2>2, <3>1
      <3>. QED  BY <2>1, <2>2, <3>1, <3>2 DEF InBounds
    <2>. QED  BY <2>1, <2>2, <2>4, <2>5, <2>6
  <1>. QED  BY <1>1, <1>2

\* The bookkeeping with one more message, as write_to_known_channel does it.
CountedBook(b, id, t) ==
    [bounds |-> Extend(b.bounds, t),
     counts |-> Put(b.counts, id, CountOf(b.counts, id) + 1)]

\* It is good bookkeeping, and no count is smaller.
LEMMA CountedBookFacts ==
    ASSUME NEW b, BookOK(b), NEW id, NEW t \in Nat, NEW d, d = CountedBook(b, id, t)
    PROVE  /\ BookOK(d)
           /\ InBounds(d.bounds, t)
           /\ \A u : InBounds(b.bounds, u) => InBounds(d.bounds, u)
           /\ CountOf(d.counts, id) = CountOf(b.counts, id) + 1
           /\ \A c : c # id => CountOf(d.counts, c) = CountOf(b.counts, c)
  <1>. DEFINE more == CountOf(b.counts, id) + 1
  <1>1. /\ DOMAIN d = {"bounds", "counts"}
        /\ d.bounds = Extend(b.bounds, t) /\ d.counts = Put(b.counts, id, more)
    BY DEF CountedBook
  <1>2. more \in Nat
    BY CountIsNat
  <1>3. /\ DOMAIN d.counts = DOMAIN b.counts \cup {id} /\ d.counts[id] = more
        /\ \A c \in DOMAIN b.counts : c # id => d.counts[c] = b.counts[c]
    BY <1>1 DEF Put
  <1>4. /\ CountOf(d.counts, id) = more
        /\ \A c : c # id => CountOf(d.counts, c) = CountOf(b.counts, c)
    BY <1>3 DEF CountOf
  <1>5. b.bounds = <<>> \/ (\E lo, hi \in Nat : b.bounds = <<lo, hi>>)
    BY DEF BookOK
  <1>6. /\ \E lo, hi \in Nat : d.bounds = <<lo, hi>>
        /\ InBounds(d.bounds, t)
        /\ \A u : InBounds(b.bounds, u) => InBounds(d.bounds, u)
    <2>. DEFINE bb == b.bounds
    <2>1. bb = <<>> \/ (\E lo, hi \in Nat : bb = <<lo, hi>>)
      BY <1>5
    <2>. HIDE DEF bb
    <2>2. /\ \E lo, hi \in Nat : Extend(bb, t) = <<lo, hi>>
          /\ InBounds(Extend(bb, t), t)
          /\ \A u : InBounds(bb, u) => InBounds(Extend(bb, t), u)
      BY <2>1, ExtendFacts
    <2>. QED  BY <1>1, <2>2 DEF bb
  <1>7. \A c \in DOMAIN d.counts : d.counts[c] \in Nat
    BY <1>2, <1>3 DEF BookOK
  <1>8. BookOK(d)
    BY <1>1, <1>6, <1>7 DEF BookOK
  <1>. QED  BY <1>4, <1>6, <1>8

\* A message counted and written.
LEMMA CountedGrown ==
    ASSUME NEW s, NEW u, Len(s) \in Nat, Len(u) \in Nat,
           NEW b, BookOK(b), CountedIn(s, b), NEW id, NEW t \in Nat,
           Grown(s, u, MessageRec(id, t))
    PROVE  CountedIn(u, CountedBook(b, id, t))
  <1>. DEFINE d == CountedBook(b, id, t)
              r == MessageRec(id, t)
  <1>d. d = CountedBook(b, id, t)
    OBVIOUS
  <1>. HIDE DEF d
  <1>0. r.op = "Message" /\ r.channel = id /\ r.time = t
    BY DEF MessageRec
  <1>1. PICK n \in 1..Len(u) :
          /\ n > Len(s) /\ u[n] = r
          /\ \A q \in 1..Len(u) : Loud(u[q]) /\ q # n => q \in 1..Len(s) /\ u[q] = s[q]
    BY DEF Grown
  <1>2. /\ BookOK(d)
        /\ InBounds(d.bounds, t)
        /\ \A w : InBounds(b.bounds, w) => InBounds(d.bounds, w)
        /\ CountOf(d.counts, id) = CountOf(b.counts, id) + 1
        /\ \A c : c # id => CountOf(d.counts, c) = CountOf(b.counts, c)
    BY <1>d, CountedBookFacts
  <1>. HIDE DEF r
  <1>3. ASSUME NEW q \in 1..Len(u), u[q].op = "Message", q # n
        PROVE  q \in 1..Len(s) /\ u[q] = s[q]
    BY <1>1, <1>3 DEF Loud
  <1>4. ASSUME NEW p \in 1..Len(u), u[p].op = "Message"
        PROVE  InBounds(d.bounds, u[p].time)
    <2>1. CASE p = n
      BY <1>0, <1>1, <1>2, <2>1
    <2>2. CASE p # n
      BY <1>2, <1>3, <1>4, <2>2 DEF CountedIn
    <2>. QED  BY <2>1, <2>2
  <1>5. ASSUME NEW c PROVE Cardinality(MessagesOn(u, c)) <= CountOf(d.counts, c)
    <2>0. /\ IsFiniteSet(MessagesOn(s, c)) /\ IsFiniteSet(MessagesOn(u, c))
          /\ Cardinality(MessagesOn(s, c)) \in Nat /\ Cardinality(MessagesOn(u, c)) \in Nat
          /\ CountOf(b.counts, c) \in Nat
          /\ Cardinality(MessagesOn(s, c)) <= CountOf(b.counts, c)
      BY MessagesFinite, CountIsNat DEF CountedIn
    <2>1. CASE c = id
      <3>1. MessagesOn(u, c) \subseteq MessagesOn(s, c) \cup {n}
        BY <1>3 DEF MessagesOn
      <3>2. n \notin MessagesOn(s, c)
        BY <1>1 DEF MessagesOn
      <3>3. /\ IsFiniteSet(MessagesOn(s, c) \cup {n})
            /\ Cardinality(MessagesOn(s, c) \cup {n}) = Cardinality(MessagesOn(s, c)) + 1
        BY <2>0, <3>2, FS_AddElement
      <3>4. Cardinality(MessagesOn(u, c)) <= Cardinality(MessagesOn(s, c)) + 1
        BY <3>1, <3>3, FS_Subset
      <3>. QED  BY <1>2, <2>0, <2>1, <3>4
    <2>2. CASE c # id
      <3>1. MessagesOn(u, c) \subseteq MessagesOn(s, c)
        BY <1>0, <1>1, <1>3, <2>2 DEF MessagesOn
      <3>2. Cardinality(MessagesOn(u, c)) <= Cardinality(MessagesOn(s, c))
        BY <2>0, <3>1, FS_Subset
      <3>. QED  BY <1>2, <2>0, <2>2, <3>2
    <2>. QED  BY <2>1, <2>2
  <1>6. CountedIn(u, d)
    BY <1>4, <1>5 DEF CountedIn
  <1>. QED  BY <1>6 DEF d

\* A message counted and not written.
LEMMA CountedMore ==
    ASSUME NEW s, Len(s) \in Nat, NEW b, BookOK(b), CountedIn(s, b),
           NEW id, NEW t \in Nat
    PROVE  CountedIn(s, CountedBook(b, id, t))
  <1>. DEFINE d == CountedBook(b, id, t)
  <1>d. d = CountedBook(b, id, t)
    OBVIOUS
  <1>. HIDE DEF d
  <1>1. /\ \A w : InBounds(b.bounds, w) => InBounds(d.bounds, w)
        /\ CountOf(d.counts, id) = CountOf(b.counts, id) + 1
        /\ \A c : c # id => CountOf(d.counts, c) = CountOf(b.counts, c)
    BY <1>d, CountedBookFacts
  <1>2. ASSUME NEW c PROVE Cardinality(MessagesOn(s, c)) <= CountOf(d.counts, c)
    <2>1. /\ Cardinality(MessagesOn(s, c)) \in Nat /\ CountOf(b.counts, c) \in Nat
          /\ Cardinality(MessagesOn(s, c)) <= CountOf(b.counts, c)
      BY MessagesFinite, CountIsNat DEF CountedIn
    <2>2. CountOf(d.counts, c) = CountOf(b.counts, c)
          \/ CountOf(d.counts, c) = CountOf(b.counts, c) + 1
      BY <1>1
    <2>. QED  BY <2>1, <2>2
  <1>3. CountedIn(s, d)
    BY <1>1, <1>2 DEF CountedIn
  <1>. QED  BY <1>3 DEF d

\* A record that is not a message.
LEMMA CountedOther ==
    ASSUME NEW s, NEW u, Len(s) \in Nat, Len(u) \in Nat,
           NEW b, BookOK(b), CountedIn(s, b), NEW r, Grown(s, u, r), r.op # "Message"
    PROVE  CountedIn(u, b)
  <1>1. ASSUME NEW p \in 1..Len(u), u[p].op = "Message"
        PROVE  p \in 1..Len(s) /\ u[p] = s[p]
    BY <1>1 DEF Grown, Loud
  <1>2. ASSUME NEW c PROVE Cardinality(MessagesOn(u, c)) <= CountOf(b.counts, c)
    <2>1. MessagesOn(u, c) \subseteq MessagesOn(s, c)
      BY <1>1 DEF MessagesOn
    <2>2. Cardinality(MessagesOn(u, c)) <= Cardinality(MessagesOn(s, c))
      BY <2>1, MessagesFinite, FS_Subset
    <2>3. /\ Cardinality(MessagesOn(u, c)) \in Nat /\ Cardinality(MessagesOn(s, c)) \in Nat
          /\ CountOf(b.counts, c) \in Nat
      BY MessagesFinite, CountIsNat
    <2>4. Cardinality(MessagesOn(s, c)) <= CountOf(b.counts, c)
      BY DEF CountedIn
    <2>. QED  BY <2>2, <2>3, <2>4
  <1>3. \A p \in 1..Len(u) : u[p].op = "Message" => InBounds(b.bounds, u[p].time)
    BY <1>1 DEF CountedIn
  <1>. QED  BY <1>2, <1>3 DEF CountedIn

-------------------------------------------------------------------------------
(* What the relations mean for the invariant.                              *)

\* The stream is kept and the registries stay.
LEMMA OpenKept ==
    ASSUME NEW o, NEW S, NEW K, NEW b, OpenInv(o, S, K, b),
           NEW p, Kept(o, p), p.mode \in Live => o.mode \in Live
    PROVE  OpenInv(p, S, K, b)
  <1>. DEFINE s == Stream(o)
              t == Stream(p)
  <1>1. FileOK(o) /\ FileOK(p) /\ BookOK(b) /\ o.faults <= p.faults
    BY DEF OpenInv, Kept
  <1>2. /\ IsSeq(s) /\ IsSeq(t) /\ Len(s) \in Nat /\ Len(t) \in Nat
        /\ o.faults \in Nat /\ p.faults \in Nat
    BY <1>1, StreamFacts
  <1>3. Within(s, t) /\ (p.faults = o.faults => Same(s, t))
    BY DEF Kept
  <1>4. /\ Faithful(s, S, K) /\ CountedIn(s, b)
        /\ Undisturbed /\ o.faults = 0 => DeclaredIn(s)
        /\ Undisturbed /\ o.faults = 0 /\ o.mode \in Live => AllDeclared(s, S, K)
    BY DEF OpenInv
  <1>5. p.faults = 0 => o.faults = 0 /\ Same(s, t)
    BY <1>1, <1>2, <1>3
  <1>. HIDE DEF s, t
  <1>6. Faithful(t, S, K)
    BY <1>2, <1>3, <1>4, FaithfulWithin
  <1>7. CountedIn(t, b)
    BY <1>1, <1>2, <1>3, <1>4, CountedWithin
  <1>8. Undisturbed /\ p.faults = 0 => DeclaredIn(t)
    BY <1>2, <1>4, <1>5, DeclaredSame
  <1>9. Undisturbed /\ p.faults = 0 /\ p.mode \in Live => AllDeclared(t, S, K)
    BY <1>2, <1>4, <1>5, AllDeclaredKept DEF Same
  <1>. QED  BY <1>1, <1>6, <1>7, <1>8, <1>9 DEF OpenInv, s, t

\* A call that failed with an I/O error, its id registered all the same.
LEMMA OpenFailed ==
    ASSUME NEW o, NEW S, NEW K, NEW b, OpenInv(o, S, K, b),
           NEW p, Kept(o, p), p.faults > o.faults,
           NEW S2, NEW K2, Extends(S, S2), Extends(K, K2)
    PROVE  OpenInv(p, S2, K2, b)
  <1>. DEFINE s == Stream(o)
              t == Stream(p)
  <1>1. FileOK(o) /\ FileOK(p) /\ BookOK(b)
    BY DEF OpenInv, Kept
  <1>2. /\ IsSeq(s) /\ IsSeq(t) /\ Len(s) \in Nat /\ Len(t) \in Nat
        /\ o.faults \in Nat /\ p.faults \in Nat
    BY <1>1, StreamFacts
  <1>3. Within(s, t) /\ p.faults # 0
    BY <1>2 DEF Kept
  <1>4. Faithful(s, S, K) /\ CountedIn(s, b)
    BY DEF OpenInv
  <1>. HIDE DEF s, t
  <1>5. Faithful(t, S2, K2)
    BY <1>2, <1>3, <1>4, FaithfulWithin, FaithfulExtends
  <1>6. CountedIn(t, b)
    BY <1>1, <1>2, <1>3, <1>4, CountedWithin
  <1>. QED  BY <1>1, <1>3, <1>5, <1>6 DEF OpenInv, s, t

\* A call that was refused, its id registered all the same.
LEMMA OpenRefused ==
    ASSUME NEW o, NEW S, NEW K, NEW b, OpenInv(o, S, K, b),
           NEW S2, NEW K2, Extends(S, S2), Extends(K, K2),
           Undisturbed => o.mode \notin Live
    PROVE  OpenInv(o, S2, K2, b)
  BY FaithfulExtends DEF OpenInv

\* The same ids.
LEMMA OpenSameIds ==
    ASSUME NEW o, NEW S, NEW K, NEW b, OpenInv(o, S, K, b),
           NEW S2, NEW K2, Extends(S, S2), Extends(K, K2),
           DOMAIN S2.all = DOMAIN S.all, DOMAIN K2.all = DOMAIN K.all
    PROVE  OpenInv(o, S2, K2, b)
  <1>1. Faithful(Stream(o), S2, K2)
    BY FaithfulExtends DEF OpenInv
  <1>2. AllDeclared(Stream(o), S, K) => AllDeclared(Stream(o), S2, K2)
    BY DEF AllDeclared
  <1>. QED  BY <1>1, <1>2 DEF OpenInv

\* A message is counted before it is written.
LEMMA OpenCounted ==
    ASSUME NEW o, NEW S, NEW K, NEW b, OpenInv(o, S, K, b), NEW id, NEW t \in Nat
    PROVE  OpenInv(o, S, K, CountedBook(b, id, t))
  <1>. DEFINE s == Stream(o)
              d == CountedBook(b, id, t)
  <1>1. FileOK(o) /\ BookOK(b) /\ CountedIn(s, b)
    BY DEF OpenInv
  <1>2. Len(s) \in Nat
    BY <1>1, StreamFacts
  <1>3. BookOK(d)
    BY <1>1, CountedBookFacts
  <1>. HIDE DEF s
  <1>4. CountedIn(s, d)
    BY <1>1, <1>2, CountedMore
  <1>. HIDE DEF d
  <1>. QED  BY <1>3, <1>4 DEF OpenInv, s, d

\* A schema record for the id that was bound.
LEMMA OpenSchema ==
    ASSUME NEW o, NEW S, NEW K, NEW b, OpenInv(o, S, K, b), o.mode \in Live,
           NEW id, NEW c, NEW S2, Extends(S, S2), Binds(S, S2, id, c),
           NEW p, Grew(o, p, SchemaRec(id, c))
    PROVE  OpenInv(p, S2, K, b)
  <1>. DEFINE s == Stream(o)
              t == Stream(p)
              r == SchemaRec(id, c)
  <1>0. r.op = "Schema" /\ r.id = id /\ r.content = c
    BY DEF SchemaRec
  <1>1. /\ FileOK(o) /\ FileOK(p) /\ BookOK(b) /\ p.faults = o.faults /\ Grown(s, t, r)
        /\ Faithful(s, S, K) /\ CountedIn(s, b)
        /\ Undisturbed /\ p.faults = 0 => DeclaredIn(s) /\ AllDeclared(s, S, K)
    BY DEF OpenInv, Grew
  <1>. HIDE DEF r
  <1>2. IsSeq(s) /\ IsSeq(t) /\ Len(s) \in Nat /\ Len(t) \in Nat
    BY <1>1, StreamFacts
  <1>. HIDE DEF s, t
  <1>3. Extends(K, K)
    BY DEF Extends
  <1>4. Faithful(s, S2, K)
    BY <1>1, <1>3, FaithfulExtends
  <1>5. Faithful(t, S2, K)
    BY <1>0, <1>1, <1>2, <1>4, FaithfulGrown DEF Binds
  <1>6. CountedIn(t, b)
    BY <1>0, <1>1, <1>2, CountedOther
  <1>7. Undisturbed /\ p.faults = 0 => DeclaredIn(t)
    <2>1. NeedsMet(s, r)
      BY <1>0 DEF NeedsMet
    <2>. QED  BY <1>1, <1>2, <2>1, DeclaredGrown
  <1>8. Undisturbed /\ p.faults = 0 => AllDeclared(t, S2, K)
    <2>1. AllDeclared(s, S, K) => AllDeclared(t, S, K)
      BY <1>1, <1>2, AllDeclaredKept DEF Grown
    <2>2. Declares(t, Len(t), "Schema", id)
      BY <1>0, <1>1, <1>2, NewDeclared
    <2>. QED  BY <1>1, <2>1, <2>2 DEF AllDeclared, Binds
  <1>. QED  BY <1>1, <1>5, <1>6, <1>7, <1>8 DEF OpenInv, s, t

\* A channel record, whose schema has its declaration already.
LEMMA OpenChannel ==
    ASSUME NEW o, NEW S, NEW K, NEW b, OpenInv(o, S, K, b), o.mode \in Live,
           NEW id, NEW c, NEW K2, Extends(K, K2), Binds(K, K2, id, c),
           c.schema = 0 \/ c.schema \in DOMAIN S.all,
           NEW p, Grew(o, p, ChannelRec(id, c))
    PROVE  OpenInv(p, S, K2, b)
  <1>. DEFINE s == Stream(o)
              t == Stream(p)
              r == ChannelRec(id, c)
  <1>0. r.op = "Channel" /\ r.id = id /\ r.content = c
    BY DEF ChannelRec
  <1>1. /\ FileOK(o) /\ FileOK(p) /\ BookOK(b) /\ p.faults = o.faults /\ Grown(s, t, r)
        /\ Faithful(s, S, K) /\ CountedIn(s, b)
        /\ Undisturbed /\ p.faults = 0 => DeclaredIn(s) /\ AllDeclared(s, S, K)
    BY DEF OpenInv, Grew
  <1>. HIDE DEF r
  <1>2. IsSeq(s) /\ IsSeq(t) /\ Len(s) \in Nat /\ Len(t) \in Nat
    BY <1>1, StreamFacts
  <1>. HIDE DEF s, t
  <1>3. Extends(S, S)
    BY DEF Extends
  <1>4. Faithful(s, S, K2)
    BY <1>1, <1>3, FaithfulExtends
  <1>5. Faithful(t, S, K2)
    BY <1>0, <1>1, <1>2, <1>4, FaithfulGrown DEF Binds
  <1>6. CountedIn(t, b)
    BY <1>0, <1>1, <1>2, CountedOther
  <1>7. Undisturbed /\ p.faults = 0 => DeclaredIn(t)
    <2>1. AllDeclared(s, S, K) => NeedsMet(s, r)
      BY <1>0 DEF NeedsMet, AllDeclared
    <2>. QED  BY <1>1, <1>2, <2>1, DeclaredGrown
  <1>8. Undisturbed /\ p.faults = 0 => AllDeclared(t, S, K2)
    <2>1. AllDeclared(s, S, K) => AllDeclared(t, S, K)
      BY <1>1, <1>2, AllDeclaredKept DEF Grown
    <2>2. Declares(t, Len(t), "Channel", id)
      BY <1>0, <1>1, <1>2, NewDeclared
    <2>. QED  BY <1>1, <2>1, <2>2 DEF AllDeclared, Binds
  <1>. QED  BY <1>1, <1>5, <1>6, <1>7, <1>8 DEF OpenInv, s, t

\* A message of a channel that is known.
LEMMA OpenMessage ==
    ASSUME NEW o, NEW S, NEW K, NEW b, OpenInv(o, S, K, b), o.mode \in Live,
           NEW id \in DOMAIN K.all, NEW t \in Nat, NEW p, Grew(o, p, MessageRec(id, t))
    PROVE  OpenInv(p, S, K, CountedBook(b, id, t))
  <1>. DEFINE s == Stream(o)
              u == Stream(p)
              r == MessageRec(id, t)
              d == CountedBook(b, id, t)
  <1>0. r.op = "Message" /\ r.channel = id
    BY DEF MessageRec
  <1>1. /\ FileOK(o) /\ FileOK(p) /\ BookOK(b) /\ p.faults = o.faults /\ Grown(s, u, r)
        /\ Faithful(s, S, K) /\ CountedIn(s, b)
        /\ Undisturbed /\ p.faults = 0 => DeclaredIn(s) /\ AllDeclared(s, S, K)
    BY DEF OpenInv, Grew
  <1>2. IsSeq(s) /\ IsSeq(u) /\ Len(s) \in Nat /\ Len(u) \in Nat
    BY <1>1, StreamFacts
  <1>. HIDE DEF s, u
  <1>3. BookOK(d) /\ CountedIn(u, d)
    BY <1>1, <1>2, CountedGrown, CountedBookFacts
  <1>. HIDE DEF d, r
  <1>5. Faithful(u, S, K)
    BY <1>0, <1>1, <1>2, FaithfulGrown
  <1>7. Undisturbed /\ p.faults = 0 => DeclaredIn(u)
    <2>1. AllDeclared(s, S, K) => NeedsMet(s, r)
      BY <1>0 DEF NeedsMet, AllDeclared
    <2>. QED  BY <1>1, <1>2, <2>1, DeclaredGrown
  <1>8. Undisturbed /\ p.faults = 0 => AllDeclared(u, S, K)
    BY <1>1, <1>2, AllDeclaredKept DEF Grown
  <1>. QED  BY <1>1, <1>3, <1>5, <1>7, <1>8 DEF OpenInv, s, u, d

-------------------------------------------------------------------------------
(* The calls that register ids or write messages, on a writer that accepts *)
(* records.                                                                *)

\* The writer is not finished and its stream is free.
Accepts ==
    /\ Inv
    /\ OpenInv(out, schemas, channels, book)
    /\ ~finished
    /\ out.mode \in {"Raw", "Chunk"}

\* The fields a helper relies on.
Ready(o) == StreamOK(o) /\ FileOK(o) /\ o.mode \in {"Raw", "Chunk"}

\* What Accepts gives to the helpers.
LEMMA AcceptsFacts ==
    ASSUME Accepts
    PROVE  /\ StreamOK(out) /\ FileOK(out) /\ out.mode # "Dropped" /\ out.mode \in Live
           /\ finished \in BOOLEAN /\ opts \in OptionType /\ Ready(out)
           /\ RegistryType(schemas, SchemaContents) /\ RegistryConsistent(schemas)
           /\ RegistryType(channels, ChannelContents) /\ RegistryConsistent(channels)
           /\ OpenInv(out, schemas, channels, book)
  BY DEF Accepts, Inv, RegistriesOK, RegistriesConsistent, OpenInv, Live, Ready

\* On a writer that accepts records only an I/O error excuses a failure.
LEMMA OnlyIoFails ==
    ASSUME NEW o, ~finished, Ready(o), NEW x, NEW r, Adds(o, x, r), x.res # "Ok"
    PROVE  Kept(o, x.out) /\ x.out.faults > o.faults
  BY NotRefused DEF Adds, Excused, Ready

\* A registry extends itself.
LEMMA ExtendsRefl == ASSUME NEW reg PROVE Extends(reg, reg)
  BY DEF Extends

\* After a record the stream is still free.
LEMMA ReadyAfterRecord ==
    ASSUME NEW o, Ready(o), finished \in BOOLEAN, opts \in OptionType,
           NEW r, r.op \in ChunkOps, NEW x \in WriteRecord(o, r), x.res = "Ok"
    PROVE  Ready(x.out)
  <1>1. StreamOK(o) /\ FileOK(o) /\ o.mode # "Dropped"
    BY DEF Ready
  <1>2. StreamOK(x.out) /\ FileOK(x.out)
    BY <1>1, WriteRecordOK, WriteRecordAdds DEF OutcomeOK, Adds, Grew
  <1>3. CASE opts.use_chunks
    <2>1. PICK y \in StartChunk(o) : y.res = "Ok" /\ x \in AppendChunk(y.out, r)
      <3>1. \/ x \in StartChunk(o) /\ x.res # "Ok"
            \/ \E y \in StartChunk(o) : y.res = "Ok" /\ x \in AppendChunk(y.out, r)
        BY <1>3 DEF WriteRecord, Then
      <3>. QED  BY <3>1
    <2>2. StreamOK(y.out) /\ y.out.mode = "Chunk"
      BY <1>1, <1>3, <2>1, StartChunkOK DEF OutcomeOK
    <2>3. x.out.mode = "Chunk"
      BY <2>1, <2>2, AppendChunkOK
    <2>. QED  BY <1>2, <2>3 DEF Ready
  <1>4. CASE ~opts.use_chunks
    <2>1. PICK y \in FinishChunk(o) : y.res = "Ok" /\ x \in AppendRaw(y.out, r)
      <3>1. \/ x \in FinishChunk(o) /\ x.res # "Ok"
            \/ \E y \in FinishChunk(o) : y.res = "Ok" /\ x \in AppendRaw(y.out, r)
        BY <1>4 DEF WriteRecord, Then
      <3>. QED  BY <3>1
    <2>2. StreamOK(y.out) /\ y.out.mode = "Raw"
      BY <1>1, <2>1, FinishChunkOK DEF OutcomeOK
    <2>3. x.out.mode = "Raw"
      BY <2>1, <2>2, AppendRawOK
    <2>. QED  BY <1>2, <2>3 DEF Ready
  <1>. QED  BY <1>3, <1>4

\* The records of ids and messages go where a chunk takes them.
LEMMA RecordOps ==
    /\ \A id, c : SchemaRec(id, c).op \in ChunkOps /\ ChannelRec(id, c).op \in ChunkOps
    /\ \A id, t : MessageRec(id, t).op \in ChunkOps
  BY DEF SchemaRec, ChannelRec, MessageRec, ChunkOps

\* add_schema.
LEMMA AddSchemaOpen ==
    ASSUME Accepts, NEW content \in SchemaContents, AddSchema(content)
    PROVE  OpenInv(out', schemas', channels', book')
  <1>. DEFINE a == Add(schemas, content)
              rec == SchemaRec(a.id, content)
  <1>0. /\ StreamOK(out) /\ FileOK(out) /\ out.mode # "Dropped" /\ out.mode \in Live
        /\ finished \in BOOLEAN /\ opts \in OptionType /\ Ready(out) /\ ~finished
        /\ RegistryType(schemas, SchemaContents) /\ RegistryConsistent(schemas)
        /\ OpenInv(out, schemas, channels, book)
    BY AcceptsFacts DEF Accepts
  <1>1. /\ a.verdict \in {"known", "TooMany", "panic_overflow", "new"}
        /\ Extends(schemas, a.reg)
    BY <1>0, AddConsistent
  <1>2. /\ schemas' = a.reg /\ UNCHANGED <<channels, book>>
        /\ \/ a.verdict # "new" /\ out' = out
           \/ a.verdict = "new" /\ \E x \in WriteRecord(out, rec) : out' = x.out
    BY DEF AddSchema
  <1>3. a.verdict = "new" => Binds(schemas, a.reg, a.id, content)
    BY <1>0, AddBinds
  <1>4. a.verdict # "new" => DOMAIN a.reg.all = DOMAIN schemas.all
    BY <1>0, <1>1, NothingBound
  <1>5. Extends(channels, channels)
    BY ExtendsRefl
  <1>6. \A x \in WriteRecord(out, rec) : Adds(out, x, rec)
    BY <1>0, RecordOps, WriteRecordAdds
  <1>. HIDE DEF a
  <1>7. CASE a.verdict # "new" /\ out' = out
    <2>1. OpenInv(out, a.reg, channels, book)
      BY <1>0, <1>1, <1>4, <1>5, <1>7, OpenSameIds
    <2>. QED  BY <1>2, <1>7, <2>1
  <1>8. ASSUME a.verdict = "new", NEW x \in WriteRecord(out, rec), out' = x.out
        PROVE  OpenInv(out', schemas', channels', book')
    <2>1. CASE x.res = "Ok"
      <3>1. Grew(out, x.out, rec)
        BY <1>6, <1>8, <2>1 DEF Adds
      <3>2. OpenInv(x.out, a.reg, channels, book)
        BY <1>0, <1>1, <1>3, <1>8, <3>1, OpenSchema
      <3>. QED  BY <1>2, <1>8, <3>2
    <2>2. CASE x.res # "Ok"
      <3>1. Kept(out, x.out) /\ x.out.faults > out.faults
        BY <1>0, <1>6, <1>8, <2>2, OnlyIoFails
      <3>2. OpenInv(x.out, a.reg, channels, book)
        BY <1>0, <1>1, <1>5, <3>1, OpenFailed
      <3>. QED  BY <1>2, <1>8, <3>2
    <2>. QED  BY <2>1, <2>2
  <1>. QED  BY <1>2, <1>7, <1>8

\* add_channel: the schema it names is registered, so it has been declared.
LEMMA AddChannelOpen ==
    ASSUME Accepts, NEW schemaId \in Ids, NEW topic \in Topics, AddChannel(schemaId, topic)
    PROVE  OpenInv(out', schemas', channels', book')
  <1>. DEFINE content == ChannelContent(schemaId, topic)
              a == Add(channels, content)
              rec == ChannelRec(a.id, content)
  <1>0. /\ StreamOK(out) /\ FileOK(out) /\ out.mode # "Dropped" /\ out.mode \in Live
        /\ finished \in BOOLEAN /\ opts \in OptionType /\ Ready(out) /\ ~finished
        /\ RegistryType(channels, ChannelContents) /\ RegistryConsistent(channels)
        /\ OpenInv(out, schemas, channels, book)
    BY AcceptsFacts DEF Accepts
  <1>c. content \in ChannelContents /\ content.schema = schemaId
    BY DEF ChannelContent, ChannelContents
  <1>1. /\ a.verdict \in {"known", "TooMany", "panic_overflow", "new"}
        /\ Extends(channels, a.reg)
        /\ a.verdict = "new" => content \notin DOMAIN channels.canonical
    <2>1. a.verdict = "new" => content \notin DOMAIN channels.canonical
      BY DEF Add
    <2>. QED  BY <1>0, <1>c, <2>1, AddConsistent
  <1>2. /\ UNCHANGED <<schemas, book>>
        /\ \/ out' = out /\ channels' = channels
           \/ a.verdict # "new" /\ out' = out /\ channels' = a.reg
           \/ /\ a.verdict = "new" /\ channels' = a.reg
              /\ schemaId = 0 \/ schemaId \in DOMAIN schemas.all
              /\ \E x \in WriteRecord(out, rec) : out' = x.out
    BY <1>1 DEF AddChannel
  <1>3. a.verdict = "new" => Binds(channels, a.reg, a.id, content)
    BY <1>0, <1>c, AddBinds
  <1>4. a.verdict # "new" => DOMAIN a.reg.all = DOMAIN channels.all
    BY <1>0, <1>1, NothingBound
  <1>5. Extends(schemas, schemas)
    BY ExtendsRefl
  <1>6. \A x \in WriteRecord(out, rec) : Adds(out, x, rec)
    BY <1>0, RecordOps, WriteRecordAdds
  <1>. HIDE DEF a, content
  <1>7. CASE out' = out /\ channels' = channels
    BY <1>0, <1>2, <1>7
  <1>8. CASE a.verdict # "new" /\ out' = out /\ channels' = a.reg
    <2>1. OpenInv(out, schemas, a.reg, book)
      BY <1>0, <1>1, <1>4, <1>5, <1>8, OpenSameIds
    <2>. QED  BY <1>2, <1>8, <2>1
  <1>9. ASSUME a.verdict = "new", channels' = a.reg,
               schemaId = 0 \/ schemaId \in DOMAIN schemas.all,
               NEW x \in WriteRecord(out, rec), out' = x.out
        PROVE  OpenInv(out', schemas', channels', book')
    <2>1. CASE x.res = "Ok"
      <3>1. Grew(out, x.out, rec)
        BY <1>6, <1>9, <2>1 DEF Adds
      <3>2. OpenInv(x.out, schemas, a.reg, book)
        BY <1>0, <1>1, <1>3, <1>c, <1>9, <3>1, OpenChannel
      <3>. QED  BY <1>2, <1>9, <3>2
    <2>2. CASE x.res # "Ok"
      <3>1. Kept(out, x.out) /\ x.out.faults > out.faults
        BY <1>0, <1>6, <1>9, <2>2, OnlyIoFails
      <3>2. OpenInv(x.out, schemas, a.reg, book)
        BY <1>0, <1>1, <1>5, <3>1, OpenFailed
      <3>. QED  BY <1>2, <1>9, <3>2
    <2>. QED  BY <2>1, <2>2
  <1>. QED  BY <1>2, <1>7, <1>8, <1>9

\* The message half of write_to_known_channel.
LEMMA MessageOpen ==
    ASSUME NEW o, NEW S, NEW K, NEW b, OpenInv(o, S, K, b), Ready(o),
           ~finished, finished \in BOOLEAN, opts \in OptionType,
           NEW id \in DOMAIN K.all, NEW t \in Nat, NEW x \in WriteMessage(o, id, t)
    PROVE  OpenInv(x.out, S, K, CountedBook(b, id, t))
  <1>0. StreamOK(o) /\ FileOK(o) /\ o.mode # "Dropped" /\ o.mode \in Live
    BY DEF Ready, Live
  <1>1. Adds(o, x, MessageRec(id, t))
    BY <1>0, WriteMessageAdds
  <1>2. CASE x.res = "Ok"
    <2>1. Grew(o, x.out, MessageRec(id, t))
      BY <1>1, <1>2 DEF Adds
    <2>. QED  BY <1>0, <2>1, OpenMessage
  <1>3. CASE x.res # "Ok"
    <2>1. Kept(o, x.out) /\ x.out.faults > o.faults
      BY <1>1, <1>3, OnlyIoFails
    <2>2. OpenInv(x.out, S, K, b)
      BY <2>1, ExtendsRefl, OpenFailed
    <2>. QED  BY <2>2, OpenCounted
  <1>. QED  BY <1>2, <1>3

\* The bookkeeping of a call.
LEMMA CountedIsBook == \A id, t : Counted(id, t) = CountedBook(book, id, t)
  BY DEF Counted, CountedBook

\* write_to_known_channel.
LEMMA WriteToKnownChannelOpen ==
    ASSUME Accepts, NEW id, NEW t \in Nat, WriteToKnownChannel(id, t)
    PROVE  OpenInv(out', schemas', channels', book')
  <1>0. /\ Ready(out) /\ ~finished /\ finished \in BOOLEAN /\ opts \in OptionType
        /\ OpenInv(out, schemas, channels, book)
    BY AcceptsFacts DEF Accepts
  <1>1. /\ UNCHANGED <<schemas, channels>>
        /\ \/ out' = out /\ book' = book
           \/ /\ id \in DOMAIN channels.all /\ book' = CountedBook(book, id, t)
              /\ \E x \in WriteMessage(out, id, t) : out' = x.out
    BY CountedIsBook DEF WriteToKnownChannel, CountAndWrite
  <1>2. CASE out' = out /\ book' = book
    BY <1>0, <1>1, <1>2
  <1>3. ASSUME id \in DOMAIN channels.all, book' = CountedBook(book, id, t),
               NEW x \in WriteMessage(out, id, t), out' = x.out
        PROVE  OpenInv(out', schemas', channels', book')
    <2>1. OpenInv(x.out, schemas, channels, CountedBook(book, id, t))
      BY <1>0, <1>3, MessageOpen
    <2>. QED  BY <1>1, <1>3, <2>1
  <1>. QED  BY <1>1, <1>2, <1>3

\* write(), from its channel on.
LEMMA WriteChannelOpen ==
    ASSUME RegistryType(channels, ChannelContents), RegistryConsistent(channels),
           NEW o, NEW S, OpenInv(o, S, channels, book), Ready(o),
           ~finished, finished \in BOOLEAN, opts \in OptionType,
           NEW id \in Ids, NEW content \in ChannelContents,
           content.schema = 0 \/ content.schema \in DOMAIN S.all,
           NEW t \in Nat, WriteChannelAndMessage(o, id, content, t)
    PROVE  OpenInv(out', S, channels', book')
  <1>. DEFINE c == RegisterAs(channels, id, content)
              rec == ChannelRec(id, content)
  <1>0. StreamOK(o) /\ FileOK(o) /\ o.mode # "Dropped" /\ o.mode \in Live
    BY DEF Ready, Live
  <1>1. /\ Extends(channels, c.reg)
        /\ c.verdict \in {"known", "new"} => id \in DOMAIN c.reg.all
    BY RegisterAsConsistent
  <1>2. /\ c.verdict = "new" => Binds(channels, c.reg, id, content)
        /\ c.verdict # "new" => c.reg = channels
    BY RegisterAsBinds, NothingBound
  <1>3. \/ out' = o /\ channels' = channels /\ book' = book
        \/ /\ c.verdict \in {"known", "new"} /\ channels' = c.reg
           /\ \E x \in Writes(o, c, rec) :
                \/ x.res # "Ok" /\ out' = x.out /\ book' = book
                \/ /\ x.res = "Ok" /\ book' = CountedBook(book, id, t)
                   /\ \E y \in WriteMessage(x.out, id, t) : out' = y.out
    BY CountedIsBook DEF WriteChannelAndMessage, CountAndWrite, Accepted
  <1>4. CASE out' = o /\ channels' = channels /\ book' = book
    BY <1>4
  <1>. HIDE DEF c
  <1>5. ASSUME c.verdict \in {"known", "new"}, NEW x \in Writes(o, c, rec), x.res = "Ok"
        PROVE  OpenInv(x.out, S, c.reg, book) /\ Ready(x.out)
    <2>1. CASE c.verdict = "new"
      <3>1. x \in WriteRecord(o, rec)
        BY <1>5, <2>1 DEF Writes
      <3>2. Grew(o, x.out, rec) /\ Ready(x.out)
        BY <1>0, <1>5, <3>1, RecordOps, WriteRecordAdds, ReadyAfterRecord DEF Adds
      <3>3. OpenInv(x.out, S, c.reg, book)
        BY <1>0, <1>1, <1>2, <2>1, <3>2, OpenChannel
      <3>. QED  BY <3>2, <3>3
    <2>2. CASE c.verdict # "new"
      <3>1. x.out = o
        BY <1>5, <2>2 DEF Writes, Ok
      <3>. QED  BY <1>2, <2>2, <3>1
    <2>. QED  BY <2>1, <2>2
  <1>6. ASSUME c.verdict \in {"known", "new"}, NEW x \in Writes(o, c, rec), x.res # "Ok"
        PROVE  OpenInv(x.out, S, c.reg, book)
    <2>1. x \in WriteRecord(o, rec)
      BY <1>6 DEF Writes, Ok
    <2>2. Adds(o, x, rec)
      BY <1>0, <2>1, RecordOps, WriteRecordAdds
    <2>3. Kept(o, x.out) /\ x.out.faults > o.faults
      BY <1>6, <2>2, OnlyIoFails
    <2>. QED  BY <1>1, <2>3, ExtendsRefl, OpenFailed
  <1>7. ASSUME c.verdict \in {"known", "new"}, channels' = c.reg,
               NEW x \in Writes(o, c, rec),
               \/ x.res # "Ok" /\ out' = x.out /\ book' = book
               \/ /\ x.res = "Ok" /\ book' = CountedBook(book, id, t)
                  /\ \E y \in WriteMessage(x.out, id, t) : out' = y.out
        PROVE  OpenInv(out', S, channels', book')
    <2>1. CASE x.res # "Ok" /\ out' = x.out /\ book' = book
      BY <1>6, <1>7, <2>1
    <2>2. ASSUME x.res = "Ok", book' = CountedBook(book, id, t),
                 NEW y \in WriteMessage(x.out, id, t), out' = y.out
          PROVE  OpenInv(out', S, channels', book')
      <3>1. OpenInv(x.out, S, c.reg, book) /\ Ready(x.out)
        BY <1>5, <1>7, <2>2
      <3>2. id \in DOMAIN c.reg.all
        BY <1>1, <1>7
      <3>3. OpenInv(y.out, S, c.reg, CountedBook(book, id, t))
        BY <2>2, <3>1, <3>2, MessageOpen
      <3>. QED  BY <1>7, <2>2, <3>3
    <2>. QED  BY <1>7, <2>1, <2>2
  <1>. QED  BY <1>3, <1>4, <1>7

\* write().
LEMMA WriteOpen ==
    ASSUME Accepts, NEW id \in Ids, NEW topic \in Topics, NEW schemaId \in Ids,
           NEW schema \in SchemaContents \cup {NoSchema}, NEW t \in Nat,
           Write(id, topic, schemaId, schema, t)
    PROVE  OpenInv(out', schemas', channels', book')
  <1>. DEFINE s == IF schema = NoSchema
                   THEN [reg |-> schemas, verdict |-> "known", id |-> 0]
                   ELSE RegisterAs(schemas, schemaId, schema)
              sid == IF schema = NoSchema THEN 0 ELSE schemaId
              content == ChannelContent(sid, topic)
              rec == SchemaRec(schemaId, schema)
  <1>0. /\ StreamOK(out) /\ FileOK(out) /\ out.mode # "Dropped" /\ out.mode \in Live
        /\ finished \in BOOLEAN /\ opts \in OptionType /\ Ready(out) /\ ~finished
        /\ RegistryType(schemas, SchemaContents) /\ RegistryConsistent(schemas)
        /\ RegistryType(channels, ChannelContents) /\ RegistryConsistent(channels)
        /\ OpenInv(out, schemas, channels, book)
    BY AcceptsFacts DEF Accepts
  <1>1. /\ Extends(schemas, s.reg)
        /\ s.verdict \in {"known", "new"} => sid = 0 \/ sid \in DOMAIN s.reg.all
        /\ s.verdict = "new" => Binds(schemas, s.reg, schemaId, schema)
        /\ s.verdict # "new" => s.reg = schemas
    <2>1. CASE schema = NoSchema
      BY <2>1, ExtendsRefl
    <2>2. CASE schema # NoSchema
      <3>1. schema \in SchemaContents /\ s = RegisterAs(schemas, schemaId, schema) /\ sid = schemaId
        BY <2>2
      <3>2. /\ Extends(schemas, RegisterAs(schemas, schemaId, schema).reg)
            /\ RegisterAs(schemas, schemaId, schema).verdict \in {"known", "new"}
                 => schemaId \in DOMAIN RegisterAs(schemas, schemaId, schema).reg.all
        BY <1>0, <3>1, RegisterAsConsistent
      <3>3. /\ RegisterAs(schemas, schemaId, schema).verdict = "new"
                 => Binds(schemas, RegisterAs(schemas, schemaId, schema).reg, schemaId, schema)
            /\ RegisterAs(schemas, schemaId, schema).verdict # "new"
                 => RegisterAs(schemas, schemaId, schema).reg = schemas
        BY <1>0, <3>1, RegisterAsBinds, NothingBound
      <3>. HIDE DEF s, sid
      <3>. QED  BY <3>1, <3>2, <3>3
    <2>. QED  BY <2>1, <2>2
  <1>2. content \in ChannelContents /\ content.schema = sid
    <2>1. sid \in Ids
      BY MaxIdAssumption DEF Ids
    <2>. QED  BY <2>1 DEF ChannelContent, ChannelContents
  <1>3. /\ schemas' = s.reg
        /\ \/ s.verdict \notin {"known", "new"} /\ out' = out /\ channels' = channels /\ book' = book
           \/ /\ s.verdict \in {"known", "new"}
              /\ \E x \in Writes(out, s, rec) :
                   \/ x.res # "Ok" /\ out' = x.out /\ channels' = channels /\ book' = book
                   \/ x.res = "Ok" /\ WriteChannelAndMessage(x.out, id, content, t)
    BY DEF Write, Accepted
  <1>. HIDE DEF s, content, sid
  <1>4. CASE s.verdict \notin {"known", "new"} /\ out' = out /\ channels' = channels /\ book' = book
    BY <1>0, <1>1, <1>3, <1>4
  <1>5. ASSUME s.verdict \in {"known", "new"}, NEW x \in Writes(out, s, rec),
               \/ x.res # "Ok" /\ out' = x.out /\ channels' = channels /\ book' = book
               \/ x.res = "Ok" /\ WriteChannelAndMessage(x.out, id, content, t)
        PROVE  OpenInv(out', s.reg, channels', book')
    <2>1. CASE x.res # "Ok" /\ out' = x.out /\ channels' = channels /\ book' = book
      <3>1. x \in WriteRecord(out, rec)
        BY <2>1 DEF Writes, Ok
      <3>2. Adds(out, x, rec)
        BY <1>0, <3>1, RecordOps, WriteRecordAdds
      <3>3. Kept(out, x.out) /\ x.out.faults > out.faults
        BY <1>0, <2>1, <3>2, OnlyIoFails
      <3>4. OpenInv(x.out, s.reg, channels, book)
        BY <1>0, <1>1, <3>3, ExtendsRefl, OpenFailed
      <3>. QED  BY <2>1, <3>4
    <2>2. CASE x.res = "Ok" /\ WriteChannelAndMessage(x.out, id, content, t)
      <3>1. OpenInv(x.out, s.reg, channels, book) /\ Ready(x.out)
        <4>1. CASE s.verdict = "new"
          <5>1. x \in WriteRecord(out, rec)
            BY <4>1 DEF Writes
          <5>2. Grew(out, x.out, rec) /\ Ready(x.out)
            BY <1>0, <2>2, <5>1, RecordOps, WriteRecordAdds, ReadyAfterRecord DEF Adds
          <5>3. OpenInv(x.out, s.reg, channels, book)
            BY <1>0, <1>1, <4>1, <5>2, OpenSchema
          <5>. QED  BY <5>2, <5>3
        <4>2. CASE s.verdict # "new"
          <5>1. x.out = out
            BY <4>2 DEF Writes, Ok
          <5>. QED  BY <1>0, <1>1, <4>2, <5>1
        <4>. QED  BY <4>1, <4>2
      <3>2. content.schema = 0 \/ content.schema \in DOMAIN s.reg.all
        BY <1>1, <1>2, <1>5
      <3>. QED  BY <1>0, <1>2, <2>2, <3>1, <3>2, WriteChannelOpen
    <2>. QED  BY <1>5, <2>1, <2>2
  <1>. QED  BY <1>3, <1>4, <1>5

-------------------------------------------------------------------------------
(* The calls that only touch the stream.                                   *)

\* The stream is kept, whatever the outcome.
LEMMA StreamCallOpen ==
    ASSUME OpenInv(out, schemas, channels, book),
           NEW call, NEW outcomes, StreamCall(call, outcomes),
           \A x \in outcomes : Kept(out, x.out) /\ (x.out.mode \in Live => out.mode \in Live)
    PROVE  OpenInv(out', schemas', channels', book')
  <1>1. PICK x \in outcomes : out' = x.out
    BY DEF StreamCall
  <1>2. OpenInv(x.out, schemas, channels, book)
    BY <1>1, OpenKept
  <1>. QED  BY <1>1, <1>2 DEF StreamCall

\* write_private_record.
LEMMA PrivateOpen ==
    ASSUME Accepts, NEW reserved \in BOOLEAN, NEW inChunks \in BOOLEAN,
           WritePrivateRecord(reserved, inChunks)
    PROVE  OpenInv(out', schemas', channels', book')
  <1>. DEFINE inChunk == Then(StartChunk(out), LAMBDA x : AppendChunk(x, PrivateRec))
              inFile == Then(FinishChunk(out), LAMBDA x : AppendRaw(x, PrivateRec))
  <1>0. /\ StreamOK(out) /\ FileOK(out) /\ out.mode # "Dropped" /\ out.mode \in Live
        /\ finished \in BOOLEAN /\ opts \in OptionType
        /\ OpenInv(out, schemas, channels, book)
    BY AcceptsFacts
  <1>1. PrivateRec.op \in ChunkOps /\ PrivateRec.op \in PlainOps /\ ~Loud(PrivateRec)
    BY DEF PrivateRec, ChunkOps, PlainOps, DataOps, Loud
  <1>2. opts.use_chunks => \A x \in inChunk : Kept(out, x.out)
    BY <1>0, <1>1, RecordInChunk, AddsKept
  <1>3. \A x \in inFile : Kept(out, x.out)
    BY <1>0, <1>1, RecordInFile, AddsKept
  <1>4. \A x \in Fails(out, "PrivateRecordOpcodeIsReserved") : Kept(out, x.out)
    BY <1>0, KeptRefl DEF Fails
  <1>5. \/ StreamCall("write_private_record", Fails(out, "PrivateRecordOpcodeIsReserved"))
        \/ opts.use_chunks /\ StreamCall("write_private_record", inChunk)
        \/ StreamCall("write_private_record", inFile)
    BY DEF WritePrivateRecord
  <1>. HIDE DEF inChunk, inFile
  <1>. QED  BY <1>0, <1>2, <1>3, <1>4, <1>5, StreamCallOpen

\* start_attachment.
LEMMA StartAttachmentOpen ==
    ASSUME Accepts, NEW n \in Nat, StartAttachment(n)
    PROVE  OpenInv(out', schemas', channels', book')
  <1>0. /\ StreamOK(out) /\ FileOK(out) /\ out.mode # "Dropped" /\ out.mode \in Live
        /\ finished \in BOOLEAN /\ opts \in OptionType
        /\ OpenInv(out, schemas, channels, book)
    BY AcceptsFacts
  <1>1. \A x \in BeginAttachment(out, n) : Kept(out, x.out)
    BY <1>0, BeginAttachmentKeeps
  <1>. QED  BY <1>0, <1>1, StreamCallOpen DEF StartAttachment

\* attach().
LEMMA AttachOpen ==
    ASSUME Accepts, NEW n \in Nat, Attach(n)
    PROVE  OpenInv(out', schemas', channels', book')
  <1>. DEFINE all == Then(BeginAttachment(out, n),
                          LAMBDA x : Then(PutBytes(x, n), LAMBDA y : EndAttachment(y)))
  <1>0. /\ StreamOK(out) /\ FileOK(out) /\ out.mode # "Dropped" /\ out.mode \in Live
        /\ finished \in BOOLEAN /\ opts \in OptionType
        /\ OpenInv(out, schemas, channels, book)
    BY AcceptsFacts
  <1>1. ASSUME NEW z \in all PROVE Kept(out, z.out)
    <2>1. \/ z \in BeginAttachment(out, n)
          \/ \E x \in BeginAttachment(out, n) :
               \/ z \in PutBytes(x.out, n)
               \/ \E y \in PutBytes(x.out, n) : z \in EndAttachment(y.out)
      BY <1>1 DEF Then
    <2>2. CASE z \in BeginAttachment(out, n)
      BY <1>0, <2>2, BeginAttachmentKeeps
    <2>3. ASSUME NEW x \in BeginAttachment(out, n)
          PROVE  StreamOK(x.out) /\ Kept(out, x.out) /\ FileOK(x.out)
      BY <1>0, BeginAttachmentOK, BeginAttachmentKeeps DEF OutcomeOK, Kept
    <2>4. ASSUME NEW x \in BeginAttachment(out, n), NEW y \in PutBytes(x.out, n)
          PROVE  StreamOK(y.out) /\ Kept(out, y.out) /\ FileOK(y.out)
      <3>1. StreamOK(x.out) /\ Kept(out, x.out) /\ FileOK(x.out)
        BY <2>3, <2>4
      <3>2. StreamOK(y.out) /\ Kept(x.out, y.out) /\ FileOK(y.out)
        BY <2>4, <3>1, PutBytesOK, PutBytesKeeps DEF OutcomeOK, Kept
      <3>. QED  BY <1>0, <3>1, <3>2, KeptTrans
    <2>5. ASSUME NEW x \in BeginAttachment(out, n), NEW y \in PutBytes(x.out, n),
                 z \in EndAttachment(y.out)
          PROVE  Kept(out, z.out)
      <3>1. StreamOK(y.out) /\ Kept(out, y.out) /\ FileOK(y.out)
        BY <2>4, <2>5
      <3>2. Kept(y.out, z.out)
        BY <2>5, <3>1, EndAttachmentKeeps
      <3>. QED  BY <1>0, <3>1, <3>2, KeptTrans
    <2>. QED  BY <2>1, <2>2, <2>4, <2>5
  <1>2. StreamCall("attach", all)
    BY DEF Attach
  <1>. HIDE DEF all
  <1>. QED  BY <1>0, <1>1, <1>2, StreamCallOpen

\* put_attachment_bytes and finish_attachment, in any mode.
LEMMA AttachmentOpen ==
    ASSUME Inv, OpenInv(out, schemas, channels, book), NEW n \in Nat,
           PutAttachmentBytes(n) \/ FinishAttachment
    PROVE  OpenInv(out', schemas', channels', book')
  <1>0. StreamOK(out) /\ FileOK(out)
    BY DEF Inv, OpenInv
  <1>1. CASE PutAttachmentBytes(n)
    <2>1. \A x \in PutBytes(out, n) : Kept(out, x.out) /\ x.out.mode = out.mode
      BY <1>0, PutBytesKeeps
    <2>. QED  BY <1>1, <2>1, StreamCallOpen DEF PutAttachmentBytes
  <1>2. CASE FinishAttachment
    <2>1. \A x \in EndAttachment(out) : Kept(out, x.out)
      BY <1>0, EndAttachmentKeeps
    <2>2. CASE out.mode = "Attachment"
      BY <1>2, <2>1, <2>2, StreamCallOpen DEF FinishAttachment, Live
    <2>3. CASE out.mode # "Attachment"
      <3>1. \A x \in EndAttachment(out) : x.out = out
        BY <2>3 DEF EndAttachment, Fails
      <3>. QED  BY <1>2, <2>1, <3>1, StreamCallOpen DEF FinishAttachment
    <2>. QED  BY <2>2, <2>3
  <1>. QED  BY <1>1, <1>2

\* write_metadata.
LEMMA MetadataOpen ==
    ASSUME Accepts, WriteMetadata
    PROVE  OpenInv(out', schemas', channels', book')
  <1>0. /\ StreamOK(out) /\ FileOK(out) /\ out.mode # "Dropped" /\ out.mode \in Live
        /\ finished \in BOOLEAN /\ opts \in OptionType
        /\ OpenInv(out, schemas, channels, book)
    BY AcceptsFacts
  <1>1. \A x \in PutMetadata(out) : Kept(out, x.out)
    BY <1>0, PutMetadataKeeps
  <1>. QED  BY <1>0, <1>1, StreamCallOpen DEF WriteMetadata

\* Any outcome of flushing the stream itself.
LEMMA FlushKeeps ==
    ASSUME NEW y, StreamOK(y), FileOK(y), NEW x \in Ok(y) \cup IoError(y, {y})
    PROVE  Kept(y, x.out)
  <1>1. Kept(y, y) /\ DOMAIN y = OutFields
    BY KeptRefl DEF StreamOK
  <1>2. CASE x \in Ok(y)
    BY <1>1, <1>2 DEF Ok
  <1>3. CASE x \in IoError(y, {y})
    BY <1>1, <1>3, IoErrorKept
  <1>. QED  BY <1>2, <1>3

\* flush().
LEMMA FlushOpen ==
    ASSUME Accepts, Flush
    PROVE  OpenInv(out', schemas', channels', book')
  <1>. DEFINE outcomes == Then(FinishChunk(out), LAMBDA x : Ok(x) \cup IoError(x, {x}))
  <1>0. /\ StreamOK(out) /\ FileOK(out) /\ out.mode # "Dropped" /\ out.mode \in Live
        /\ finished \in BOOLEAN /\ opts \in OptionType
        /\ OpenInv(out, schemas, channels, book)
    BY AcceptsFacts
  <1>1. StreamCall("flush", outcomes)
    BY DEF Flush
  <1>2. ASSUME NEW y \in FinishChunk(out)
        PROVE  StreamOK(y.out) /\ Kept(out, y.out) /\ FileOK(y.out)
    <2>1. StreamOK(y.out)
      BY <1>0, <1>2, FinishChunkOK DEF OutcomeOK
    <2>2. Kept(out, y.out)
      BY <1>0, <1>2, FinishChunkKeeps DEF Keeps
    <2>. QED  BY <2>1, <2>2 DEF Kept
  <1>3. ASSUME NEW z \in outcomes PROVE Kept(out, z.out)
    <2>1. \/ z \in FinishChunk(out)
          \/ \E y \in FinishChunk(out) : z \in Ok(y.out) \cup IoError(y.out, {y.out})
      BY <1>3 DEF Then
    <2>2. ASSUME NEW y, StreamOK(y), Kept(out, y), FileOK(y),
                 z \in Ok(y) \cup IoError(y, {y})
          PROVE  Kept(out, z.out)
      <3>1. Kept(y, z.out)
        BY <2>2, FlushKeeps
      <3>. QED  BY <1>0, <2>2, <3>1, KeptTrans
    <2>. QED  BY <1>2, <2>1, <2>2
  <1>. HIDE DEF outcomes
  <1>. QED  BY <1>0, <1>1, <1>3, StreamCallOpen

-------------------------------------------------------------------------------
(* Every step of a writer that is not finished afterwards.                 *)

\* The calls that touch the stream alone.
StreamCalls ==
    \/ \E reserved, inChunks \in BOOLEAN : WritePrivateRecord(reserved, inChunks)
    \/ \E n \in 0..MaxAttachment : StartAttachment(n)
    \/ \E n \in 0..MaxAttachment : Attach(n)
    \/ WriteMetadata
    \/ Flush

\* They are, with what they may leave of the stream.
LEMMA StreamSteps ==
    ASSUME StreamCalls
    PROVE  \E call, outcomes : call \notin AttachmentCalls /\ StreamCall(call, outcomes)
  <1>. DEFINE Is(call) == call \notin AttachmentCalls /\ \E outcomes : StreamCall(call, outcomes)
  <1>1. ASSUME NEW reserved, NEW inChunks, WritePrivateRecord(reserved, inChunks)
        PROVE  Is("write_private_record")
    BY <1>1, Zenon DEF WritePrivateRecord, AttachmentCalls
  <1>2. ASSUME NEW n, StartAttachment(n) PROVE Is("start_attachment")
    BY <1>2 DEF StartAttachment, AttachmentCalls
  <1>3. ASSUME NEW n, Attach(n) PROVE Is("attach")
    BY <1>3, Zenon DEF Attach, AttachmentCalls
  <1>4. CASE WriteMetadata
    <2>1. Is("write_metadata")
      BY <1>4 DEF WriteMetadata, AttachmentCalls
    <2>. QED  BY <2>1
  <1>5. CASE Flush
    <2>1. Is("flush")
      BY <1>5, Zenon DEF Flush, AttachmentCalls
    <2>. QED  BY <2>1
  <1>6. StreamCalls => (\E call : Is(call)) \/ WriteMetadata \/ Flush
    <2>. HIDE DEF Is
    <2>. QED  BY <1>1, <1>2, <1>3 DEF StreamCalls
  <1>. QED  BY <1>4, <1>5, <1>6

\* What a step does to the bookkeeping.
LEMMA BookStep ==
    ASSUME [Next]_vars
    PROVE  \/ book' = book
           \/ \E id : \E t \in Nat : book' = CountedBook(book, id, t)
           \/ finished' /\ TakeCounts
  <1>. DEFINE Done == \/ book' = book
                      \/ \E id : \E t \in Nat : book' = CountedBook(book, id, t)
                      \/ finished' /\ TakeCounts
  <1>. SUFFICES Done
    OBVIOUS
  <1>1. ASSUME NEW call, NEW o, NEW id, NEW t \in Times, CountAndWrite(call, o, id, t)
        PROVE  Done
    <2>1. book' = CountedBook(book, id, t) /\ t \in Nat
      BY <1>1, CountedIsBook, WriterAssumption DEF CountAndWrite
    <2>. QED  BY <2>1
  <1>2. ASSUME NEW c \in SchemaContents, AddSchema(c) PROVE Done
    BY <1>2 DEF AddSchema
  <1>3. ASSUME NEW s \in CallerIds \cup {0}, NEW p \in Topics, AddChannel(s, p) PROVE Done
    BY <1>3 DEF AddChannel
  <1>4. ASSUME NEW i \in CallerIds, NEW t \in Times, WriteToKnownChannel(i, t) PROVE Done
    <2>1. book' = book \/ CountAndWrite("write_to_known_channel", out, i, t)
      BY <1>4 DEF WriteToKnownChannel
    <2>. QED  BY <1>1, <2>1
  <1>5. ASSUME NEW i \in CallerIds, NEW s \in CallerIds, NEW p \in Topics,
               NEW c \in SchemaContents \cup {NoSchema}, NEW t \in Times,
               Write(i, p, s, c, t)
        PROVE  Done
    <2>1. ASSUME NEW o, NEW content, WriteChannelAndMessage(o, i, content, t)
          PROVE  book' = book \/ \E x : CountAndWrite("write", x, i, t)
      BY <2>1 DEF WriteChannelAndMessage
    <2>2. book' = book \/ \E o, content : WriteChannelAndMessage(o, i, content, t)
      BY <1>5 DEF Write
    <2>. QED  BY <1>1, <2>1, <2>2
  <1>6. ASSUME NEW call, NEW outcomes, StreamCall(call, outcomes) PROVE Done
    BY <1>6 DEF StreamCall
  <1>7. CASE Finish \/ IntoInner \/ Drop
    BY <1>7 DEF Finish, IntoInner, Drop
  <1>8. CASE UNCHANGED vars
    BY <1>8 DEF vars
  <1>. HIDE DEF Done
  <1>9. CASE StreamCalls
    BY <1>6, <1>9, StreamSteps
  <1>10. CASE FinishAttachment \/ \E n \in 1..MaxAttachment : PutAttachmentBytes(n)
    BY <1>6, <1>10 DEF FinishAttachment, PutAttachmentBytes
  <1>. QED  BY <1>2, <1>3, <1>4, <1>5, <1>7, <1>8, <1>9, <1>10 DEF Next, StreamCalls

\* The bookkeeping stays well formed.
LEMMA BookStaysOK ==
    ASSUME BookOK(book), [Next]_vars
    PROVE  BookOK(book')
  <1>1. CASE \E id : \E t \in Nat : book' = CountedBook(book, id, t)
    BY <1>1, CountedBookFacts
  <1>2. CASE TakeCounts
    <2>. DEFINE none == [i \in {} |-> 0]
    <2>1. book' = [book EXCEPT !.counts = none]
      BY <1>2 DEF TakeCounts
    <2>2. DOMAIN none = {}
      OBVIOUS
    <2>. HIDE DEF none
    <2>3. DOMAIN book' = DOMAIN book /\ book'.bounds = book.bounds /\ book'.counts = none
      BY <2>1 DEF BookOK
    <2>. QED  BY <2>2, <2>3 DEF BookOK
  <1>. QED  BY <1>1, <1>2, BookStep

\* A writer that is gone takes no call.
LEMMA NotDropped ==
    ASSUME Next
    PROVE  out.mode # "Dropped"
  <1>. DEFINE There == out.mode # "Dropped"
  <1>. SUFFICES There
    OBVIOUS
  <1>1. ASSUME NEW call, Calls(call) PROVE There
    BY <1>1 DEF Calls
  <1>2. CASE Drop
    BY <1>2 DEF Drop
  <1>. HIDE DEF There
  <1>3. ASSUME NEW c, AddSchema(c) PROVE There
    BY <1>1, <1>3 DEF AddSchema
  <1>4. ASSUME NEW s, NEW p, AddChannel(s, p) PROVE There
    BY <1>1, <1>4 DEF AddChannel
  <1>5. ASSUME NEW i, NEW t, WriteToKnownChannel(i, t) PROVE There
    BY <1>1, <1>5 DEF WriteToKnownChannel
  <1>6. ASSUME NEW i, NEW p, NEW s, NEW c, NEW t, Write(i, p, s, c, t) PROVE There
    BY <1>1, <1>6 DEF Write
  <1>7. ASSUME NEW call, NEW outcomes, StreamCall(call, outcomes) PROVE There
    BY <1>1, <1>7 DEF StreamCall
  <1>8. CASE Finish \/ IntoInner
    <2>1. Calls("finish") \/ Calls("into_inner")
      BY <1>8, Zenon DEF Finish, IntoInner
    <2>. QED  BY <1>1, <2>1
  <1>9. CASE StreamCalls
    BY <1>7, <1>9, StreamSteps
  <1>10. CASE FinishAttachment \/ \E n \in 1..MaxAttachment : PutAttachmentBytes(n)
    BY <1>7, <1>10 DEF FinishAttachment, PutAttachmentBytes
  <1>. QED  BY <1>2, <1>3, <1>4, <1>5, <1>6, <1>8, <1>9, <1>10 DEF Next, StreamCalls

\* A client that leaves an open attachment alone makes no other call meanwhile.
LEMMA OtherCalls ==
    ASSUME Next, ~Drop, ~FinishAttachment,
           ~(\E n \in 1..MaxAttachment : PutAttachmentBytes(n)), Undisturbed
    PROVE  out.mode # "Attachment"
  <1>. DEFINE Quiet == out.mode # "Attachment"
  <1>. SUFFICES Quiet
    OBVIOUS
  <1>1. ASSUME NEW call, call \notin AttachmentCalls, Calls(call) PROVE Quiet
    BY <1>1 DEF Calls, Undisturbed
  <1>2. /\ "add_schema" \notin AttachmentCalls /\ "add_channel" \notin AttachmentCalls
        /\ "write" \notin AttachmentCalls /\ "write_to_known_channel" \notin AttachmentCalls
        /\ "write_private_record" \notin AttachmentCalls
        /\ "start_attachment" \notin AttachmentCalls /\ "attach" \notin AttachmentCalls
        /\ "write_metadata" \notin AttachmentCalls /\ "flush" \notin AttachmentCalls
        /\ "finish" \notin AttachmentCalls /\ "into_inner" \notin AttachmentCalls
    BY DEF AttachmentCalls
  <1>. HIDE DEF Quiet
  <1>3. ASSUME NEW c, AddSchema(c) PROVE Quiet
    BY <1>1, <1>2, <1>3 DEF AddSchema
  <1>4. ASSUME NEW s, NEW p, AddChannel(s, p) PROVE Quiet
    BY <1>1, <1>2, <1>4 DEF AddChannel
  <1>5. ASSUME NEW i, NEW t, WriteToKnownChannel(i, t) PROVE Quiet
    BY <1>1, <1>2, <1>5 DEF WriteToKnownChannel
  <1>6. ASSUME NEW i, NEW p, NEW s, NEW c, NEW t, Write(i, p, s, c, t) PROVE Quiet
    BY <1>1, <1>2, <1>6 DEF Write
  <1>7. ASSUME NEW call, call \notin AttachmentCalls, NEW outcomes, StreamCall(call, outcomes)
        PROVE  Quiet
    BY <1>1, <1>7 DEF StreamCall
  <1>8. CASE Finish \/ IntoInner
    <2>1. Calls("finish") \/ Calls("into_inner")
      BY <1>8, Zenon DEF Finish, IntoInner
    <2>. QED  BY <1>1, <1>2, <2>1
  <1>9. CASE StreamCalls
    BY <1>7, <1>9, StreamSteps
  <1>. QED  BY <1>3, <1>4, <1>5, <1>6, <1>8, <1>9 DEF Next, StreamCalls

\* A call that is refused.
LEMMA RefusedOpen ==
    ASSUME Inv, OpenInv(out, schemas, channels, book), ~finished, Refusal(out) # "none",
           Next, ~(\E n \in 1..MaxAttachment : PutAttachmentBytes(n)),
           ~FinishAttachment, ~IntoInner, ~Drop, ~finished'
    PROVE  OpenInv(out', schemas', channels', book')
  <1>1. out' = out
    BY RefusedCalls
  <1>2. Extends(schemas, schemas') /\ Extends(channels, channels')
    BY RegistriesGrow DEF Registered
  <1>3. Undisturbed => out.mode \notin Live
    <2>1. Undisturbed => out.mode # "Attachment"
      BY OtherCalls
    <2>2. out.mode \notin {"Raw", "Chunk"}
      BY DEF Refusal, ModeRefusal
    <2>. QED  BY <2>1, <2>2 DEF Live
  <1>4. OpenInv(out, schemas', channels', book)
    BY <1>2, <1>3, OpenRefused
  <1>5. book' = book \/ \E id : \E t \in Nat : book' = CountedBook(book, id, t)
    BY BookStep
  <1>. QED  BY <1>1, <1>4, <1>5, OpenCounted

\* finish() that does not get as far as the summary.
LEMMA UnfinishedOutcome ==
    ASSUME Inv, FileOK(out), ~finished, NEW f \in FinishOutcomes, ~f.finished
    PROVE  Kept(out, f.out)
  <1>1. StreamOK(out) /\ ~SummaryPanics
    BY SummaryFindsContent DEF Inv, RegistriesOK
  <1>2. PICK x \in FinishChunk(out) : f.out = x.out
    BY <1>1 DEF FinishOutcomes
  <1>. QED  BY <1>1, <1>2, FinishChunkKeeps DEF Keeps

\* What drop leaves of a writer: an attachment it holds is torn.
LeftBy(o) == [IF o.mode = "Attachment" THEN Appended(o, <<Torn>>) ELSE o
                EXCEPT !.mode = "Dropped", !.att = NoAttachment]

\* It keeps the stream.
LEMMA DroppedKeeps ==
    ASSUME NEW o, StreamOK(o), FileOK(o), o.mode # "Chunk"
    PROVE  Kept(o, LeftBy(o)) /\ LeftBy(o).mode = "Dropped"
  <1>. DEFINE left == IF o.mode = "Attachment" THEN Appended(o, <<Torn>>) ELSE o
              p == LeftBy(o)
  <1>1. Kept(o, left) /\ DOMAIN left = OutFields
    <2>1. Kept(o, o) /\ DOMAIN o = OutFields /\ o.chunk = NoChunk
      BY KeptRefl DEF StreamOK
    <2>2. Kept(o, Appended(o, <<Torn>>)) /\ DOMAIN Appended(o, <<Torn>>) = OutFields
      BY <2>1, AppendedGrows, TornIsQuiet, QuietGrew
    <2>. QED  BY <2>1, <2>2
  <1>. HIDE DEF left
  <1>2. p = [left EXCEPT !.mode = "Dropped", !.att = NoAttachment]
    BY DEF left, LeftBy
  <1>. HIDE DEF p
  <1>3. /\ p.file = left.file /\ p.chunk = left.chunk /\ p.faults = left.faults
        /\ p.mode = "Dropped"
    BY <1>1, <1>2 DEF OutFields
  <1>. QED  BY <1>1, <1>3, SameStream DEF p

\* finish() and drop.
LEMMA FinishOpen ==
    ASSUME Inv, OpenInv(out, schemas, channels, book), ~finished, ~finished',
           Finish \/ Drop
    PROVE  OpenInv(out', schemas', channels', book')
  <1>0. StreamOK(out) /\ FileOK(out)
    BY DEF Inv, OpenInv
  <1>1. CASE Finish
    <2>1. PICK f \in FinishOutcomes : out' = f.out /\ ~f.finished /\ book' = book
      BY <1>1 DEF Finish
    <2>2. Kept(out, f.out) /\ UNCHANGED <<schemas, channels>>
      BY <1>0, <1>1, <2>1, UnfinishedOutcome DEF Finish
    <2>3. CASE out.mode \in Live
      BY <2>1, <2>2, <2>3, OpenKept
    <2>4. CASE out.mode \notin Live
      <3>1. Refusal(out) # "none"
        BY <1>1, <2>4, RefusalNone, Usable DEF Live, Finish, Inv, StreamOK
      <3>2. f.out = out
        BY <3>1, RefusedFinish
      <3>. QED  BY <2>1, <2>2, <3>2
    <2>. QED  BY <2>3, <2>4
  <1>2. CASE Drop
    <2>1. PICK f \in FinishOutcomes : out' = LeftBy(f.out) /\ ~f.finished /\ book' = book
      BY <1>2 DEF Drop, LeftBy
    <2>2. Kept(out, f.out) /\ UNCHANGED <<schemas, channels>>
      BY <1>0, <1>2, <2>1, UnfinishedOutcome DEF Drop
    <2>3. StreamOK(f.out) /\ f.out.mode # "Chunk"
      BY <1>0, <1>2, <2>1, FinishOutcomesOK DEF Drop, Inv, RegistriesOK
    <2>4. Kept(f.out, out') /\ out'.mode = "Dropped"
      <3>1. FileOK(f.out)
        BY <2>2 DEF Kept
      <3>. QED  BY <2>1, <2>3, <3>1, DroppedKeeps
    <2>5. Kept(out, out')
      BY <1>0, <2>2, <2>4, KeptTrans
    <2>. QED  BY <2>1, <2>2, <2>4, <2>5, OpenKept DEF Live
  <1>. QED  BY <1>1, <1>2

\* A step that leaves the writer unfinished.
LEMMA NextOpen ==
    ASSUME Inv, OpenInv(out, schemas, channels, book), ~finished, [Next]_vars, ~finished'
    PROVE  OpenInv(out', schemas', channels', book')
  <1>. DEFINE Open == OpenInv(out', schemas', channels', book')
  <1>. SUFFICES Open
    OBVIOUS
  <1>0. CASE UNCHANGED vars
    BY <1>0 DEF vars
  <1>1. CASE Finish \/ Drop
    BY <1>1, FinishOpen
  <1>2. ~IntoInner
    BY DEF IntoInner
  <1>3. CASE FinishAttachment \/ \E n \in 1..MaxAttachment : PutAttachmentBytes(n)
    <2>1. \E n \in Nat : PutAttachmentBytes(n) \/ FinishAttachment
      BY <1>3, Lengths
    <2>. QED  BY <2>1, AttachmentOpen
  <1>4. CASE Accepts /\ Next /\ ~(Finish \/ Drop)
             /\ ~(FinishAttachment \/ \E n \in 1..MaxAttachment : PutAttachmentBytes(n))
    <2>0. Accepts
      BY <1>4
    <2>. HIDE DEF Open
    <2>1. ASSUME NEW c \in SchemaContents, AddSchema(c) PROVE Open
      BY <2>0, <2>1, AddSchemaOpen DEF Open
    <2>2. ASSUME NEW s \in CallerIds \cup {0}, NEW p \in Topics, AddChannel(s, p) PROVE Open
      BY <2>0, <2>2, CallerIdsAreIds, AddChannelOpen DEF Open
    <2>3. ASSUME NEW i \in CallerIds, NEW t \in Times, WriteToKnownChannel(i, t) PROVE Open
      BY <2>0, <2>3, WriterAssumption, WriteToKnownChannelOpen DEF Open
    <2>4. ASSUME NEW i \in CallerIds, NEW s \in CallerIds, NEW p \in Topics,
                 NEW c \in SchemaContents \cup {NoSchema}, NEW t \in Times,
                 Write(i, p, s, c, t)
          PROVE  Open
      BY <2>0, <2>4, CallerIdsAreIds, WriterAssumption, WriteOpen DEF Open
    <2>5. ASSUME NEW reserved \in BOOLEAN, NEW inChunks \in BOOLEAN,
                 WritePrivateRecord(reserved, inChunks)
          PROVE  Open
      BY <2>0, <2>5, PrivateOpen DEF Open
    <2>6. ASSUME NEW n \in 0..MaxAttachment, StartAttachment(n) \/ Attach(n) PROVE Open
      BY <2>0, <2>6, Lengths, StartAttachmentOpen, AttachOpen DEF Open
    <2>7. CASE WriteMetadata
      BY <2>0, <2>7, MetadataOpen DEF Open
    <2>8. CASE Flush
      BY <2>0, <2>8, FlushOpen DEF Open
    <2>. QED
      BY <1>2, <1>4, <2>1, <2>2, <2>3, <2>4, <2>5, <2>6, <2>7, <2>8 DEF Next
  <1>5. CASE ~Accepts /\ Next /\ ~(Finish \/ Drop)
             /\ ~(FinishAttachment \/ \E n \in 1..MaxAttachment : PutAttachmentBytes(n))
    <2>1. out.mode # "Dropped"
      BY <1>5, NotDropped
    <2>2. Refusal(out) # "none"
      BY <1>5, <2>1, RefusalNone DEF Accepts, Inv, StreamOK
    <2>. QED  BY <1>2, <1>5, <2>2, RefusedOpen
  <1>. QED  BY <1>0, <1>1, <1>3, <1>4, <1>5

-------------------------------------------------------------------------------
(* A finished writer.                                                      *)

\* The file, the open chunk and the count of errors.
SameFile(o, p) == p.file = o.file /\ p.chunk.recs = o.chunk.recs /\ p.faults = o.faults

\* Ending a writer that holds nothing open.
LEMMA EndedKeepsFile ==
    ASSUME DOMAIN out = OutFields, out.mode = "Raw", out.chunk = NoChunk, IntoInner
    PROVE  SameFile(out, out')
  <1>1. out' = [Taken(out) EXCEPT !.mode = "Dropped", !.chunk = NoChunk, !.att = NoAttachment]
    BY DEF IntoInner
  <1>. QED  BY <1>1 DEF Taken, OutFields, SameFile

\* finish() is not undone.
LEMMA StillFinished ==
    ASSUME finished, [Next]_vars, ~IntoInner, ~Drop
    PROVE  finished'
  <1>. DEFINE There == finished'
  <1>. SUFFICES There
    OBVIOUS
  <1>1. CASE Finish
    BY <1>1 DEF Finish, FinishOutcomes
  <1>2. CASE UNCHANGED finished
    BY <1>2
  <1>. HIDE DEF There
  <1>3. ASSUME NEW c, AddSchema(c) PROVE There
    BY <1>2, <1>3 DEF AddSchema
  <1>4. ASSUME NEW s, NEW p, AddChannel(s, p) PROVE There
    BY <1>2, <1>4 DEF AddChannel
  <1>5. ASSUME NEW i, NEW t, WriteToKnownChannel(i, t) PROVE There
    BY <1>2, <1>5 DEF WriteToKnownChannel
  <1>6. ASSUME NEW i, NEW p, NEW s, NEW c, NEW t, Write(i, p, s, c, t) PROVE There
    BY <1>2, <1>6 DEF Write
  <1>7. ASSUME NEW call, NEW outcomes, StreamCall(call, outcomes) PROVE There
    BY <1>2, <1>7 DEF StreamCall
  <1>8. CASE StreamCalls
    BY <1>7, <1>8, StreamSteps
  <1>9. CASE FinishAttachment \/ \E n \in 1..MaxAttachment : PutAttachmentBytes(n)
    BY <1>7, <1>9 DEF FinishAttachment, PutAttachmentBytes
  <1>10. CASE UNCHANGED vars
    BY <1>2, <1>10 DEF vars
  <1>. QED  BY <1>1, <1>3, <1>4, <1>5, <1>6, <1>8, <1>9, <1>10 DEF Next, StreamCalls

\* No call changes what a finished writer has written.
LEMMA FinishedFrame ==
    ASSUME Inv, finished, [Next]_vars
    PROVE  finished' /\ SameFile(out, out')
  <1>0. /\ DOMAIN out = OutFields /\ out.mode \in {"Raw", "Dropped"} /\ out.chunk = NoChunk
        /\ Refusal(out) # "none"
    BY DEF Inv, StreamOK, Refusal
  <1>1. \A f \in FinishOutcomes : f.out = out /\ f.finished
    BY <1>0, RefusedFinish
  <1>2. ASSUME NEW n, PutAttachmentBytes(n) PROVE out' = out
    <2>1. PutBytes(out, n) = Fails(out, "AttachmentNotInProgress")
      BY <1>0 DEF PutBytes
    <2>. QED  BY <1>2, <2>1 DEF PutAttachmentBytes, StreamCall, Fails
  <1>3. CASE FinishAttachment
    <2>1. EndAttachment(out) = Fails(out, "AttachmentNotInProgress")
      BY <1>0 DEF EndAttachment
    <2>2. out' = out
      BY <1>3, <2>1 DEF FinishAttachment, StreamCall, Fails
    <2>. QED  BY <1>3, <2>2 DEF FinishAttachment, StreamCall, SameFile
  <1>4. CASE IntoInner
    <2>1. out.mode = "Raw"
      BY <1>0, <1>4, NotDropped DEF Next
    <2>2. finished'
      BY <1>4 DEF IntoInner
    <2>. QED  BY <1>0, <1>4, <2>1, <2>2, EndedKeepsFile
  <1>5. CASE Drop
    <2>1. PICK f \in FinishOutcomes : out' = LeftBy(f.out) /\ finished' = f.finished
      BY <1>5 DEF Drop, LeftBy
    <2>2. out' = [out EXCEPT !.mode = "Dropped", !.att = NoAttachment] /\ finished'
      BY <1>0, <1>1, <2>1 DEF LeftBy
    <2>. QED  BY <1>0, <2>2 DEF OutFields, SameFile
  <1>6. CASE ~(\E n \in 1..MaxAttachment : PutAttachmentBytes(n)) /\ ~FinishAttachment
             /\ ~IntoInner /\ ~Drop
    <2>1. out' = out
      BY <1>0, <1>6, RefusedCalls
    <2>2. finished'
      BY <1>6, StillFinished
    <2>. QED  BY <2>1, <2>2 DEF SameFile
  <1>7. CASE \E n \in 1..MaxAttachment : PutAttachmentBytes(n)
    BY <1>2, <1>7 DEF PutAttachmentBytes, StreamCall, SameFile
  <1>. QED  BY <1>3, <1>4, <1>5, <1>6, <1>7

-------------------------------------------------------------------------------
(* What the properties say, for a writer that is not finished.             *)

\* DataSection and Written, of any stream.
DataOf(f) == IF Positions(f, "DataEnd") = {} THEN f
             ELSE SubSeq(f, 1, Min(Positions(f, "DataEnd")) - 1)

WrittenIn(o) == Flat(DataOf(o.file)) \o o.chunk.recs

\* They are what the properties call by those names.
LEMMA WrittenFacts == Written = WrittenIn(out) /\ Written' = WrittenIn(out')
  BY DEF Written, WrittenIn, DataSection, DataOf

\* Before finish() all of the stream is data, and the file is not complete.
LEMMA OpenWritten ==
    ASSUME NEW o, FileOK(o)
    PROVE  /\ DataOf(o.file) = o.file /\ WrittenIn(o) = Stream(o)
           /\ Last(o.file).op # "Footer"
  <1>1. /\ DOMAIN o.file = 1..Len(o.file) /\ Len(o.file) \in Nat /\ Len(o.file) >= 1
        /\ \A p \in DOMAIN o.file : o.file[p] \in ToSet(o.file)
    BY IsSeqFacts DEF FileOK, IsData, ToSet
  <1>2. \A p \in DOMAIN o.file : o.file[p].op \in DataOps
    BY <1>1 DEF FileOK, IsData
  <1>3. \A op \in DataOps : op # "DataEnd" /\ op # "Footer"
    BY DEF DataOps, ChunkOps
  <1>4. Positions(o.file, "DataEnd") = {}
    BY <1>2, <1>3 DEF Positions
  <1>5. Len(o.file) \in DOMAIN o.file
    BY <1>1
  <1>6. Last(o.file).op # "Footer"
    BY <1>2, <1>3, <1>5 DEF Last
  <1>. QED  BY <1>4, <1>6 DEF WrittenIn, DataOf, Stream

\* A finished writer does not change what it wrote.
LEMMA SameFileWritten ==
    ASSUME NEW o, NEW p, SameFile(o, p)
    PROVE  WrittenIn(p) = WrittenIn(o) /\ Stream(p) = Stream(o)
  BY DEF WrittenIn, Stream, SameFile

\* A record of the opened file is held by a record of the file.
LEMMA FlatElements ==
    ASSUME NEW f, Whole(f), NEW r \in ToSet(Flat(f))
    PROVE  \E x \in ToSet(f) : r \in ToSet(Opened(x))
  <1>1. /\ IsSeq(Parts(f)) /\ Len(Parts(f)) = Len(f) /\ Flat(f) = FlattenSeq(Parts(f))
        /\ \A i \in 1..Len(f) : Parts(f)[i] = Opened(f[i]) /\ IsSeq(Parts(f)[i])
    BY PartsFacts
  <1>2. PICK i \in 1..Len(f) : r \in ToSet(Parts(f)[i])
    BY <1>1, FlattenFacts
  <1>3. f[i] \in ToSet(f)
    BY IsSeqFacts DEF Whole
  <1>. QED  BY <1>1, <1>2, <1>3

\* The first state.
LEMMA InitOpen ==
    ASSUME Init
    PROVE  OpenInv(out, schemas, channels, book)
  <1>1. /\ out.file = <<HeaderRec>> /\ out.chunk = NoChunk /\ out.faults = 0
        /\ schemas = EmptyRegistry /\ channels = EmptyRegistry
        /\ book = [bounds |-> <<>>, counts |-> [i \in {} |-> 0]]
    BY DEF Init
  <1>2. /\ IsSeq(out.file) /\ Len(out.file) = 1 /\ out.file[1] = HeaderRec
        /\ ToSet(out.file) = {HeaderRec}
    BY <1>1, SingletonFacts
  <1>3. HeaderRec.op = "Header" /\ HeaderRec.op \in DataOps /\ HeaderRec.op # "Chunk"
    BY DEF HeaderRec, DataOps
  <1>4. FileOK(out)
    <2>1. IsData(out.file)
      BY <1>2, <1>3 DEF IsData
    <2>. QED  BY <1>1, <2>1, NoChunkHolds DEF FileOK
  <1>5. IsSeq(Stream(out)) /\ Len(Stream(out)) \in Nat
    BY <1>4, StreamFacts
  <1>6. \A r \in ToSet(Stream(out)) : ~Loud(r)
    <2>1. Opened(HeaderRec) = <<HeaderRec>>
      BY <1>3 DEF Opened
    <2>2. Whole(out.file) /\ IsSeq(Flat(out.file))
      BY <1>4, StreamFacts
    <2>3. Stream(out) = Flat(out.file)
      BY <1>1, <2>2, NoChunkHolds, ConcatEmpty DEF Stream
    <2>4. \A r \in ToSet(Flat(out.file)) : r = HeaderRec
      BY <1>2, <2>1, <2>2, FlatElements, SingletonFacts
    <2>. QED  BY <1>3, <2>3, <2>4 DEF Loud
  <1>7. \A p \in 1..Len(Stream(out)) : ~Loud(Stream(out)[p])
    BY <1>5, <1>6, IsSeqFacts DEF ToSet
  <1>8. BookOK(book)
    <2>. DEFINE none == [i \in {} |-> 0]
    <2>1. DOMAIN none = {} /\ book = [bounds |-> <<>>, counts |-> none]
      BY <1>1
    <2>. HIDE DEF none
    <2>. QED  BY <2>1 DEF BookOK
  <1>9. DOMAIN schemas.all = {} /\ DOMAIN channels.all = {}
    BY <1>1 DEF EmptyRegistry
  <1>. DEFINE s == Stream(out)
  <1>. HIDE DEF s
  <1>10. Faithful(s, schemas, channels)
    BY <1>6 DEF Faithful, Loud, s
  <1>11. DeclaredIn(s)
    BY <1>7 DEF DeclaredIn, Loud, s
  <1>12. AllDeclared(s, schemas, channels)
    BY <1>9 DEF AllDeclared
  <1>13. CountedIn(s, book)
    <2>1. \A c : MessagesOn(s, c) = {}
      BY <1>7 DEF MessagesOn, Loud, s
    <2>2. \A c : Cardinality(MessagesOn(s, c)) = 0
      BY <2>1, FS_EmptySet
    <2>3. \A c : CountOf(book.counts, c) \in Nat
      BY <1>8, CountIsNat
    <2>4. \A p \in 1..Len(s) : s[p].op # "Message"
      BY <1>7 DEF Loud, s
    <2>. QED  BY <2>2, <2>3, <2>4 DEF CountedIn
  <1>. QED  BY <1>4, <1>8, <1>10, <1>11, <1>12, <1>13 DEF OpenInv, s

-------------------------------------------------------------------------------
(* The theorems about a writer that is not finished.                       *)

\* What the stream, the registries and the bookkeeping have to do with each
\* other until finish(), in every reachable state.
THEOREM UnfinishedInvariant == Spec => []Unfinished
  <1>1. Init => Unfinished
    BY InitOpen DEF Unfinished
  <1>2. ASSUME Inv, Unfinished, [Next]_vars PROVE Unfinished'
    <2>. SUFFICES ASSUME ~finished' PROVE OpenInv(out', schemas', channels', book')
      BY DEF Unfinished, OpenInv, Undisturbed
    <2>1. ~finished
      BY <1>2, FinishedFrame
    <2>. QED  BY <1>2, <2>1, NextOpen DEF Unfinished
  <1>. QED  BY <1>1, <1>2, InvHolds, PTL DEF Spec

\* No message reaches the file that channel_message_counts and message_bounds
\* have missed, whatever calls fail on the way.
THEOREM AllMessagesCounted == Spec => []NothingUncounted
  <1>1. ASSUME Unfinished PROVE NothingUncounted
    <2>. SUFFICES ASSUME ~finished, NEW p \in Positions(Written, "Message")
                  PROVE  /\ CountOf(book.counts, Written[p].channel) >=
                              Cardinality({q \in Positions(Written, "Message") :
                                             Written[q].channel = Written[p].channel})
                         /\ book.bounds[1] <= Written[p].time
                         /\ Written[p].time <= book.bounds[2]
      BY DEF NothingUncounted
    <2>. DEFINE s == Stream(out)
    <2>1. BookOK(book) /\ FileOK(out) /\ CountedIn(s, book)
      BY <1>1 DEF Unfinished, OpenInv
    <2>2. Written = s /\ DOMAIN s = 1..Len(s) /\ Len(s) \in Nat
      BY <2>1, WrittenFacts, OpenWritten, StreamFacts
    <2>. HIDE DEF s
    <2>3. p \in 1..Len(s) /\ s[p].op = "Message"
      BY <2>2 DEF Positions
    <2>4. {q \in Positions(Written, "Message") : Written[q].channel = Written[p].channel}
            = MessagesOn(s, s[p].channel)
      BY <2>2 DEF Positions, MessagesOn
    <2>5. /\ Cardinality(MessagesOn(s, s[p].channel)) \in Nat
          /\ CountOf(book.counts, s[p].channel) \in Nat
          /\ Cardinality(MessagesOn(s, s[p].channel)) <= CountOf(book.counts, s[p].channel)
      BY <2>1, <2>2, MessagesFinite, CountIsNat DEF CountedIn
    <2>6. InBounds(book.bounds, s[p].time)
      BY <2>1, <2>3 DEF CountedIn
    <2>7. book.bounds[1] <= s[p].time /\ s[p].time <= book.bounds[2]
      BY <2>6 DEF InBounds
    <2>8. CountOf(book.counts, s[p].channel) >= Cardinality(MessagesOn(s, s[p].channel))
      BY <2>5
    <2>. QED  BY <2>2, <2>4, <2>7, <2>8
  <1>. QED  BY <1>1, UnfinishedInvariant, PTL

\* A file with its footer is never written to again.
THEOREM CompleteFilesAreFinal == Spec => CompleteIsFinal
  <1>. DEFINE Final == Complete => out'.file = out.file
  <1>1. ASSUME Inv, Unfinished, [Next]_vars PROVE Final
    <2>. SUFFICES ASSUME Complete PROVE out'.file = out.file
      OBVIOUS
    <2>1. finished
      BY <1>1, OpenWritten DEF Unfinished, OpenInv, Complete
    <2>. QED  BY <1>1, <2>1, FinishedFrame DEF SameFile
  <1>. HIDE DEF Final
  <1>2. Inv /\ Unfinished /\ [Next]_vars => [Final]_vars
    BY <1>1
  <1>3. Spec => [][Final]_vars
    BY <1>2, InvHolds, UnfinishedInvariant, PTL DEF Spec
  <1>. QED  BY <1>3 DEF CompleteIsFinal, Final

-------------------------------------------------------------------------------
(* What the result of a write call says of the file.                       *)

Messages(s) == {p \in 1..Len(s) : s[p].op = "Message"}

NumMessages(o) == Cardinality(Messages(Stream(o)))

\* There are finitely many.
LEMMA NumMessagesNat ==
    ASSUME NEW o, FileOK(o)
    PROVE  NumMessages(o) \in Nat /\ IsFiniteSet(Messages(Stream(o)))
  <1>1. IsFiniteSet(1..Len(Stream(o)))
    BY StreamFacts, FS_Interval
  <1>2. Messages(Stream(o)) \subseteq 1..Len(Stream(o))
    BY DEF Messages
  <1>. QED  BY <1>1, <1>2, FS_Subset, FS_CardinalityType DEF NumMessages

\* One more record.
LEMMA NumMessagesGrew ==
    ASSUME NEW o, FileOK(o), NEW p, NEW r, Grew(o, p, r)
    PROVE  NumMessages(p) = NumMessages(o) + (IF r.op = "Message" THEN 1 ELSE 0)
  <1>. DEFINE s == Stream(o)
              t == Stream(p)
  <1>1. Grown(s, t, r) /\ Len(s) \in Nat /\ Len(t) \in Nat
    BY StreamFacts DEF Grew
  <1>2. NumMessages(o) \in Nat /\ IsFiniteSet(Messages(s))
    BY NumMessagesNat
  <1>. HIDE DEF s, t
  <1>3. Within(t, s) /\ Len(s) <= Len(t)
    BY <1>1 DEF Grown
  <1>4. PICK n \in 1..Len(t) :
          /\ n > Len(s) /\ t[n] = r
          /\ \A q \in 1..Len(t) : Loud(t[q]) /\ q # n => q \in 1..Len(s) /\ t[q] = s[q]
    BY <1>1 DEF Grown
  <1>5. \A q \in 1..Len(s) : s[q].op = "Message" => q \in 1..Len(t) /\ t[q] = s[q]
    BY <1>3 DEF Within, Loud
  <1>6. \A q \in 1..Len(t) : t[q].op = "Message" /\ q # n => q \in 1..Len(s) /\ t[q] = s[q]
    BY <1>4 DEF Loud
  <1>7. n \notin 1..Len(s) /\ n \notin Messages(s)
    BY <1>1, <1>4 DEF Messages
  <1>8. Messages(t) = IF r.op = "Message" THEN Messages(s) \cup {n} ELSE Messages(s)
    BY <1>4, <1>5, <1>6, <1>7 DEF Messages
  <1>9. CASE r.op = "Message"
    <2>1. Cardinality(Messages(s) \cup {n}) = Cardinality(Messages(s)) + 1
      BY <1>2, <1>7, FS_AddElement
    <2>. QED  BY <1>8, <1>9, <2>1 DEF NumMessages, s, t
  <1>10. CASE r.op # "Message"
    BY <1>2, <1>8, <1>10 DEF NumMessages, s, t
  <1>. QED  BY <1>9, <1>10

\* write_to_known_channel, from the point where the channel is known.
LEMMA MessageResult ==
    ASSUME NEW o, Ready(o), ~finished, finished \in BOOLEAN, opts \in OptionType,
           NEW id, NEW t, NEW x \in WriteMessage(o, id, t)
    PROVE  /\ x.res = "Ok" => NumMessages(x.out) = NumMessages(o) + 1
           /\ x.res # "Ok" => x.out.faults # 0
  <1>0. StreamOK(o) /\ FileOK(o) /\ o.mode # "Dropped"
    BY DEF Ready
  <1>1. Adds(o, x, MessageRec(id, t)) /\ MessageRec(id, t).op = "Message"
    BY <1>0, WriteMessageAdds DEF MessageRec
  <1>2. CASE x.res = "Ok"
    BY <1>0, <1>1, <1>2, NumMessagesGrew DEF Adds
  <1>3. CASE x.res # "Ok"
    <2>1. Kept(o, x.out) /\ x.out.faults > o.faults
      BY <1>1, <1>3, OnlyIoFails
    <2>2. o.faults \in Nat /\ x.out.faults \in Nat
      BY <1>0, <2>1, StreamFacts DEF Kept
    <2>. QED  BY <1>3, <2>1, <2>2
  <1>. QED  BY <1>2, <1>3

\* The record of a schema or of a channel, if it is new.
LEMMA RecordResult ==
    ASSUME NEW o, Ready(o), ~finished, finished \in BOOLEAN, opts \in OptionType,
           NEW v, NEW r, r.op \in {"Schema", "Channel"}, NEW x \in Writes(o, v, r)
    PROVE  /\ x.res = "Ok" => NumMessages(x.out) = NumMessages(o) /\ Ready(x.out)
           /\ x.res # "Ok" => x.out.faults # 0
  <1>0. StreamOK(o) /\ FileOK(o) /\ o.mode # "Dropped" /\ NumMessages(o) \in Nat
    BY NumMessagesNat DEF Ready
  <1>1. CASE v.verdict = "new"
    <2>1. x \in WriteRecord(o, r) /\ r.op \in ChunkOps
      BY <1>1 DEF Writes, ChunkOps
    <2>2. Adds(o, x, r)
      BY <1>0, <2>1, WriteRecordAdds
    <2>3. CASE x.res = "Ok"
      <3>1. NumMessages(x.out) = NumMessages(o)
        BY <1>0, <2>2, <2>3, NumMessagesGrew DEF Adds
      <3>. QED  BY <2>1, <2>3, <3>1, ReadyAfterRecord
    <2>4. CASE x.res # "Ok"
      <3>1. Kept(o, x.out) /\ x.out.faults > o.faults
        BY <2>2, <2>4, OnlyIoFails
      <3>2. o.faults \in Nat /\ x.out.faults \in Nat
        BY <1>0, <3>1, StreamFacts DEF Kept
      <3>. QED  BY <2>4, <3>1, <3>2
    <2>. QED  BY <2>3, <2>4
  <1>2. CASE v.verdict # "new"
    <2>1. x.out = o /\ x.res = "Ok"
      BY <1>2 DEF Writes, Ok
    <2>. QED  BY <2>1
  <1>. QED  BY <1>1, <1>2

\* The property, from a stream to the one after the call.
Tells(o) ==
    out'.faults = 0 => NumMessages(out') = NumMessages(o) + (IF result'.res = "Ok" THEN 1 ELSE 0)

\* The part of write() behind the schema.
LEMMA WriteChannelTells ==
    ASSUME RegistryType(channels, ChannelContents), RegistryConsistent(channels),
           NEW o, Ready(o), ~finished, finished \in BOOLEAN, opts \in OptionType,
           NEW id \in Ids, NEW content \in ChannelContents, NEW t,
           WriteChannelAndMessage(o, id, content, t)
    PROVE  Tells(o)
  <1>. DEFINE c == RegisterAs(channels, id, content)
              rec == ChannelRec(id, content)
  <1>0. NumMessages(o) \in Nat
    BY NumMessagesNat DEF Ready
  <1>1. c.verdict # "Ok"
    BY RegisterAsConsistent
  <1>2. \/ out' = o /\ result'.res = c.verdict
        \/ \E x \in Writes(o, c, rec) :
             \/ x.res # "Ok" /\ out' = x.out
             \/ /\ x.res = "Ok"
                /\ \E y \in WriteMessage(x.out, id, t) : out' = y.out /\ result'.res = y.res
    BY DEF WriteChannelAndMessage, CountAndWrite, Returns
  <1>. HIDE DEF c
  <1>3. CASE out' = o /\ result'.res = c.verdict
    BY <1>0, <1>1, <1>3 DEF Tells
  <1>4. ASSUME NEW x \in Writes(o, c, rec),
               \/ x.res # "Ok" /\ out' = x.out
               \/ /\ x.res = "Ok"
                  /\ \E y \in WriteMessage(x.out, id, t) : out' = y.out /\ result'.res = y.res
        PROVE  Tells(o)
    <2>0. rec.op \in {"Schema", "Channel"}
      BY DEF ChannelRec
    <2>. HIDE DEF rec
    <2>1. /\ x.res = "Ok" => NumMessages(x.out) = NumMessages(o) /\ Ready(x.out)
          /\ x.res # "Ok" => x.out.faults # 0
      BY <2>0, RecordResult
    <2>2. CASE x.res # "Ok" /\ out' = x.out
      BY <2>1, <2>2 DEF Tells
    <2>3. ASSUME x.res = "Ok", NEW y \in WriteMessage(x.out, id, t),
                 out' = y.out, result'.res = y.res
          PROVE  Tells(o)
      <3>1. /\ y.res = "Ok" => NumMessages(y.out) = NumMessages(x.out) + 1
            /\ y.res # "Ok" => y.out.faults # 0
        BY <2>1, <2>3, MessageResult
      <3>. QED  BY <2>1, <2>3, <3>1 DEF Tells
    <2>. QED  BY <1>4, <2>2, <2>3
  <1>. QED  BY <1>2, <1>3, <1>4

\* The two write calls on a writer that accepts records.
LEMMA WriteTells ==
    ASSUME Inv, ~finished, Ready(out), NEW id \in Ids, NEW t,
           \/ WriteToKnownChannel(id, t)
           \/ \E topic \in Topics, s \in Ids, c \in SchemaContents \cup {NoSchema} :
                Write(id, topic, s, c, t)
    PROVE  Tells(out)
  <1>0. /\ finished \in BOOLEAN /\ opts \in OptionType /\ NumMessages(out) \in Nat
        /\ RegistryType(schemas, SchemaContents) /\ RegistryConsistent(schemas)
        /\ RegistryType(channels, ChannelContents) /\ RegistryConsistent(channels)
    BY NumMessagesNat DEF Inv, RegistriesOK, RegistriesConsistent, Ready
  <1>1. CASE WriteToKnownChannel(id, t)
    <2>1. \/ out' = out /\ result'.res = "UnknownChannel"
          \/ \E x \in WriteMessage(out, id, t) : out' = x.out /\ result'.res = x.res
      BY <1>1 DEF WriteToKnownChannel, CountAndWrite, Returns
    <2>2. CASE out' = out /\ result'.res = "UnknownChannel"
      BY <1>0, <2>2 DEF Tells
    <2>3. ASSUME NEW x \in WriteMessage(out, id, t), out' = x.out, result'.res = x.res
          PROVE  Tells(out)
      BY <1>0, <2>3, MessageResult DEF Tells
    <2>. QED  BY <2>1, <2>2, <2>3
  <1>2. ASSUME NEW topic \in Topics, NEW sid \in Ids, NEW schema \in SchemaContents \cup {NoSchema},
               Write(id, topic, sid, schema, t)
        PROVE  Tells(out)
    <2>. DEFINE s == IF schema = NoSchema
                     THEN [reg |-> schemas, verdict |-> "known", id |-> 0]
                     ELSE RegisterAs(schemas, sid, schema)
                content == ChannelContent(IF schema = NoSchema THEN 0 ELSE sid, topic)
                rec == SchemaRec(sid, schema)
    <2>1. s.verdict # "Ok"
      <3>1. CASE schema = NoSchema
        BY <3>1
      <3>2. CASE schema # NoSchema
        BY <1>0, <3>2, RegisterAsConsistent
      <3>. QED  BY <3>1, <3>2
    <2>2. content \in ChannelContents
      <3>1. 0 \in Ids
        BY CallerIdsAreIds
      <3>. QED  BY <3>1 DEF ChannelContent, ChannelContents
    <2>3. \/ out' = out /\ result'.res = s.verdict
          \/ \E x \in Writes(out, s, rec) :
               \/ x.res # "Ok" /\ out' = x.out
               \/ x.res = "Ok" /\ WriteChannelAndMessage(x.out, id, content, t)
      BY <1>2 DEF Write, Returns
    <2>. HIDE DEF s, content
    <2>4. CASE out' = out /\ result'.res = s.verdict
      BY <1>0, <2>1, <2>4 DEF Tells
    <2>5. ASSUME NEW x \in Writes(out, s, rec),
                 \/ x.res # "Ok" /\ out' = x.out
                 \/ x.res = "Ok" /\ WriteChannelAndMessage(x.out, id, content, t)
          PROVE  Tells(out)
      <3>0. rec.op \in {"Schema", "Channel"}
        BY DEF SchemaRec
      <3>. HIDE DEF rec
      <3>1. /\ x.res = "Ok" => NumMessages(x.out) = NumMessages(out) /\ Ready(x.out)
            /\ x.res # "Ok" => x.out.faults # 0
        BY <1>0, <3>0, RecordResult
      <3>2. CASE x.res # "Ok" /\ out' = x.out
        BY <3>1, <3>2 DEF Tells
      <3>3. CASE x.res = "Ok" /\ WriteChannelAndMessage(x.out, id, content, t)
        <4>1. Tells(x.out)
          BY <1>0, <2>2, <3>1, <3>3, WriteChannelTells
        <4>. QED  BY <3>1, <3>3, <4>1 DEF Tells
      <3>. QED  BY <2>5, <3>2, <3>3
    <2>. QED  BY <2>3, <2>4, <2>5
  <1>. QED  BY <1>1, <1>2

\* A message is refused by a stream that is not free.
LEMMA RefusedMessageFails ==
    ASSUME NEW o, Refusal(o) # "none", NEW id, NEW t, NEW x \in WriteMessage(o, id, t)
    PROVE  x.out = o /\ x.res # "Ok"
  <1>. DEFINE First == IF TargetReached(o) THEN FinishChunk(o) ELSE Ok(o)
              r == MessageRec(id, t)
              Rest(y) == IF opts.use_chunks
                         THEN Then(StartChunk(y),
                                   LAMBDA z : AppendChunk(IndexMessage(z, id, t), r))
                         ELSE Then(FinishChunk(y), LAMBDA z : AppendRaw(z, r))
  <1>1. \A y \in First : y.out = o
    BY RefusedEverywhere DEF Ok
  <1>2. \/ x \in First /\ x.res # "Ok"
        \/ \E y \in First : x \in Rest(y.out)
    BY DEF WriteMessage, Then
  <1>3. \A y \in Rest(o) : y.out = o /\ y.res # "Ok"
    BY RefusedEverywhere DEF Then
  <1>. HIDE DEF First, Rest
  <1>. QED  BY <1>1, <1>2, <1>3

\* The two write calls on a stream that is not free.
LEMMA RefusedResult ==
    ASSUME Inv, Refusal(out) # "none", NEW id \in Ids, NEW t,
           \/ WriteToKnownChannel(id, t)
           \/ \E topic \in Topics, s \in Ids, c \in SchemaContents \cup {NoSchema} :
                Write(id, topic, s, c, t)
    PROVE  out' = out /\ result'.res # "Ok"
  <1>0. /\ RegistryType(schemas, SchemaContents) /\ RegistryConsistent(schemas)
        /\ RegistryType(channels, ChannelContents) /\ RegistryConsistent(channels)
    BY DEF Inv, RegistriesOK, RegistriesConsistent
  <1>1. CASE WriteToKnownChannel(id, t)
    <2>1. \/ out' = out /\ result'.res = "UnknownChannel"
          \/ \E x \in WriteMessage(out, id, t) : out' = x.out /\ result'.res = x.res
      BY <1>1 DEF WriteToKnownChannel, CountAndWrite, Returns
    <2>. QED  BY <2>1, RefusedMessageFails
  <1>2. ASSUME NEW content \in ChannelContents, WriteChannelAndMessage(out, id, content, t)
        PROVE  out' = out /\ result'.res # "Ok"
    <2>. DEFINE c == RegisterAs(channels, id, content)
                rec == ChannelRec(id, content)
    <2>1. c.verdict # "Ok"
      BY <1>0, RegisterAsConsistent
    <2>2. \/ out' = out /\ result'.res = c.verdict
          \/ \E x \in Writes(out, c, rec) :
               \/ x.res # "Ok" /\ out' = x.out /\ result'.res = x.res
               \/ \E y \in WriteMessage(x.out, id, t) : out' = y.out /\ result'.res = y.res
      BY <1>2 DEF WriteChannelAndMessage, CountAndWrite, Returns
    <2>. HIDE DEF c, rec
    <2>3. \A x \in Writes(out, c, rec) : x.out = out
      BY RefusedWrites
    <2>. QED  BY <2>1, <2>2, <2>3, RefusedMessageFails
  <1>3. ASSUME NEW topic \in Topics, NEW sid \in Ids, NEW schema \in SchemaContents \cup {NoSchema},
               Write(id, topic, sid, schema, t)
        PROVE  out' = out /\ result'.res # "Ok"
    <2>. DEFINE s == IF schema = NoSchema
                     THEN [reg |-> schemas, verdict |-> "known", id |-> 0]
                     ELSE RegisterAs(schemas, sid, schema)
                content == ChannelContent(IF schema = NoSchema THEN 0 ELSE sid, topic)
                rec == SchemaRec(sid, schema)
    <2>1. s.verdict # "Ok"
      <3>1. CASE schema = NoSchema
        BY <3>1
      <3>2. CASE schema # NoSchema
        BY <1>0, <3>2, RegisterAsConsistent
      <3>. QED  BY <3>1, <3>2
    <2>2. content \in ChannelContents
      <3>1. 0 \in Ids
        BY CallerIdsAreIds
      <3>. QED  BY <3>1 DEF ChannelContent, ChannelContents
    <2>3. \/ out' = out /\ result'.res = s.verdict
          \/ \E x \in Writes(out, s, rec) :
               \/ x.res # "Ok" /\ out' = x.out /\ result'.res = x.res
               \/ WriteChannelAndMessage(x.out, id, content, t)
      BY <1>3 DEF Write, Returns
    <2>. HIDE DEF s, content, rec
    <2>4. \A x \in Writes(out, s, rec) : x.out = out
      BY RefusedWrites
    <2>. QED  BY <1>2, <2>1, <2>2, <2>3, <2>4
  <1>. QED  BY <1>1, <1>3

\* Only the two write calls report themselves under their names.
LEMMA WriteCalls ==
    ASSUME Next, result'.call \in {"write", "write_to_known_channel"}
    PROVE  \E id \in Ids, t \in Nat :
             \/ WriteToKnownChannel(id, t)
             \/ \E topic \in Topics, s \in Ids, c \in SchemaContents \cup {NoSchema} :
                  Write(id, topic, s, c, t)
  <1>0. ASSUME NEW call, NEW res, Returns(call, res),
               call \notin {"write", "write_to_known_channel"}
        PROVE  FALSE
    BY <1>0 DEF Returns
  <1>1. ASSUME NEW call, NEW outcomes, StreamCall(call, outcomes),
               call \notin {"write", "write_to_known_channel"}
        PROVE  FALSE
    BY <1>0, <1>1 DEF StreamCall
  <1>2. ASSUME NEW c, AddSchema(c) PROVE FALSE
    BY <1>0, <1>2 DEF AddSchema
  <1>3. ASSUME NEW s, NEW p, AddChannel(s, p) PROVE FALSE
    BY <1>0, <1>3 DEF AddChannel
  <1>4. ASSUME NEW n, PutAttachmentBytes(n) \/ FinishAttachment PROVE FALSE
    BY <1>1, <1>4 DEF PutAttachmentBytes, FinishAttachment
  <1>5. ~StreamCalls
    <2>1. ASSUME NEW reserved, NEW inChunks, WritePrivateRecord(reserved, inChunks) PROVE FALSE
      BY <1>1, <2>1 DEF WritePrivateRecord
    <2>2. ASSUME NEW n, StartAttachment(n) PROVE FALSE
      BY <1>1, <2>2 DEF StartAttachment
    <2>3. ASSUME NEW n, Attach(n) PROVE FALSE
      BY <1>1, <2>3 DEF Attach
    <2>4. ~WriteMetadata
      BY <1>1 DEF WriteMetadata
    <2>5. ASSUME Flush PROVE FALSE
      <3>. DEFINE outcomes == Then(FinishChunk(out), LAMBDA x : Ok(x) \cup IoError(x, {x}))
      <3>1. StreamCall("flush", outcomes)
        BY <2>5 DEF Flush
      <3>. HIDE DEF outcomes
      <3>. QED  BY <1>1, <3>1
    <2>. QED  BY <2>1, <2>2, <2>3, <2>4, <2>5 DEF StreamCalls
  <1>6. ~Finish
    BY <1>0 DEF Finish
  <1>7. ~IntoInner
    BY <1>0 DEF IntoInner
  <1>8. ~Drop
    <2>1. Drop => result'.call = "drop"
      BY DEF Drop, Returns
    <2>. QED  BY <2>1
  <1>. QED
    BY <1>2, <1>3, <1>4, <1>5, <1>6, <1>7, <1>8, CallerIdsAreIds, WriterAssumption
    DEF Next, StreamCalls

\* The set of messages of a sequence, as the property counts them.
LEMMA MessagesArePositions ==
    ASSUME NEW o, FileOK(o)
    PROVE  Cardinality(Positions(WrittenIn(o), "Message")) = NumMessages(o)
  <1>1. Positions(Stream(o), "Message") = Messages(Stream(o))
    BY StreamFacts DEF Positions, Messages
  <1>. QED  BY <1>1, OpenWritten DEF NumMessages

-------------------------------------------------------------------------------
(* What finish() puts behind the data.                                     *)

\* Records behind the data section: what they declare is what the registries
\* say, and no chunk is among them.
IsTail(g, S, K) == IsSeq(g) /\ Faithful(g, S, K) /\ \A r \in ToSet(g) : r.op # "Chunk"

\* The summary section while its groups are put in place.
LaidOK(c, acc) ==
    /\ DOMAIN acc = {"start", "recs", "offsets"}
    /\ IsTail(acc.recs, c[1], c[2]) /\ IsTail(acc.offsets, c[1], c[2])

Placing == INSTANCE Induction WITH Holds <- LaidOK, Step <- Place

\* Records that declare no id.
LEMMA QuietTail ==
    ASSUME NEW g, NEW S, NEW K, IsSeq(g),
           \A r \in ToSet(g) : r.op \notin {"Schema", "Channel", "Chunk"}
    PROVE  IsTail(g, S, K)
  BY DEF IsTail, Faithful

\* One after the other.
LEMMA TailConcat ==
    ASSUME NEW f, NEW g, NEW S, NEW K, IsTail(f, S, K), IsTail(g, S, K)
    PROVE  IsTail(f \o g, S, K)
  <1>1. IsSeq(f \o g) /\ ToSet(f \o g) = ToSet(f) \cup ToSet(g)
    BY ConcatFacts, ConcatElements DEF IsTail
  <1>. HIDE DEF Means
  <1>. QED  BY <1>1 DEF IsTail, Faithful

\* And a part of them.
LEMMA TailPart ==
    ASSUME NEW f, NEW S, NEW K, IsTail(f, S, K), NEW k \in Nat, k <= Len(f)
    PROVE  IsTail(SubSeq(f, 1, k), S, K)
  <1>1. IsSeq(SubSeq(f, 1, k)) /\ ToSet(SubSeq(f, 1, k)) \subseteq ToSet(f)
    BY SubSeqFacts DEF IsTail
  <1>. QED  BY <1>1 DEF IsTail, Faithful

\* A group of the summary is put in place, and its offset record noted.
LEMMA PlaceKeeps ==
    ASSUME NEW S, NEW K, NEW acc, LaidOK(<<S, K>>, acc), NEW g, IsTail(g, S, K)
    PROVE  LaidOK(<<S, K>>, Place(acc, g))
  <1>1. CASE g = <<>>
    BY <1>1 DEF Place
  <1>2. CASE g # <<>>
    <2>. DEFINE off == GroupOffset(acc, g)
                new == Place(acc, g)
    <2>0. off.op = "SummaryOffset"
      BY DEF GroupOffset
    <2>. HIDE DEF off
    <2>1. /\ DOMAIN acc = {"start", "recs", "offsets"}
          /\ IsTail(acc.recs, S, K) /\ IsTail(acc.offsets, S, K)
      BY DEF LaidOK
    <2>2. new = [acc EXCEPT !.recs = @ \o g, !.offsets = Append(@, off)]
      BY <1>2 DEF Place, off
    <2>3. /\ DOMAIN new = {"start", "recs", "offsets"}
          /\ new.recs = acc.recs \o g /\ new.offsets = Append(acc.offsets, off)
      BY <2>1, <2>2
    <2>. HIDE DEF new
    <2>4. IsTail(new.recs, S, K)
      BY <2>1, <2>3, TailConcat
    <2>5. IsTail(<<off>>, S, K)
      <3>1. IsSeq(<<off>>) /\ ToSet(<<off>>) = {off}
        BY SingletonFacts
      <3>. QED  BY <2>0, <3>1, QuietTail
    <2>6. new.offsets = acc.offsets \o <<off>>
      BY <2>1, <2>3, AppendIsJoin DEF IsTail
    <2>7. IsTail(new.offsets, S, K)
      BY <2>1, <2>5, <2>6, TailConcat
    <2>. QED  BY <2>3, <2>4, <2>7 DEF LaidOK, new
  <1>. QED  BY <1>1, <1>2

\* The content found for a written id is what the id means.
LEMMA ContentFound ==
    ASSUME NEW reg, AliasesResolve(reg), NEW i \in DOMAIN reg.all
    PROVE  Means(reg, i, ContentFor(reg, i))
  <1>1. \E c \in DOMAIN reg.canonical : reg.canonical[c] = reg.all[i]
    BY DEF AliasesResolve, CanonicalIds
  <1>. QED  BY <1>1 DEF Means, ContentFor, ContentOf

\* There are only so many ids.
LEMMA IdsFinite == IsFiniteSet(Ids)
  BY FS_Interval, MaxIdAssumption DEF Ids

\* The schemas repeated in the summary.
LEMMA SummarySchemasTail ==
    ASSUME Inv
    PROVE  IsTail(SummarySchemas, schemas, channels)
  <1>. DEFINE rec(i) == SchemaRec(i, ContentFor(schemas, i))
              recs == {rec(i) : i \in DOMAIN schemas.all}
  <1>1. DOMAIN schemas.all \subseteq Ids /\ AliasesResolve(schemas)
    BY DEF Inv, RegistriesOK, RegistriesConsistent, RegistryConsistent, RegistryType
  <1>2. IsFiniteSet(DOMAIN schemas.all)
    BY <1>1, IdsFinite, FS_Subset
  <1>3. IsFiniteSet(recs)
    <2>. DEFINE f == [i \in DOMAIN schemas.all |-> rec(i)]
    <2>1. recs = {f[i] : i \in DOMAIN schemas.all}
      OBVIOUS
    <2>2. f = [i \in DOMAIN schemas.all |-> f[i]]
      OBVIOUS
    <2>. HIDE DEF f, recs
    <2>. QED  BY <1>2, <2>1, <2>2, FiniteValues
  <1>4. \A r \in recs : r.op = "Schema" /\ Means(schemas, r.id, r.content)
    BY <1>1, ContentFound DEF SchemaRec
  <1>5. SummarySchemas = SetToSeq(recs)
    BY DEF SummarySchemas
  <1>. HIDE DEF recs, Means
  <1>6. IsSeq(SummarySchemas) /\ ToSet(SummarySchemas) \subseteq recs
    BY <1>3, <1>5, ListedSet
  <1>. QED  BY <1>4, <1>6 DEF IsTail, Faithful

\* The channels repeated in the summary: their schema is registered, so it is
\* not replaced by 0.
LEMMA SummaryChannelsTail ==
    ASSUME Inv
    PROVE  IsTail(SummaryChannels, schemas, channels)
  <1>. DEFINE content(i) == ContentFor(channels, i)
              schema(i) == IF content(i).schema \in DOMAIN schemas.all
                           THEN content(i).schema ELSE 0
              rec(i) == ChannelRec(i, ChannelContent(schema(i), content(i).topic))
              recs == {rec(i) : i \in DOMAIN channels.all}
  <1>1. /\ DOMAIN channels.all \subseteq Ids /\ AliasesResolve(channels)
        /\ DOMAIN channels.canonical \subseteq ChannelContents
        /\ ChannelSchemasKnown
    BY DEF Inv, RegistriesOK, RegistriesConsistent, RegistryConsistent, RegistryType
  <1>2. IsFiniteSet(DOMAIN channels.all)
    BY <1>1, IdsFinite, FS_Subset
  <1>3. IsFiniteSet(recs)
    <2>. DEFINE f == [i \in DOMAIN channels.all |-> rec(i)]
    <2>. HIDE DEF rec
    <2>1. recs = {f[i] : i \in DOMAIN channels.all}
      OBVIOUS
    <2>2. f = [i \in DOMAIN channels.all |-> f[i]]
      OBVIOUS
    <2>. HIDE DEF f, recs
    <2>. QED  BY <1>2, <2>1, <2>2, FiniteValues
  <1>4. ASSUME NEW i \in DOMAIN channels.all
        PROVE  rec(i) = ChannelRec(i, content(i)) /\ Means(channels, i, content(i))
    <2>1. Means(channels, i, content(i))
      BY <1>1, <1>4, ContentFound
    <2>. HIDE DEF content
    <2>2. content(i) \in DOMAIN channels.canonical
      BY <2>1 DEF Means
    <2>3. content(i) \in [schema : Ids, topic : Topics]
      BY <1>1, <2>2 DEF ChannelContents
    <2>4. content(i) = [schema |-> content(i).schema, topic |-> content(i).topic]
      BY <2>3
    <2>5. schema(i) = content(i).schema
      BY <1>1, <2>2 DEF ChannelSchemasKnown
    <2>. HIDE DEF schema
    <2>6. ChannelContent(schema(i), content(i).topic) = content(i)
      BY <2>4, <2>5 DEF ChannelContent
    <2>. QED  BY <2>1, <2>6
  <1>5. SummaryChannels = SetToSeq(recs)
    BY DEF SummaryChannels
  <1>6. \A r \in recs : r.op = "Channel" /\ Means(channels, r.id, r.content)
    <2>. HIDE DEF rec, content
    <2>1. \A i \in DOMAIN channels.all :
            /\ rec(i).op = "Channel" /\ rec(i).id = i /\ rec(i).content = content(i)
            /\ Means(channels, i, content(i))
      BY <1>4 DEF ChannelRec
    <2>. QED  BY <2>1
  <1>. HIDE DEF recs, Means
  <1>7. IsSeq(SummaryChannels) /\ ToSet(SummaryChannels) \subseteq recs
    BY <1>3, <1>5, ListedSet
  <1>. QED  BY <1>6, <1>7 DEF IsTail, Faithful

\* An index list collected while writing.
LEMMA ListTail ==
    ASSUME NEW s, NEW op, AllOf(s, op), op \notin {"Schema", "Channel", "Chunk"}, NEW S, NEW K
    PROVE  IsTail(s, S, K)
  BY QuietTail DEF AllOf

\* The groups of the summary.
LEMMA GroupsTail ==
    ASSUME Inv, NEW o, StreamOK(o)
    PROVE  /\ IsSeq(SummaryGroups(o))
           /\ \A g \in ToSet(SummaryGroups(o)) : IsTail(g, schemas, channels)
  <1>. DEFINE Fits(g) == IsTail(g, schemas, channels)
              g1 == IF opts.repeat_schemas THEN SummarySchemas ELSE <<>>
              g2 == IF opts.repeat_channels THEN SummaryChannels ELSE <<>>
              g3 == IF opts.emit_statistics THEN <<Statistics(o)>> ELSE <<>>
              g4 == IF opts.emit_chunk_indexes THEN o.chunk_indexes ELSE <<>>
              g5 == IF opts.emit_attachment_indexes THEN o.attachment_indexes ELSE <<>>
              g6 == IF opts.emit_metadata_indexes THEN o.metadata_indexes ELSE <<>>
  <1>0. Fits(<<>>)
    BY EmptyFacts, QuietTail
  <1>1. Fits(SummarySchemas) /\ Fits(SummaryChannels)
    BY SummarySchemasTail, SummaryChannelsTail
  <1>2. Fits(<<Statistics(o)>>)
    <2>. DEFINE st == Statistics(o)
    <2>1. st.op = "Statistics"
      BY DEF Statistics
    <2>. HIDE DEF st
    <2>2. IsSeq(<<st>>) /\ ToSet(<<st>>) = {st}
      BY SingletonFacts
    <2>3. Fits(<<st>>)
      BY <2>1, <2>2, QuietTail
    <2>. QED  BY <2>3 DEF st
  <1>3. /\ AllOf(o.chunk_indexes, "ChunkIndex")
        /\ AllOf(o.attachment_indexes, "AttachmentIndex")
        /\ AllOf(o.metadata_indexes, "MetadataIndex")
    BY DEF StreamOK, ListsOK, Lists
  <1>4. Fits(o.chunk_indexes) /\ Fits(o.attachment_indexes) /\ Fits(o.metadata_indexes)
    BY <1>3, ListTail
  <1>. HIDE DEF Fits
  <1>5. Fits(g1) /\ Fits(g2) /\ Fits(g3) /\ Fits(g4) /\ Fits(g5) /\ Fits(g6)
    BY <1>0, <1>1, <1>2, <1>4
  <1>6. SummaryGroups(o) = <<g1, g2, g3, g4, g5, g6>>
    BY DEF SummaryGroups
  <1>. HIDE DEF g1, g2, g3, g4, g5, g6
  <1>. DEFINE gs == SummaryGroups(o)
  <1>7. gs \in Seq({g1, g2, g3, g4, g5, g6})
    BY <1>6
  <1>8. IsSeq(gs) /\ ToSet(gs) \subseteq {g1, g2, g3, g4, g5, g6}
    BY <1>7, SeqType
  <1>. HIDE DEF gs
  <1>9. \A g \in ToSet(gs) : Fits(g)
    BY <1>5, <1>8
  <1>. QED  BY <1>8, <1>9 DEF Fits, gs

\* The groups of the summary in place.
LEMMA GroupsPlaced ==
    ASSUME NEW S, NEW K, NEW base, LaidOK(<<S, K>>, base), NEW groups, IsSeq(groups),
           \A g \in ToSet(groups) : IsTail(g, S, K)
    PROVE  LaidOK(<<S, K>>, FoldLeft(Place, base, groups))
  <1>. DEFINE c == <<S, K>>
  <1>1. \A value : \A g \in ToSet(groups) : LaidOK(c, value) => LaidOK(c, Place(value, g))
    BY PlaceKeeps
  <1>. HIDE DEF c
  <1>2. LaidOK(c, base)
    BY DEF c
  <1>3. Placing!FoldLeft(Place, base, groups) = FoldLeft(Place, base, groups)
    BY DEF Placing!FoldLeft, Placing!MapThenFoldSet, Placing!Max, FoldLeft, MapThenFoldSet, Max
  <1>4. LaidOK(c, Placing!FoldLeft(Place, base, groups))
    BY <1>1, <1>2, Placing!FoldInvariant DEF Placing!IsSeq, Placing!ToSet, IsSeq, ToSet
  <1>. QED  BY <1>3, <1>4 DEF c

\* DataEnd, the summary section and the footer.
LEMMA FileTailIsTail ==
    ASSUME Inv, NEW o, StreamOK(o)
    PROVE  /\ IsTail(FileTail(o), schemas, channels)
           /\ Len(FileTail(o)) >= 1 /\ FileTail(o)[1].op = "DataEnd"
  <1>. DEFINE start == Len(o.file) + 2
              base == [start |-> start, recs |-> <<>>, offsets |-> <<>>]
              c == <<schemas, channels>>
              groups == SummaryGroups(o)
              laid == FoldLeft(Place, base, groups)
              Fits(g) == IsTail(g, schemas, channels)
  <1>1. IsSeq(groups) /\ \A g \in ToSet(groups) : Fits(g)
    BY GroupsTail
  <1>2. LaidOK(c, base)
    <2>1. Fits(<<>>)
      BY EmptyFacts, QuietTail
    <2>2. DOMAIN base = {"start", "recs", "offsets"} /\ base.recs = <<>> /\ base.offsets = <<>>
      OBVIOUS
    <2>. HIDE DEF base
    <2>. QED  BY <2>1, <2>2 DEF LaidOK
  <1>. HIDE DEF base, groups
  <1>4. LaidOK(c, laid)
    BY <1>1, <1>2, GroupsPlaced
  <1>. HIDE DEF laid
  <1>5. Fits(laid.recs) /\ Fits(laid.offsets)
    BY <1>4 DEF LaidOK
  <1>. DEFINE end == start + Len(laid.recs)
              footer == [op |-> "Footer",
                         summary_start |-> IF end > start THEN start ELSE 0,
                         summary_offset_start |-> IF opts.emit_summary_offsets THEN end ELSE 0]
              dataEnd == [op |-> "DataEnd",
                          crc |-> IF opts.calculate_data_section_crc THEN o.hashed ELSE {}]
              offs == IF opts.emit_summary_offsets THEN laid.offsets ELSE <<>>
  <1>6. FileTail(o) = <<dataEnd>> \o laid.recs \o offs \o <<footer>>
    BY DEF FileTail, laid, base, groups
  <1>7. Fits(<<dataEnd>>) /\ Fits(<<footer>>) /\ dataEnd.op = "DataEnd"
    <2>1. dataEnd.op = "DataEnd" /\ footer.op = "Footer"
      OBVIOUS
    <2>. HIDE DEF dataEnd, footer
    <2>2. /\ IsSeq(<<dataEnd>>) /\ ToSet(<<dataEnd>>) = {dataEnd}
          /\ IsSeq(<<footer>>) /\ ToSet(<<footer>>) = {footer}
      BY SingletonFacts
    <2>. QED  BY <2>1, <2>2, QuietTail
  <1>8. Fits(offs)
    <2>1. Fits(<<>>)
      BY EmptyFacts, QuietTail
    <2>. QED  BY <1>5, <2>1
  <1>. HIDE DEF dataEnd, footer, offs
  <1>. DEFINE rest == (laid.recs \o offs) \o <<footer>>
  <1>9. Fits(laid.recs \o offs)
    BY <1>5, <1>8, TailConcat
  <1>10. Fits(rest)
    BY <1>7, <1>9, TailConcat
  <1>11. FileTail(o) = <<dataEnd>> \o rest
    <2>. DEFINE first == <<dataEnd>>
                last == <<footer>>
                recs == laid.recs
                mid == recs \o offs
    <2>1. IsSeq(first) /\ IsSeq(recs) /\ IsSeq(offs) /\ IsSeq(last) /\ IsSeq(mid)
      BY <1>5, <1>7, <1>8, <1>9 DEF IsTail
    <2>2. FileTail(o) = ((first \o recs) \o offs) \o last
      BY <1>6
    <2>. HIDE DEF first, last, recs
    <2>3. (first \o recs) \o offs = first \o mid
      BY <2>1, JoinAssociative
    <2>. HIDE DEF mid
    <2>4. (first \o mid) \o last = first \o (mid \o last)
      BY <2>1, JoinAssociative
    <2>. QED  BY <2>2, <2>3, <2>4 DEF first, mid, last, recs
  <1>. HIDE DEF rest
  <1>12. Fits(FileTail(o))
    BY <1>7, <1>10, <1>11, TailConcat
  <1>13. Len(FileTail(o)) >= 1 /\ FileTail(o)[1] = dataEnd
    <2>1. /\ IsSeq(<<dataEnd>>) /\ Len(<<dataEnd>>) = 1 /\ <<dataEnd>>[1] = dataEnd
          /\ IsSeq(rest) /\ Len(rest) \in Nat
      BY <1>10, SingletonFacts, IsSeqFacts DEF IsTail
    <2>. QED  BY <1>11, <2>1, ConcatFacts
  <1>. QED  BY <1>7, <1>12, <1>13

-------------------------------------------------------------------------------
(* The invariant of a finished writer.                                     *)

\* A finished writer with registries S and K.
ClosedInv(o, S, K) ==
    /\ IsSeq(Stream(o))
    /\ Faithful(Stream(o), S, K)
    /\ o.faults = 0 => /\ IsSeq(WrittenIn(o))
                       /\ Undisturbed => DeclaredIn(WrittenIn(o))

Closed == finished => ClosedInv(out, schemas, channels)

\* It is about the file, the open chunk and the errors.
LEMMA ClosedSameFile ==
    ASSUME NEW o, NEW p, SameFile(o, p), NEW S, NEW K, ClosedInv(o, S, K)
    PROVE  ClosedInv(p, S, K)
  BY SameFileWritten DEF ClosedInv, SameFile

\* The stream with a tail behind it.
LEMMA TailFaithful ==
    ASSUME NEW o, FileOK(o), o.chunk = NoChunk, NEW S, NEW K, Faithful(Stream(o), S, K),
           NEW g, IsTail(g, S, K), NEW p, p.file = o.file \o g, p.chunk = NoChunk
    PROVE  IsSeq(Stream(p)) /\ Faithful(Stream(p), S, K)
  <1>. DEFINE s == Flat(o.file)
              t == s \o g
  <1>1. IsSeq(s) /\ Whole(o.file) /\ IsSeq(g) /\ \A r \in ToSet(g) : r.op # "Chunk"
    BY StreamFacts DEF IsTail
  <1>2. Stream(o) = s
    BY <1>1, NoChunkHolds, ConcatEmpty DEF Stream
  <1>3. Flat(p.file) = t
    BY <1>1, FlatConcat
  <1>4. IsSeq(t) /\ ToSet(t) = ToSet(s) \cup ToSet(g)
    <2>. HIDE DEF s
    <2>. QED  BY <1>1, ConcatFacts, ConcatElements
  <1>. HIDE DEF t, s
  <1>5. Stream(p) = t
    BY <1>3, <1>4, NoChunkHolds, ConcatEmpty DEF Stream
  <1>. HIDE DEF Means
  <1>6. Faithful(t, S, K)
    BY <1>2, <1>4 DEF Faithful, IsTail
  <1>. QED  BY <1>4, <1>5, <1>6

\* With the whole tail behind it the data section is what was there before.
LEMMA TailEndsData ==
    ASSUME NEW o, FileOK(o), o.chunk = NoChunk,
           NEW g, IsSeq(g), Len(g) >= 1, g[1].op = "DataEnd",
           NEW p, p.file = o.file \o g, p.chunk = NoChunk
    PROVE  DataOf(p.file) = o.file /\ WrittenIn(p) = Stream(o)
  <1>. DEFINE f == o.file
              n == Len(f)
              h == f \o g
              ends == Positions(h, "DataEnd")
  <1>1. IsSeq(f) /\ n \in Nat /\ Len(g) \in Nat
    BY IsSeqFacts DEF FileOK, IsData
  <1>2. \A i \in 1..n : f[i].op # "DataEnd"
    <2>1. \A i \in 1..n : f[i] \in ToSet(f)
      BY <1>1, IsSeqFacts
    <2>2. \A r \in ToSet(f) : r.op \in DataOps
      BY DEF FileOK, IsData
    <2>3. "DataEnd" \notin DataOps
      BY DEF DataOps, ChunkOps
    <2>. QED  BY <2>1, <2>2, <2>3
  <1>. HIDE DEF f, n
  <1>3. /\ IsSeq(h) /\ Len(h) = n + Len(g) /\ DOMAIN h = 1..(n + Len(g))
        /\ \A i \in 1..(n + Len(g)) : h[i] = IF i <= n THEN f[i] ELSE g[i - n]
    <2>1. IsSeq(h) /\ Len(h) = n + Len(g)
          /\ \A i \in 1..(n + Len(g)) : h[i] = IF i <= n THEN f[i] ELSE g[i - n]
      BY <1>1, ConcatFacts DEF n
    <2>. HIDE DEF h
    <2>. QED  BY <2>1, IsSeqFacts
  <1>. HIDE DEF h
  <1>4. n + 1 \in ends
    <2>1. n + 1 \in 1..(n + Len(g)) /\ ~(n + 1 <= n) /\ (n + 1) - n = 1
      BY <1>1
    <2>2. h[n + 1] = g[1]
      BY <1>3, <2>1
    <2>. QED  BY <1>3, <2>1, <2>2 DEF Positions
  <1>5. \A q \in ends : q \in Nat /\ q >= n + 1
    <2>. SUFFICES ASSUME NEW q \in ends PROVE q \in Nat /\ q >= n + 1
      OBVIOUS
    <2>1. q \in 1..(n + Len(g)) /\ h[q].op = "DataEnd"
      BY <1>3 DEF Positions
    <2>2. ~(q <= n)
      <3>1. ASSUME q <= n PROVE FALSE
        <4>1. q \in 1..n
          BY <1>1, <2>1, <3>1
        <4>2. h[q] = f[q]
          BY <1>3, <2>1, <3>1
        <4>. QED  BY <1>2, <2>1, <4>1, <4>2
      <3>. QED  BY <3>1
    <2>. QED  BY <1>1, <2>1, <2>2
  <1>. HIDE DEF ends
  <1>6. Min(ends) = n + 1
    <2>1. \A q \in ends : n + 1 <= q
      BY <1>1, <1>5
    <2>2. \A x \in ends : (\A q \in ends : x <= q) => x = n + 1
      BY <1>1, <1>4, <1>5
    <2>. QED  BY <1>4, <2>1, <2>2 DEF Min
  <1>7. DataOf(h) = SubSeq(h, 1, n)
    <2>1. Min(ends) - 1 = n
      BY <1>1, <1>6
    <2>. QED  BY <1>4, <2>1 DEF DataOf, ends
  <1>8. SubSeq(h, 1, n) = f
    <2>1. /\ IsSeq(SubSeq(h, 1, n)) /\ Len(SubSeq(h, 1, n)) = n - 1 + 1
          /\ \A i \in 1..(n - 1 + 1) : SubSeq(h, 1, n)[i] = h[1 + i - 1]
      BY <1>1, <1>3, SubSeqFacts
    <2>2. n - 1 + 1 = n
      BY <1>1
    <2>3. ASSUME NEW i \in 1..n PROVE SubSeq(h, 1, n)[i] = f[i]
      <3>1. 1 + i - 1 = i /\ i \in 1..(n + Len(g)) /\ i <= n
        BY <1>1
      <3>. QED  BY <1>3, <2>1, <2>2, <3>1
    <2>. QED  BY <1>1, <2>1, <2>2, <2>3, SeqExtensional DEF n
  <1>9. DataOf(p.file) = f
    BY <1>7, <1>8 DEF h, f
  <1>. QED  BY <1>9 DEF WrittenIn, Stream, f

\* The file after finish() has written all of the tail.
LEMMA SealedCloses ==
    ASSUME Inv, NEW o, StreamOK(o), o.chunk = NoChunk,
           NEW b, OpenInv(o, schemas, channels, b)
    PROVE  ClosedInv(Sealed(o, FileTail(o)), schemas, channels)
  <1>. DEFINE tail == FileTail(o)
              p == Sealed(o, tail)
  <1>1. /\ IsTail(tail, schemas, channels) /\ Len(tail) >= 1 /\ tail[1].op = "DataEnd"
        /\ IsSeq(tail)
    BY FileTailIsTail DEF IsTail
  <1>. HIDE DEF tail
  <1>2. p.file = o.file \o tail /\ p.chunk = NoChunk /\ p.faults = o.faults
    BY DEF Sealed, Taken, StreamOK, OutFields
  <1>. HIDE DEF p
  <1>3. /\ FileOK(o) /\ Faithful(Stream(o), schemas, channels)
        /\ Undisturbed /\ o.faults = 0 => DeclaredIn(Stream(o))
        /\ IsSeq(Stream(o))
    BY StreamFacts DEF OpenInv
  <1>4. IsSeq(Stream(p)) /\ Faithful(Stream(p), schemas, channels)
    BY <1>1, <1>2, <1>3, TailFaithful
  <1>5. WrittenIn(p) = Stream(o)
    BY <1>1, <1>2, <1>3, TailEndsData
  <1>6. ClosedInv(p, schemas, channels)
    BY <1>2, <1>3, <1>4, <1>5 DEF ClosedInv
  <1>. QED  BY <1>6 DEF p, tail

\* The file after an I/O error on the way.
LEMMA BrokenCloses ==
    ASSUME Inv, NEW o, StreamOK(o), o.chunk = NoChunk,
           NEW b, OpenInv(o, schemas, channels, b),
           NEW part \in PartsOf(FileTail(o)),
           NEW p, p = [Sealed(o, part) EXCEPT !.faults = @ + 1]
    PROVE  ClosedInv(p, schemas, channels)
  <1>. DEFINE tail == FileTail(o)
              Fits(g) == IsTail(g, schemas, channels)
  <1>1. Fits(tail) /\ Len(tail) \in Nat
    BY FileTailIsTail, IsSeqFacts DEF IsTail
  <1>2. Fits(<<>>) /\ Fits(<<Torn>>)
    <2>1. IsSeq(<<Torn>>) /\ ToSet(<<Torn>>) = {Torn} /\ Torn.op = "Torn"
      BY SingletonFacts DEF Torn
    <2>. QED  BY <2>1, EmptyFacts, QuietTail
  <1>3. Fits(part)
    <2>1. \/ part = tail
          \/ \E k \in 0..(Len(tail) - 1), end \in {<<>>, <<Torn>>} :
               part = SubSeq(tail, 1, k) \o end
      BY DEF PartsOf
    <2>. HIDE DEF tail, Fits
    <2>2. ASSUME NEW k \in 0..(Len(tail) - 1), NEW end \in {<<>>, <<Torn>>},
                 part = SubSeq(tail, 1, k) \o end
          PROVE  Fits(part)
      <3>1. k \in Nat /\ k <= Len(tail)
        BY <1>1
      <3>2. Fits(SubSeq(tail, 1, k))
        BY <1>1, <3>1, TailPart DEF Fits
      <3>3. Fits(end)
        BY <1>2
      <3>. QED  BY <2>2, <3>2, <3>3, TailConcat DEF Fits
    <2>. QED  BY <1>1, <2>1, <2>2
  <1>4. p.file = o.file \o part /\ p.chunk = NoChunk /\ p.faults = o.faults + 1
    BY DEF Sealed, Taken, StreamOK, OutFields
  <1>5. FileOK(o) /\ Faithful(Stream(o), schemas, channels) /\ o.faults \in Nat
    BY DEF OpenInv, FileOK
  <1>6. IsSeq(Stream(p)) /\ Faithful(Stream(p), schemas, channels)
    BY <1>3, <1>4, <1>5, TailFaithful
  <1>7. p.faults # 0
    BY <1>4, <1>5
  <1>. QED  BY <1>6, <1>7 DEF ClosedInv

\* finish() that gets as far as the summary.
LEMMA FinishedOutcome ==
    ASSUME Inv, OpenInv(out, schemas, channels, book), ~finished, out.mode # "Dropped",
           NEW f \in FinishOutcomes, f.finished
    PROVE  ClosedInv(f.out, schemas, channels)
  <1>1. PICK x \in FinishChunk(out) : x.res = "Ok" /\ \E y \in Close(x.out) : f.out = y.out
    <2>1. ~SummaryPanics
      BY SummaryFindsContent DEF Inv, RegistriesOK
    <2>. QED  BY <2>1 DEF FinishOutcomes
  <1>. DEFINE o == x.out
  <1>2. StreamOK(out) /\ FileOK(out) /\ finished \in BOOLEAN /\ opts \in OptionType
    BY DEF Inv, OpenInv
  <1>3. Refusal(out) = "none"
    <2>1. Refusal(out) # "none" => x.res = Refusal(out)
      BY DEF FinishChunk, Fails
    <2>. QED  BY <1>1, <2>1, RefusalNotOk
  <1>4. out.mode \in Live
    BY <1>2, <1>3, RefusalNone DEF StreamOK, Live
  <1>5. StreamOK(o) /\ o.mode = "Raw"
    BY <1>1, <1>2, FinishChunkOK, NoChunkAfterFinishChunk DEF OutcomeOK
  <1>6. Kept(out, o)
    BY <1>2, FinishChunkKeeps DEF Keeps
  <1>7. OpenInv(o, schemas, channels, book) /\ o.chunk = NoChunk
    BY <1>4, <1>5, <1>6, OpenKept DEF StreamOK
  <1>8. PICK y \in Close(o) : f.out = y.out
    BY <1>1
  <1>. HIDE DEF o
  <1>9. \/ y.out = Sealed(o, FileTail(o))
        \/ \E part \in PartsOf(FileTail(o)) : y.out = [Sealed(o, part) EXCEPT !.faults = @ + 1]
    BY DEF Close, Ok, IoError
  <1>. QED  BY <1>5, <1>7, <1>8, <1>9, SealedCloses, BrokenCloses

\* into_inner() of a writer that is not finished: an open chunk or attachment
\* is lost, the rest of the file stays.
LEMMA IntoInnerCloses ==
    ASSUME Inv, OpenInv(out, schemas, channels, book), ~finished, IntoInner
    PROVE  ClosedInv(out', schemas, channels)
  <1>. DEFINE torn == out.mode = "Attachment" \/ (out.mode = "Chunk" /\ ~out.chunk.buffered)
              left == IF torn THEN Appended(out, <<Torn>>) ELSE out
              g == IF torn THEN <<Torn>> ELSE <<>>
              p == out'
              s == Flat(out.file)
              t == s \o g
  <1>1. /\ StreamOK(out) /\ FileOK(out) /\ Faithful(Stream(out), schemas, channels)
        /\ Undisturbed /\ out.faults = 0 => DeclaredIn(Stream(out))
        /\ DOMAIN out = OutFields
    BY DEF Inv, OpenInv, StreamOK
  <1>2. /\ IsSeq(s) /\ IsSeq(out.file) /\ IsSeq(out.chunk.recs) /\ IsSeq(Stream(out))
        /\ Stream(out) = s \o out.chunk.recs
    BY <1>1, StreamFacts DEF Stream, FileOK, IsData
  <1>3. IsSeq(g) /\ \A r \in ToSet(g) : r.op \in DataOps \ {"Chunk"} /\ ~Loud(r)
    <2>1. IsSeq(<<Torn>>) /\ ToSet(<<Torn>>) = {Torn}
      BY SingletonFacts
    <2>2. Torn.op \in DataOps \ {"Chunk"} /\ ~Loud(Torn)
      BY TornIsQuiet DEF PlainOps
    <2>. QED  BY <2>1, <2>2, EmptyFacts
  <1>4. left.file = out.file \o g /\ left.faults = out.faults /\ DOMAIN left = OutFields
    <2>1. CASE torn
      BY <1>1, <2>1 DEF Appended, OutFields
    <2>2. CASE ~torn
      BY <1>1, <1>2, <2>2, ConcatEmpty
    <2>. QED  BY <2>1, <2>2
  <1>5. p = [Taken(left) EXCEPT !.mode = "Dropped", !.chunk = NoChunk, !.att = NoAttachment]
    BY DEF IntoInner
  <1>. HIDE DEF left, g, p, s
  <1>6. p.file = out.file \o g /\ p.chunk = NoChunk /\ p.faults = out.faults
    BY <1>4, <1>5 DEF Taken, OutFields
  <1>7. FileOK(p) /\ Stream(p) = t
    BY <1>1, <1>3, <1>6, FileGrows DEF s
  <1>8. WrittenIn(p) = t /\ IsSeq(t) /\ Len(t) \in Nat /\ Len(s) \in Nat
    BY <1>2, <1>7, OpenWritten, StreamFacts, IsSeqFacts
  <1>9. Faithful(t, schemas, channels)
    <2>1. Within(s \o out.chunk.recs, t)
      BY <1>2, <1>3, WithinPrefix
    <2>. QED  BY <1>1, <1>2, <1>8, <2>1, FaithfulWithin
  <1>10. Undisturbed /\ p.faults = 0 => DeclaredIn(t)
    <2>. SUFFICES ASSUME Undisturbed /\ p.faults = 0 PROVE DeclaredIn(t)
      OBVIOUS
    <2>1. DeclaredIn(s \o out.chunk.recs)
      BY <1>1, <1>2, <1>6
    <2>2. DeclaredIn(s)
      BY <1>2, <2>1, DeclaredPrefix
    <2>3. Same(s, t)
      BY <1>2, <1>3, SameConcat
    <2>. QED  BY <1>8, <2>2, <2>3, DeclaredSame
  <1>. HIDE DEF t
  <1>11. ClosedInv(p, schemas, channels)
    BY <1>7, <1>8, <1>9, <1>10 DEF ClosedInv
  <1>. QED  BY <1>11 DEF p

\* The calls that finish a writer.
LEMMA StepEnds ==
    ASSUME ~finished, [Next]_vars, finished'
    PROVE  Finish \/ Drop \/ IntoInner
  <1>. DEFINE Ends == Finish \/ Drop \/ IntoInner
  <1>. SUFFICES Ends
    OBVIOUS
  <1>1. ~UNCHANGED finished
    OBVIOUS
  <1>2. ASSUME NEW c, AddSchema(c) PROVE FALSE
    BY <1>1, <1>2 DEF AddSchema
  <1>3. ASSUME NEW s, NEW p, AddChannel(s, p) PROVE FALSE
    BY <1>1, <1>3 DEF AddChannel
  <1>4. ASSUME NEW i, NEW t, WriteToKnownChannel(i, t) PROVE FALSE
    BY <1>1, <1>4 DEF WriteToKnownChannel
  <1>5. ASSUME NEW i, NEW p, NEW s, NEW c, NEW t, Write(i, p, s, c, t) PROVE FALSE
    BY <1>1, <1>5 DEF Write
  <1>6. ASSUME NEW call, NEW outcomes, StreamCall(call, outcomes) PROVE FALSE
    BY <1>1, <1>6 DEF StreamCall
  <1>7. ~StreamCalls
    BY <1>6, StreamSteps
  <1>8. ~FinishAttachment /\ \A n \in 1..MaxAttachment : ~PutAttachmentBytes(n)
    BY <1>6 DEF FinishAttachment, PutAttachmentBytes
  <1>9. ~UNCHANGED vars
    BY <1>1 DEF vars
  <1>. HIDE DEF Ends
  <1>. QED  BY <1>2, <1>3, <1>4, <1>5, <1>7, <1>8, <1>9 DEF Next, StreamCalls, Ends

\* The step that finishes a writer.
LEMMA StepCloses ==
    ASSUME Inv, OpenInv(out, schemas, channels, book), ~finished, [Next]_vars, finished'
    PROVE  ClosedInv(out', schemas', channels')
  <1>1. Finish \/ Drop \/ IntoInner
    BY StepEnds
  <1>2. UNCHANGED <<schemas, channels>>
    BY <1>1 DEF Finish, Drop, IntoInner
  <1>3. CASE Finish
    <2>1. PICK f \in FinishOutcomes : out' = f.out /\ f.finished
      BY <1>3 DEF Finish
    <2>2. out.mode # "Dropped"
      BY <1>3 DEF Finish, Calls
    <2>. QED  BY <1>2, <2>1, <2>2, FinishedOutcome
  <1>4. CASE Drop
    <2>1. PICK f \in FinishOutcomes : out' = LeftBy(f.out) /\ f.finished
      BY <1>4 DEF Drop, LeftBy
    <2>2. out.mode # "Dropped"
      BY <1>4 DEF Drop
    <2>3. ClosedInv(f.out, schemas, channels)
      BY <2>1, <2>2, FinishedOutcome
    <2>4. StreamOK(f.out) /\ f.out.mode = "Raw"
      BY <2>1, <2>2, FinishOutcomesOK DEF Inv, RegistriesOK
    <2>5. SameFile(f.out, LeftBy(f.out))
      BY <2>4 DEF LeftBy, StreamOK, OutFields, SameFile
    <2>. QED  BY <1>2, <2>1, <2>3, <2>5, ClosedSameFile
  <1>5. CASE IntoInner
    BY <1>2, <1>5, IntoInnerCloses
  <1>. QED  BY <1>1, <1>3, <1>4, <1>5

\* What the file of a finished writer says of the ids, in every reachable
\* state.
THEOREM ClosedInvariant == Spec => []Closed
  <1>1. Init => Closed
    BY DEF Init, Closed
  <1>2. ASSUME Inv, Unfinished, Closed, [Next]_vars PROVE Closed'
    <2>. SUFFICES ASSUME finished' PROVE ClosedInv(out', schemas', channels')
      BY DEF Closed, ClosedInv, Undisturbed
    <2>1. CASE finished
      <3>1. SameFile(out, out')
        BY <1>2, <2>1, FinishedFrame
      <3>2. ClosedInv(out, schemas, channels)
        BY <1>2, <2>1 DEF Closed
      <3>3. Extends(schemas, schemas') /\ Extends(channels, channels')
        BY <1>2, RegistriesGrow DEF Registered
      <3>4. ClosedInv(out, schemas', channels')
        BY <3>2, <3>3, FaithfulExtends DEF ClosedInv
      <3>. QED  BY <3>1, <3>4, ClosedSameFile
    <2>2. CASE ~finished
      BY <1>2, <2>2, StepCloses DEF Unfinished
    <2>. QED  BY <2>1, <2>2
  <1>. QED  BY <1>1, <1>2, InvHolds, UnfinishedInvariant, PTL DEF Spec

-------------------------------------------------------------------------------
(* The theorems about every writer, finished or not.                       *)

\* What the stream declares is what the registries say.
LEMMA AlwaysFaithful ==
    ASSUME Unfinished, Closed, finished \in BOOLEAN
    PROVE  IsSeq(Stream(out)) /\ Faithful(Stream(out), schemas, channels)
  <1>1. CASE finished
    BY <1>1 DEF Closed, ClosedInv
  <1>2. CASE ~finished
    BY <1>2, StreamFacts DEF Unfinished, OpenInv
  <1>. QED  BY <1>1, <1>2

\* Two declarations of one id in the file, the summary section included, say
\* the same, whatever calls are made and whatever errors they meet.
THEOREM IdsAreUnambiguous == Spec => []IdsUnambiguous
  <1>1. ASSUME Inv, Unfinished, Closed PROVE IdsUnambiguous
    <2>. DEFINE all == Stream(out)
    <2>1. IsSeq(all) /\ Faithful(all, schemas, channels)
      BY <1>1, AlwaysFaithful DEF Inv
    <2>2. CanonicalInjective(schemas) /\ CanonicalInjective(channels)
      BY <1>1 DEF Inv, RegistriesOK, RegistriesConsistent, RegistryConsistent
    <2>. SUFFICES ASSUME NEW op \in {"Schema", "Channel"},
                         NEW p \in Positions(all, op), NEW q \in Positions(all, op),
                         all[p].id = all[q].id
                  PROVE  all[p].content = all[q].content
      BY DEF IdsUnambiguous, Stream
    <2>. HIDE DEF all
    <2>3. all[p] \in ToSet(all) /\ all[q] \in ToSet(all) /\ all[p].op = op /\ all[q].op = op
      BY <2>1 DEF Positions, ToSet
    <2>. DEFINE reg == IF op = "Schema" THEN schemas ELSE channels
    <2>4. Means(reg, all[p].id, all[p].content) /\ Means(reg, all[q].id, all[q].content)
      <3>. HIDE DEF Means
      <3>. QED  BY <2>1, <2>3 DEF Faithful
    <2>5. CanonicalInjective(reg)
      BY <2>2
    <2>. HIDE DEF reg
    <2>. QED  BY <2>4, <2>5 DEF Means, CanonicalInjective
  <1>. QED  BY <1>1, InvHolds, UnfinishedInvariant, ClosedInvariant, PTL

\* Every id in the file means one thing and, without I/O errors, is declared
\* before it is used: a message follows a record of its channel, a channel a
\* record of its schema.  The client makes no other call between
\* start_attachment and finish_attachment: one that is refused there has
\* registered its id without writing the record.
THEOREM IdsAlwaysResolve ==
    ASSUME "interrupt" \notin Api
    PROVE  Spec => []IdsResolve
  <1>1. ASSUME Inv, Unfinished, Closed PROVE DeclaredBeforeUse
    <2>. DEFINE s == WrittenIn(out)
    <2>. SUFFICES ASSUME out.faults = 0, NEW p \in DOMAIN s
                  PROVE  /\ s[p].op = "Message" =>
                              \E q \in 1..(p - 1) :
                                s[q].op = "Channel" /\ s[q].id = s[p].channel
                         /\ s[p].op = "Channel" /\ s[p].content.schema # 0 =>
                              \E q \in 1..(p - 1) :
                                s[q].op = "Schema" /\ s[q].id = s[p].content.schema
      BY WrittenFacts DEF DeclaredBeforeUse
    <2>1. IsSeq(s) /\ DeclaredIn(s)
      <3>1. CASE finished
        BY <1>1, <3>1 DEF Closed, ClosedInv, Undisturbed
      <3>2. CASE ~finished
        BY <1>1, <3>2, OpenWritten, StreamFacts DEF Unfinished, OpenInv, Undisturbed
      <3>. QED  BY <1>1, <3>1, <3>2
    <2>. HIDE DEF s
    <2>2. p \in 1..Len(s)
      BY <2>1, IsSeqFacts
    <2>. QED  BY <2>1, <2>2 DEF DeclaredIn, Declares
  <1>2. Spec => []DeclaredBeforeUse
    BY <1>1, InvHolds, UnfinishedInvariant, ClosedInvariant, PTL
  <1>3. IdsUnambiguous /\ DeclaredBeforeUse => IdsResolve
    BY DEF IdsResolve
  <1>. QED  BY <1>2, <1>3, IdsAreUnambiguous, PTL

\* Without I/O errors write() and write_to_known_channel() return Ok exactly
\* when they have put their message into the stream.
THEOREM OkIsWritten == Spec => OkMeansWritten
  <1>. DEFINE num(s) == Cardinality(Positions(s, "Message"))
              Told == out'.faults = 0 /\ result'.call \in {"write", "write_to_known_channel"}
                      => num(Written') = num(Written) + IF result'.res = "Ok" THEN 1 ELSE 0
  <1>1. ASSUME Inv, Unfinished, Closed, Next PROVE Told
    <2>. SUFFICES ASSUME out'.faults = 0, result'.call \in {"write", "write_to_known_channel"}
                  PROVE  num(WrittenIn(out'))
                           = num(WrittenIn(out)) + IF result'.res = "Ok" THEN 1 ELSE 0
      BY WrittenFacts
    <2>1. PICK id \in Ids, t \in Nat :
             \/ WriteToKnownChannel(id, t)
             \/ \E topic \in Topics, s \in Ids, c \in SchemaContents \cup {NoSchema} :
                  Write(id, topic, s, c, t)
      BY <1>1, WriteCalls
    <2>2. finished' = finished
      BY <2>1 DEF WriteToKnownChannel, Write
    <2>3. CASE Refusal(out) # "none"
      <3>1. out' = out /\ result'.res # "Ok"
        BY <1>1, <2>1, <2>3, RefusedResult
      <3>2. num(WrittenIn(out)) \in Nat
        <4>1. IsSeq(WrittenIn(out))
          <5>1. CASE finished
            BY <1>1, <3>1, <5>1 DEF Closed, ClosedInv
          <5>2. CASE ~finished
            BY <1>1, <5>2, OpenWritten, StreamFacts DEF Unfinished, OpenInv
          <5>. QED  BY <5>1, <5>2
        <4>. DEFINE w == WrittenIn(out)
        <4>2. Len(w) \in Nat /\ Positions(w, "Message") \subseteq 1..Len(w)
          BY <4>1, IsSeqFacts DEF Positions
        <4>. HIDE DEF w
        <4>3. IsFiniteSet(1..Len(w))
          BY <4>2, FS_Interval
        <4>4. num(w) \in Nat
          BY <4>2, <4>3, FS_Subset, FS_CardinalityType
        <4>. QED  BY <4>4 DEF w
      <3>. HIDE DEF num
      <3>. QED  BY <3>1, <3>2
    <2>4. CASE Refusal(out) = "none"
      <3>1. out.mode # "Dropped"
        BY <1>1, NotDropped
      <3>2. ~finished /\ out.mode \in {"Raw", "Chunk"} /\ finished \in BOOLEAN
        BY <1>1, <2>4, <3>1, RefusalNone DEF Inv, StreamOK
      <3>3. FileOK(out) /\ Ready(out) /\ OpenInv(out, schemas, channels, book)
        BY <1>1, <3>2 DEF Unfinished, OpenInv, Ready, Inv
      <3>4. Tells(out)
        BY <1>1, <2>1, <3>2, <3>3, WriteTells
      <3>5. FileOK(out')
        BY <1>1, <2>2, <3>2, <3>3, NextOpen DEF OpenInv
      <3>6. num(WrittenIn(out)) = NumMessages(out) /\ num(WrittenIn(out')) = NumMessages(out')
        BY <3>3, <3>5, MessagesArePositions
      <3>. HIDE DEF num
      <3>. QED  BY <3>4, <3>6 DEF Tells
    <2>. QED  BY <2>3, <2>4
  <1>. HIDE DEF Told
  <1>2. Inv /\ Unfinished /\ Closed /\ [Next]_vars => [Told]_vars
    BY <1>1
  <1>3. Spec => [][Told]_vars
    BY <1>2, InvHolds, UnfinishedInvariant, ClosedInvariant, PTL DEF Spec
  <1>. QED  BY <1>3 DEF OkMeansWritten, Told

-------------------------------------------------------------------------------
(* The attachments of the file.                                            *)

\* Positions in their order.
InOrder(S) == SortedSet(S, <)

UpTo(S) == {p \in S \X S : p[1] < p[2]}

\* Positions in their order: the first, the second, and so on.
LEMMA SortedPositions ==
    ASSUME NEW S \in SUBSET Nat, IsFiniteSet(S)
    PROVE  /\ IsSeq(InOrder(S)) /\ Len(InOrder(S)) = Cardinality(S)
           /\ \A n \in 1..Cardinality(S) :
                /\ InOrder(S)[n] \in S
                /\ Cardinality({y \in S : y < InOrder(S)[n]}) = n - 1
  <1>. DEFINE r == UpTo(S)
              m == Cardinality(S)
              nth(n) == CHOOSE x \in S : Cardinality({y \in S : y < x}) = n - 1
              f == [n \in 1..m |-> nth(n)]
  <1>1. m \in Nat
    BY FS_CardinalityType
  <1>2. StrictTotal(S, r) /\ \A x \in S : Below(S, r, x) = {y \in S : y < x}
    BY DEF StrictTotal, UpTo, Below
  <1>3. ASSUME NEW n \in 1..m PROVE nth(n) \in S /\ Cardinality({y \in S : y < nth(n)}) = n - 1
    <2>1. \E x \in S : Cardinality(Below(S, r, x)) = n - 1
      BY <1>2, RankUnique
    <2>2. \E x \in S : Cardinality({y \in S : y < x}) = n - 1
      BY <1>2, <2>1
    <2>. QED  BY <2>2
  <1>4. InOrder(S) = f \o <<>>
    BY DEF InOrder, SortedSet
  <1>. HIDE DEF nth
  <1>5. DOMAIN f = 1..m /\ f = [n \in 1..m |-> f[n]] /\ \A n \in 1..m : f[n] = nth(n)
    OBVIOUS
  <1>. HIDE DEF f
  <1>6. IsSeq(f) /\ Len(f) = m
    BY <1>1, <1>5, FunctionIsSeq
  <1>7. InOrder(S) = f
    BY <1>4, <1>6, ConcatEmpty
  <1>. QED  BY <1>3, <1>5, <1>6, <1>7

\* A position above the others comes last.
LEMMA SortedGrows ==
    ASSUME NEW S \in SUBSET Nat, IsFiniteSet(S), NEW m \in Nat, \A x \in S : x < m
    PROVE  InOrder(S \cup {m}) = Append(InOrder(S), m)
  <1>. DEFINE T == S \cup {m}
              n == Cardinality(S)
              s == InOrder(S)
              t == InOrder(T)
              rank == [x \in T |-> Cardinality({y \in T : y < x})]
  <1>1. n \in Nat /\ T \in SUBSET Nat /\ IsFiniteSet(T) /\ Cardinality(T) = n + 1 /\ m \notin S
    <2>1. m \notin S
      OBVIOUS
    <2>. QED  BY <2>1, FS_CardinalityType, FS_AddElement
  <1>2. /\ IsSeq(s) /\ Len(s) = n
        /\ \A i \in 1..n : s[i] \in S /\ Cardinality({y \in S : y < s[i]}) = i - 1
    BY SortedPositions
  <1>3. /\ IsSeq(t) /\ Len(t) = n + 1
        /\ \A i \in 1..(n + 1) : t[i] \in T /\ rank[t[i]] = i - 1
    BY <1>1, SortedPositions
  <1>4. ASSUME NEW x \in S PROVE {y \in T : y < x} = {y \in S : y < x} /\ x \in T
    OBVIOUS
  <1>5. {y \in T : y < m} = S
    <2>1. ~(m < m) /\ \A y \in T : y \in S \/ y = m
      OBVIOUS
    <2>. QED  BY <2>1
  <1>6. /\ rank[m] = n
        /\ \A i \in 1..n : s[i] \in T /\ rank[s[i]] = i - 1
    BY <1>2, <1>4, <1>5
  <1>7. \A x, y \in T : rank[x] = rank[y] => x = y
    <2>. DEFINE r == UpTo(T)
    <2>1. StrictTotal(T, r) /\ \A x \in T : Below(T, r, x) = {y \in T : y < x}
      BY <1>1 DEF StrictTotal, UpTo, Below
    <2>a. \A x \in T : rank[x] = Cardinality(Below(T, r, x))
      BY <2>1
    <2>. HIDE DEF r, rank, T
    <2>b. /\ \A x \in T : Cardinality(Below(T, r, x)) \in 0..(Cardinality(T) - 1)
          /\ \A x, y \in T : <<x, y>> \in r => Cardinality(Below(T, r, x)) < Cardinality(Below(T, r, y))
      BY <1>1, <2>1, RankGrows
    <2>2. \A x \in T : rank[x] \in Nat
      BY <1>1, <2>a, <2>b
    <2>3. \A x, y \in T : x < y => rank[x] < rank[y]
      <3>. SUFFICES ASSUME NEW x \in T, NEW y \in T, x < y PROVE rank[x] < rank[y]
        OBVIOUS
      <3>1. <<x, y>> \in r
        BY DEF UpTo, r
      <3>. QED  BY <2>a, <2>b, <3>1
    <2>4. \A x, y \in T : x < y \/ y < x \/ x = y
      BY <1>1
    <2>. QED  BY <2>2, <2>3, <2>4
  <1>. HIDE DEF s, t, rank, T, n
  <1>8. /\ IsSeq(Append(s, m)) /\ Len(Append(s, m)) = n + 1
        /\ \A i \in 1..(n + 1) : Append(s, m)[i] = IF i <= n THEN s[i] ELSE m
    BY <1>1, <1>2, AppendFacts
  <1>9. ASSUME NEW i \in 1..(n + 1) PROVE t[i] = Append(s, m)[i]
    <2>1. CASE i <= n
      <3>1. i \in 1..n
        BY <1>1, <2>1
      <3>2. t[i] = s[i]
        BY <1>3, <1>6, <1>7, <3>1
      <3>. QED  BY <1>8, <2>1, <3>2
    <2>2. CASE ~(i <= n)
      <3>1. i = n + 1 /\ rank[t[i]] = n
        BY <1>1, <1>3, <2>2
      <3>2. m \in T
        BY DEF T
      <3>3. t[i] = m
        BY <1>3, <1>6, <1>7, <3>1, <3>2
      <3>. QED  BY <1>8, <2>2, <3>3
    <2>. QED  BY <2>1, <2>2
  <1>10. t = Append(s, m)
    BY <1>1, <1>3, <1>8, <1>9, SeqExtensional
  <1>. QED  BY <1>10 DEF t, s, T

\* The attachments of a file in their order, and the index record of each.
Attached(f) == InOrder(Positions(f, "Attachment"))

IndexRecords(f, at) == [k \in DOMAIN at |-> [op |-> "AttachmentIndex", offset |-> at[k],
                                             length |-> f[at[k]].length]]

Described(o) ==
    /\ o.attachment_count = Len(Attached(o.file))
    /\ opts.emit_attachment_indexes => o.attachment_indexes = IndexRecords(o.file, Attached(o.file))

\* While the stream is usable, the count and the indexes describe the attachments.
Indexed(o) == o.mode \in Live => Described(o)

\* The attachments lie in the file, one after the other.
LEMMA AttachedFacts ==
    ASSUME NEW f, IsSeq(f)
    PROVE  LET at == Attached(f)
               S == Positions(f, "Attachment")
           IN /\ S \in SUBSET Nat /\ IsFiniteSet(S) /\ S \subseteq 1..Len(f)
              /\ IsSeq(at) /\ Len(at) \in Nat /\ DOMAIN at = 1..Len(at)
              /\ \A k \in 1..Len(at) : at[k] \in S
  <1>. DEFINE S == Positions(f, "Attachment")
              at == Attached(f)
  <1>1. DOMAIN f = 1..Len(f) /\ Len(f) \in Nat /\ IsFiniteSet(DOMAIN f)
    BY IsSeqFacts, FinitePlaces
  <1>2. S \subseteq 1..Len(f) /\ S \in SUBSET (DOMAIN f)
    BY <1>1 DEF Positions
  <1>3. IsFiniteSet(S) /\ S \in SUBSET Nat
    BY <1>1, <1>2, FS_Subset
  <1>4. at = InOrder(S)
    BY DEF Attached
  <1>. HIDE DEF S, at
  <1>5. IsSeq(at) /\ Len(at) = Cardinality(S) /\ \A k \in 1..Cardinality(S) : at[k] \in S
    BY <1>3, <1>4, SortedPositions
  <1>6. Len(at) \in Nat /\ DOMAIN at = 1..Len(at)
    BY <1>5, IsSeqFacts
  <1>. QED  BY <1>2, <1>3, <1>5, <1>6 DEF S, at

\* Other records behind the file leave the description true.
LEMMA DescribedGrows ==
    ASSUME NEW o, Described(o), IsSeq(o.file), NEW rs, IsSeq(rs),
           \A r \in ToSet(rs) : r.op # "Attachment",
           NEW p, p.file = o.file \o rs, p.attachment_count = o.attachment_count,
           p.attachment_indexes = o.attachment_indexes
    PROVE  Described(p)
  <1>. DEFINE f == o.file
              g == p.file
              at == Attached(f)
  <1>1. /\ IsSeq(g) /\ Len(g) = Len(f) + Len(rs)
        /\ \A i \in 1..(Len(f) + Len(rs)) : g[i] = IF i <= Len(f) THEN f[i] ELSE rs[i - Len(f)]
    BY ConcatFacts
  <1>2. /\ Len(f) \in Nat /\ Len(rs) \in Nat /\ DOMAIN f = 1..Len(f)
        /\ DOMAIN g = 1..Len(g) /\ DOMAIN rs = 1..Len(rs)
    BY <1>1, IsSeqFacts
  <1>3. \A i \in 1..Len(rs) : rs[i].op # "Attachment"
    BY <1>2 DEF ToSet
  <1>. HIDE DEF f, g
  <1>4. Positions(g, "Attachment") = Positions(f, "Attachment")
    <2>1. \A i \in 1..Len(g) : i > Len(f) => g[i].op # "Attachment"
      BY <1>1, <1>2, <1>3
    <2>2. \A i \in 1..Len(f) : i \in 1..Len(g) /\ g[i] = f[i]
      BY <1>1, <1>2
    <2>3. \A i \in 1..Len(g) : i > Len(f) \/ i \in 1..Len(f)
      BY <1>1, <1>2
    <2>. QED  BY <1>2, <2>1, <2>2, <2>3 DEF Positions
  <1>5. Attached(g) = at
    BY <1>4 DEF Attached
  <1>6. DOMAIN at = 1..Len(at) /\ \A k \in 1..Len(at) : at[k] \in 1..Len(f)
    <2>1. IsSeq(f)
      BY DEF f
    <2>. QED  BY <2>1, AttachedFacts
  <1>7. \A k \in DOMAIN at : g[at[k]] = f[at[k]]
    BY <1>1, <1>2, <1>6
  <1>. HIDE DEF at
  <1>8. IndexRecords(g, at) = IndexRecords(f, at)
    BY <1>7 DEF IndexRecords
  <1>. QED  BY <1>5, <1>8 DEF Described, f, g, at

\* So does everything that leaves the file and the indexes alone.
LEMMA DescribedSame ==
    ASSUME NEW o, NEW p, p.file = o.file, p.attachment_count = o.attachment_count,
           p.attachment_indexes = o.attachment_indexes
    PROVE  Described(o) => Described(p)
  BY DEF Described

\* So while the stream is usable, and a stream that is not says nothing.
LEMMA IndexedSame ==
    ASSUME NEW o, Indexed(o), NEW p, p.mode \in Live => o.mode \in Live,
           p.file = o.file, p.attachment_count = o.attachment_count,
           p.attachment_indexes = o.attachment_indexes
    PROVE  Indexed(p)
  BY DescribedSame DEF Indexed

\* The same for a file that has grown by other records.
LEMMA IndexedGrows ==
    ASSUME NEW o, Indexed(o), IsSeq(o.file), NEW rs, IsSeq(rs),
           \A r \in ToSet(rs) : r.op # "Attachment",
           NEW p, p.mode \in Live => o.mode \in Live,
           p.file = o.file \o rs, p.attachment_count = o.attachment_count,
           p.attachment_indexes = o.attachment_indexes
    PROVE  Indexed(p)
  BY DescribedGrows DEF Indexed

\* One more attachment, counted and, where indexes are asked for, indexed.
LEMMA DescribedMore ==
    ASSUME NEW o, Described(o), IsSeq(o.file), NEW n,
           NEW p, p.file = o.file \o <<[op |-> "Attachment", length |-> n]>>,
           p.attachment_count = o.attachment_count + 1,
           opts.emit_attachment_indexes =>
             p.attachment_indexes = Append(o.attachment_indexes,
                                           [op |-> "AttachmentIndex",
                                            offset |-> Len(o.file) + 1, length |-> n])
    PROVE  Described(p)
  <1>. DEFINE rec == [op |-> "Attachment", length |-> n]
              f == o.file
              g == p.file
              m == Len(f) + 1
              S == Positions(f, "Attachment")
              at == Attached(f)
              bt == Attached(g)
              entry(q, k) == [op |-> "AttachmentIndex", offset |-> q[k], length |-> g[q[k]].length]
  <1>0. rec.op = "Attachment" /\ rec.length = n
    OBVIOUS
  <1>. HIDE DEF rec
  <1>1. IsSeq(<<rec>>) /\ Len(<<rec>>) = 1 /\ <<rec>>[1] = rec
    BY SingletonFacts
  <1>2. /\ IsSeq(g) /\ Len(g) = m
        /\ \A i \in 1..m : g[i] = IF i <= Len(f) THEN f[i] ELSE <<rec>>[i - Len(f)]
    <2>1. g = f \o <<rec>>
      BY DEF rec
    <2>. QED  BY <1>1, <2>1, ConcatFacts
  <1>3. Len(f) \in Nat /\ DOMAIN f = 1..Len(f) /\ DOMAIN g = 1..m
    BY <1>2, IsSeqFacts
  <1>4. g[m] = rec /\ \A i \in 1..Len(f) : g[i] = f[i]
    BY <1>1, <1>2, <1>3
  <1>5. /\ S \in SUBSET Nat /\ IsFiniteSet(S) /\ S \subseteq 1..Len(f)
        /\ IsSeq(at) /\ Len(at) \in Nat /\ DOMAIN at = 1..Len(at)
        /\ \A k \in 1..Len(at) : at[k] \in S
    BY AttachedFacts
  <1>. HIDE DEF f, g
  <1>6. Positions(g, "Attachment") = S \cup {m}
    <2>1. \A i \in 1..m : i \in 1..Len(f) \/ i = m
      BY <1>3
    <2>2. m \in 1..m /\ \A i \in 1..Len(f) : i \in 1..m
      BY <1>3
    <2>. QED  BY <1>0, <1>3, <1>4, <2>1, <2>2 DEF Positions
  <1>7. bt = Append(at, m)
    <2>1. m \in Nat /\ \A x \in S : x < m
      BY <1>3, <1>5
    <2>. HIDE DEF m, S
    <2>2. InOrder(S \cup {m}) = Append(InOrder(S), m)
      BY <1>5, <2>1, SortedGrows
    <2>. QED  BY <1>6, <2>2 DEF Attached, S
  <1>8. /\ IsSeq(bt) /\ Len(bt) = Len(at) + 1 /\ DOMAIN bt = 1..(Len(at) + 1)
        /\ bt[Len(at) + 1] = m /\ \A k \in 1..Len(at) : bt[k] = at[k]
    BY <1>5, <1>7, AppendFacts, IsSeqFacts
  <1>9. p.attachment_count = Len(bt)
    BY <1>8 DEF Described, f
  <1>10. ASSUME opts.emit_attachment_indexes PROVE p.attachment_indexes = IndexRecords(g, bt)
    <2>. DEFINE ix == IndexRecords(f, at)
                jx == IndexRecords(g, bt)
                new == [op |-> "AttachmentIndex", offset |-> m, length |-> n]
    <2>1. /\ DOMAIN ix = 1..Len(at) /\ ix = [k \in 1..Len(at) |-> ix[k]]
          /\ \A k \in 1..Len(at) : ix[k] = [op |-> "AttachmentIndex", offset |-> at[k], length |-> f[at[k]].length]
      BY <1>5 DEF IndexRecords
    <2>2. /\ DOMAIN jx = 1..(Len(at) + 1) /\ jx = [k \in 1..(Len(at) + 1) |-> jx[k]]
          /\ \A k \in 1..(Len(at) + 1) : jx[k] = entry(bt, k)
      BY <1>8 DEF IndexRecords
    <2>3. p.attachment_indexes = Append(ix, new)
      BY <1>10 DEF Described, f
    <2>4. \A k \in 1..Len(at) : jx[k] = ix[k]
      <3>. SUFFICES ASSUME NEW k \in 1..Len(at) PROVE jx[k] = ix[k]
        OBVIOUS
      <3>1. k \in 1..(Len(at) + 1) /\ bt[k] = at[k] /\ at[k] \in 1..Len(f)
        BY <1>5, <1>8
      <3>2. g[bt[k]] = f[at[k]]
        BY <1>4, <3>1
      <3>3. entry(bt, k) = [op |-> "AttachmentIndex", offset |-> at[k], length |-> f[at[k]].length]
        BY <3>1, <3>2
      <3>. HIDE DEF ix, jx, entry
      <3>. QED  BY <2>1, <2>2, <3>1, <3>3
    <2>5. jx[Len(at) + 1] = new
      <3>1. Len(at) + 1 \in 1..(Len(at) + 1) /\ g[bt[Len(at) + 1]] = rec
        BY <1>4, <1>5, <1>8
      <3>2. entry(bt, Len(at) + 1) = new
        BY <1>0, <1>8, <3>1
      <3>. HIDE DEF jx, entry, new
      <3>. QED  BY <2>2, <3>1, <3>2
    <2>. HIDE DEF ix, jx, new
    <2>a. Len(at) \in Nat /\ Len(at) + 1 \in Nat
      BY <1>5
    <2>b. IsSeq(ix) /\ Len(ix) = Len(at)
      BY <2>a, <2>1, FunctionIsSeq
    <2>c. IsSeq(jx) /\ Len(jx) = Len(at) + 1
      BY <2>a, <2>2, FunctionIsSeq
    <2>6. IsSeq(ix) /\ Len(ix) = Len(at) /\ IsSeq(jx) /\ Len(jx) = Len(at) + 1
      BY <2>b, <2>c
    <2>7. /\ IsSeq(Append(ix, new)) /\ Len(Append(ix, new)) = Len(at) + 1
          /\ \A k \in 1..Len(at) : Append(ix, new)[k] = ix[k]
          /\ Append(ix, new)[Len(at) + 1] = new
      BY <2>6, AppendFacts
    <2>8. \A k \in 1..(Len(at) + 1) : k \in 1..Len(at) \/ k = Len(at) + 1
      BY <1>5
    <2>9. jx = Append(ix, new)
      <3>. DEFINE ax == Append(ix, new)
      <3>1. \A k \in 1..Len(jx) : jx[k] = Append(ix, new)[k]
        BY <2>4, <2>5, <2>6, <2>7, <2>8
      <3>2. IsSeq(jx) /\ IsSeq(ax) /\ Len(jx) = Len(ax) /\ \A k \in 1..Len(jx) : jx[k] = ax[k]
        BY <2>6, <2>7, <3>1
      <3>. HIDE DEF ax
      <3>3. jx = ax
        BY <3>2, SeqExtensional
      <3>. QED  BY <3>3 DEF ax
    <2>. QED  BY <2>3, <2>9 DEF jx
  <1>. QED  BY <1>9, <1>10 DEF Described, g

\* A record that is no attachment, behind the file.
LEMMA AppendedIndexed ==
    ASSUME NEW o, StreamOK(o), FileOK(o), Indexed(o), NEW r, r.op # "Attachment"
    PROVE  Indexed(Appended(o, <<r>>))
  <1>. DEFINE p == Appended(o, <<r>>)
  <1>1. /\ p.file = o.file \o <<r>> /\ p.mode = o.mode
        /\ p.attachment_count = o.attachment_count
        /\ p.attachment_indexes = o.attachment_indexes
    BY DEF Appended, StreamOK, OutFields
  <1>. HIDE DEF p
  <1>2. IsSeq(o.file) /\ IsSeq(<<r>>) /\ \A q \in ToSet(<<r>>) : q.op # "Attachment"
    BY SingletonFacts DEF FileOK, IsData
  <1>3. Indexed(p)
    BY <1>1, <1>2, IndexedGrows
  <1>. QED  BY <1>3 DEF p

\* A write that fails part way.
LEMMA TornIndexed ==
    ASSUME NEW o, StreamOK(o), FileOK(o), Indexed(o)
    PROVE  \A a \in TornOr(o) : Indexed(a) /\ DOMAIN a = OutFields
  <1>1. Torn.op # "Attachment" /\ DOMAIN o = OutFields
    BY DEF Torn, StreamOK
  <1>2. Indexed(Appended(o, <<Torn>>)) /\ DOMAIN Appended(o, <<Torn>>) = OutFields
    BY <1>1, AppendedIndexed, AppendedOK
  <1>. QED  BY <1>1, <1>2 DEF TornOr

\* The error outcomes.
LEMMA IoErrorIndexed ==
    ASSUME NEW o, NEW after, \A a \in after : Indexed(a) /\ DOMAIN a = OutFields
    PROVE  \A x \in IoError(o, after) : Indexed(x.out)
  <1>. SUFFICES ASSUME NEW x \in IoError(o, after) PROVE Indexed(x.out)
    OBVIOUS
  <1>1. PICK a \in after : x = [out |-> [a EXCEPT !.faults = @ + 1], res |-> "Io"]
    BY DEF IoError
  <1>. DEFINE b == [a EXCEPT !.faults = @ + 1]
  <1>2. /\ b.mode = a.mode /\ b.file = a.file
        /\ b.attachment_count = a.attachment_count
        /\ b.attachment_indexes = a.attachment_indexes
    BY DEF OutFields
  <1>3. x.out = b
    BY <1>1
  <1>. HIDE DEF b
  <1>. QED  BY <1>2, <1>3, IndexedSame

\* A state without its stream, or with a broken one.
LEMMA LostIndexed ==
    ASSUME NEW a, a.mode \in {"None", "Failed", "Dropped"}
    PROVE  Indexed(a)
  BY DEF Indexed, Live

\* Constructors that fail: whatever reached the file, the stream is gone.
LEMMA NoneIndexed ==
    ASSUME NEW S, \A a \in S : DOMAIN a = OutFields
    PROVE  \A b \in {[a EXCEPT !.mode = "None"] : a \in S} : Indexed(b) /\ DOMAIN b = OutFields
  <1>. SUFFICES ASSUME NEW a \in S, NEW b, b = [a EXCEPT !.mode = "None"]
                PROVE  Indexed(b) /\ DOMAIN b = OutFields
    OBVIOUS
  <1>1. b.mode = "None" /\ DOMAIN b = OutFields
    BY DEF OutFields
  <1>2. Indexed(b)
    BY <1>1 DEF Indexed, Live
  <1>. QED  BY <1>1, <1>2

\* finish_chunk puts the chunk and its message indexes behind the file.
LEMMA ChunkDoneIndexed ==
    ASSUME NEW o, StreamOK(o), FileOK(o), Indexed(o), o.mode = "Chunk"
    PROVE  Indexed(ChunkDone(o))
  <1>. DEFINE p == ChunkDone(o)
              c == ChunkRec(o.chunk)
              mi == MessageIndexes(o.chunk)
  <1>1. /\ p.file = o.file \o <<c>> \o mi
        /\ p.attachment_count = o.attachment_count
        /\ p.attachment_indexes = o.attachment_indexes
    BY DEF ChunkDone, StreamOK, OutFields
  <1>2. IsSeq(mi) /\ \A r \in ToSet(mi) : r.op = "MessageIndex"
    BY MessageIndexesFacts DEF FileOK
  <1>3. c.op = "Chunk"
    BY DEF ChunkRec
  <1>. HIDE DEF p, c, mi
  <1>4. IsSeq(o.file) /\ IsSeq(<<c>>) /\ ToSet(<<c>>) = {c}
    BY SingletonFacts DEF FileOK, IsData
  <1>. DEFINE q == [o EXCEPT !.file = @ \o <<c>>]
  <1>5. /\ q.file = o.file \o <<c>> /\ q.mode = "Chunk"
        /\ q.attachment_count = o.attachment_count
        /\ q.attachment_indexes = o.attachment_indexes
    BY DEF StreamOK, OutFields
  <1>. HIDE DEF q
  <1>6. Indexed(q) /\ IsSeq(q.file)
    <2>1. \A r \in ToSet(<<c>>) : r.op # "Attachment"
      BY <1>3, <1>4
    <2>. QED  BY <1>4, <1>5, <2>1, IndexedGrows, ConcatFacts
  <1>7. p.file = q.file \o mi /\ q.mode \in Live /\ \A r \in ToSet(mi) : r.op # "Attachment"
    BY <1>1, <1>2, <1>5 DEF Live
  <1>8. Indexed(p)
    BY <1>1, <1>2, <1>5, <1>6, <1>7, IndexedGrows
  <1>. QED  BY <1>8 DEF p

\* finish_chunk, whatever the outcome.
LEMMA FinishChunkIndexed ==
    ASSUME NEW o, StreamOK(o), FileOK(o), Indexed(o)
    PROVE  \A x \in FinishChunk(o) : Indexed(x.out)
  <1>1. \A a \in ChunkBroken(o) : Indexed(a) /\ DOMAIN a = OutFields
    <2>. SUFFICES ASSUME NEW a \in ChunkBroken(o) PROVE Indexed(a) /\ DOMAIN a = OutFields
      OBVIOUS
    <2>1. PICK f : a = [o EXCEPT !.mode = "Failed", !.file = f, !.chunk = NoChunk]
      BY DEF ChunkBroken
    <2>2. a.mode = "Failed" /\ DOMAIN a = OutFields
      BY <2>1 DEF StreamOK, OutFields
    <2>. QED  BY <2>2, LostIndexed
  <1>2. \A x \in IoError(o, ChunkBroken(o)) : Indexed(x.out)
    BY <1>1, IoErrorIndexed
  <1>3. CASE Refusal(o) = "none" /\ o.mode = "Chunk"
    <2>1. FinishChunk(o) = Ok(ChunkDone(o)) \cup IoError(o, ChunkBroken(o))
      BY <1>3 DEF FinishChunk
    <2>2. \A x \in Ok(ChunkDone(o)) : Indexed(x.out)
      BY <1>3, ChunkDoneIndexed DEF Ok
    <2>. QED  BY <1>2, <2>1, <2>2
  <1>4. CASE ~(Refusal(o) = "none" /\ o.mode = "Chunk")
    <2>1. FinishChunk(o) = Ok(o) \/ FinishChunk(o) = Fails(o, Refusal(o))
      BY <1>4 DEF FinishChunk
    <2>. QED  BY <2>1 DEF Ok, Fails
  <1>. QED  BY <1>3, <1>4

\* start_chunk, whatever the outcome.
LEMMA StartChunkIndexed ==
    ASSUME NEW o, StreamOK(o), FileOK(o), Indexed(o)
    PROVE  \A x \in StartChunk(o) : Indexed(x.out)
  <1>. DEFINE S == IF o.chunk_mode = "Buffered" THEN {o} ELSE TornOr(o)
              lost == {[a EXCEPT !.mode = "None"] : a \in S}
              p == ChunkOpened(o)
  <1>1. \A a \in lost : Indexed(a) /\ DOMAIN a = OutFields
    <2>1. \A a \in S : DOMAIN a = OutFields
      BY TornIndexed DEF StreamOK
    <2>. HIDE DEF S
    <2>. QED  BY <2>1, NoneIndexed
  <1>2. CASE Refusal(o) = "none" /\ o.mode = "Raw"
    <2>1. StartChunk(o) = Ok(p) \cup IoError(o, lost)
      BY <1>2 DEF StartChunk
    <2>2. /\ p.file = o.file /\ p.attachment_count = o.attachment_count
          /\ p.attachment_indexes = o.attachment_indexes
      BY DEF ChunkOpened, StreamOK, OutFields
    <2>. HIDE DEF p, lost
    <2>3. Indexed(p)
      BY <1>2, <2>2, IndexedSame DEF Live
    <2>4. \A x \in IoError(o, lost) : Indexed(x.out)
      BY <1>1, IoErrorIndexed
    <2>. QED  BY <2>1, <2>3, <2>4 DEF Ok
  <1>3. CASE ~(Refusal(o) = "none" /\ o.mode = "Raw")
    <2>1. StartChunk(o) = Ok(o) \/ StartChunk(o) = Fails(o, Refusal(o))
      BY <1>3 DEF StartChunk
    <2>. QED  BY <2>1 DEF Ok, Fails
  <1>. QED  BY <1>2, <1>3

\* write_record on the raw stream.
LEMMA AppendRawIndexed ==
    ASSUME NEW o, StreamOK(o), FileOK(o), Indexed(o), NEW r, r.op # "Attachment"
    PROVE  \A x \in AppendRaw(o, r) : Indexed(x.out)
  <1>1. \A x \in IoError(o, TornOr(o)) : Indexed(x.out)
    BY TornIndexed, IoErrorIndexed
  <1>2. \A x \in Ok(Appended(o, <<r>>)) : Indexed(x.out)
    BY AppendedIndexed DEF Ok
  <1>. QED  BY <1>1, <1>2 DEF AppendRaw

\* write_record on the open chunk, which is not in the file yet.
LEMMA AppendChunkIndexed ==
    ASSUME NEW o, StreamOK(o), Indexed(o), NEW r
    PROVE  \A x \in AppendChunk(o, r) : Indexed(x.out)
  <1>. DEFINE d(q) == [o EXCEPT !.chunk.recs = Append(@, q)]
  <1>1. \A q : /\ d(q).mode = o.mode /\ d(q).file = o.file /\ DOMAIN d(q) = OutFields
               /\ d(q).attachment_count = o.attachment_count
               /\ d(q).attachment_indexes = o.attachment_indexes
    BY DEF StreamOK, OutFields
  <1>2. AppendChunk(o, r) =
          Ok(d(r)) \cup (IF o.chunk.buffered THEN {} ELSE IoError(o, {o, d(Torn)}))
    BY DEF AppendChunk
  <1>. HIDE DEF d
  <1>3. \A q : Indexed(d(q))
    BY <1>1, IndexedSame
  <1>4. \A x \in IoError(o, {o, d(Torn)}) : Indexed(x.out)
    BY <1>1, <1>3, IoErrorIndexed DEF StreamOK
  <1>5. \A x \in Ok(d(r)) : Indexed(x.out)
    BY <1>3 DEF Ok
  <1>. QED  BY <1>2, <1>4, <1>5

\* Neither do the message indexes of the open chunk matter.
LEMMA IndexMessageIndexed ==
    ASSUME NEW o, StreamOK(o), Indexed(o), NEW id, NEW t
    PROVE  Indexed(IndexMessage(o, id, t))
  <1>. DEFINE p == IndexMessage(o, id, t)
  <1>1. /\ p.mode = o.mode /\ p.file = o.file
        /\ p.attachment_count = o.attachment_count
        /\ p.attachment_indexes = o.attachment_indexes
    BY DEF IndexMessage, StreamOK, OutFields
  <1>. HIDE DEF p
  <1>2. Indexed(p)
    BY <1>1, IndexedSame
  <1>. QED  BY <1>2 DEF p

\* A record into the open chunk.
LEMMA InChunkIndexed ==
    ASSUME NEW o, StreamOK(o), FileOK(o), Indexed(o), o.mode # "Dropped", finished \in BOOLEAN,
           opts.use_chunks, NEW r, NEW x,
           x \in StartChunk(o) \/ \E y \in StartChunk(o) : x \in AppendChunk(y.out, r)
    PROVE  Indexed(x.out)
  <1>1. \A y \in StartChunk(o) : StreamOK(y.out) /\ Indexed(y.out)
    BY StartChunkOK, StartChunkIndexed DEF OutcomeOK
  <1>. QED  BY <1>1, AppendChunkIndexed

\* A record behind the file.
LEMMA InFileIndexed ==
    ASSUME NEW o, StreamOK(o), FileOK(o), Indexed(o), o.mode # "Dropped", finished \in BOOLEAN,
           opts \in OptionType, NEW r, r.op # "Attachment", NEW x,
           x \in FinishChunk(o) \/ \E y \in FinishChunk(o) : x \in AppendRaw(y.out, r)
    PROVE  Indexed(x.out)
  <1>1. \A y \in FinishChunk(o) : StreamOK(y.out) /\ FileOK(y.out) /\ Indexed(y.out)
    BY FinishChunkOK, FinishChunkKeeps, FinishChunkIndexed DEF OutcomeOK, Keeps, Kept
  <1>. QED  BY <1>1, AppendRawIndexed

\* write_schema, write_channel.
LEMMA WriteRecordIndexed ==
    ASSUME NEW o, StreamOK(o), FileOK(o), Indexed(o), o.mode # "Dropped", finished \in BOOLEAN,
           opts \in OptionType, NEW r, r.op \in ChunkOps
    PROVE  \A x \in WriteRecord(o, r) : Indexed(x.out)
  <1>1. r.op # "Attachment"
    BY DEF ChunkOps
  <1>2. CASE opts.use_chunks
    <2>1. \A x \in WriteRecord(o, r) :
            x \in StartChunk(o) \/ \E y \in StartChunk(o) : x \in AppendChunk(y.out, r)
      BY <1>2 DEF WriteRecord, Then
    <2>. QED  BY <1>2, <2>1, InChunkIndexed
  <1>3. CASE ~opts.use_chunks
    <2>1. \A x \in WriteRecord(o, r) :
            x \in FinishChunk(o) \/ \E y \in FinishChunk(o) : x \in AppendRaw(y.out, r)
      BY <1>3 DEF WriteRecord, Then
    <2>. QED  BY <1>1, <1>3, <2>1, InFileIndexed
  <1>. QED  BY <1>2, <1>3

\* The stream half of write_to_known_channel, with the roll-over of the chunk.
LEMMA WriteMessageIndexed ==
    ASSUME NEW o, StreamOK(o), FileOK(o), Indexed(o), o.mode # "Dropped", finished \in BOOLEAN,
           opts \in OptionType, NEW id, NEW t
    PROVE  \A x \in WriteMessage(o, id, t) : Indexed(x.out)
  <1>. SUFFICES ASSUME NEW x \in WriteMessage(o, id, t)
                PROVE  Indexed(x.out)
    OBVIOUS
  <1>. DEFINE First == IF TargetReached(o) THEN FinishChunk(o) ELSE Ok(o)
              r == MessageRec(id, t)
              Rest(y) == IF opts.use_chunks
                         THEN Then(StartChunk(y),
                                   LAMBDA z : AppendChunk(IndexMessage(z, id, t), r))
                         ELSE Then(FinishChunk(y), LAMBDA z : AppendRaw(z, r))
  <1>1. \A y \in First : /\ StreamOK(y.out) /\ FileOK(y.out) /\ Indexed(y.out)
                         /\ y.res = "Ok" => y.out.mode # "Dropped"
    <2>1. \A y \in FinishChunk(o) : StreamOK(y.out) /\ FileOK(y.out) /\ Indexed(y.out)
      BY FinishChunkOK, FinishChunkKeeps, FinishChunkIndexed DEF OutcomeOK, Keeps, Kept
    <2>2. \A y \in FinishChunk(o) : y.res = "Ok" => y.out.mode = "Raw"
      BY FinishChunkOK
    <2>3. \A y \in Ok(o) : y.out = o
      BY DEF Ok
    <2>. QED  BY <2>1, <2>2, <2>3
  <1>2. \/ x \in First /\ x.res # "Ok"
        \/ \E y \in First : y.res = "Ok" /\ x \in Rest(y.out)
    BY DEF WriteMessage, Then
  <1>3. ASSUME NEW y, StreamOK(y), FileOK(y), Indexed(y), y.mode # "Dropped", x \in Rest(y)
        PROVE  Indexed(x.out)
    <2>0. r.op # "Attachment"
      BY DEF MessageRec
    <2>1. CASE opts.use_chunks
      <3>1. \/ x \in StartChunk(y) /\ x.res # "Ok"
            \/ \E z \in StartChunk(y) :
                 z.res = "Ok" /\ x \in AppendChunk(IndexMessage(z.out, id, t), r)
        BY <1>3, <2>1 DEF Then
      <3>. HIDE DEF r
      <3>2. \A z \in StartChunk(y) : Indexed(z.out) /\ StreamOK(z.out) /\ (z.res = "Ok" => z.out.mode = "Chunk")
        BY <1>3, <2>1, StartChunkOK, StartChunkIndexed DEF OutcomeOK
      <3>3. \A z \in StartChunk(y) : z.res = "Ok" => /\ StreamOK(IndexMessage(z.out, id, t))
                                                     /\ Indexed(IndexMessage(z.out, id, t))
        BY <3>2, IndexMessageOK, IndexMessageIndexed
      <3>. QED  BY <3>1, <3>2, <3>3, AppendChunkIndexed
    <2>2. CASE ~opts.use_chunks
      <3>1. x \in FinishChunk(y) \/ \E z \in FinishChunk(y) : x \in AppendRaw(z.out, r)
        BY <1>3, <2>2 DEF Then
      <3>. HIDE DEF r
      <3>. QED  BY <1>3, <2>0, <3>1, InFileIndexed
    <2>. QED  BY <2>1, <2>2
  <1>. HIDE DEF First, Rest
  <1>. QED  BY <1>1, <1>2, <1>3

\* start_attachment finishes the chunk first.
LEMMA BeginAttachmentIndexed ==
    ASSUME NEW o, StreamOK(o), FileOK(o), Indexed(o), o.mode # "Dropped", finished \in BOOLEAN,
           opts \in OptionType, NEW length \in Nat
    PROVE  \A x \in BeginAttachment(o, length) : Indexed(x.out)
  <1>. SUFFICES ASSUME NEW x \in BeginAttachment(o, length) PROVE Indexed(x.out)
    OBVIOUS
  <1>. DEFINE begun(y) == [y EXCEPT !.mode = "Attachment",
                                    !.att = [length |-> length, position |-> 0]]
              lost(y) == {[a EXCEPT !.mode = "None"] : a \in TornOr(y)}
  <1>1. \/ x \in FinishChunk(o) /\ x.res # "Ok"
        \/ \E y \in FinishChunk(o) :
             y.res = "Ok" /\ x \in Ok(begun(y.out)) \cup IoError(y.out, lost(y.out))
    BY DEF BeginAttachment, Then
  <1>2. \A y \in FinishChunk(o) : /\ StreamOK(y.out) /\ FileOK(y.out) /\ Indexed(y.out)
                                  /\ y.res = "Ok" => y.out.mode = "Raw"
    BY FinishChunkOK, FinishChunkKeeps, FinishChunkIndexed DEF OutcomeOK, Keeps, Kept
  <1>3. ASSUME NEW y, StreamOK(y), FileOK(y), Indexed(y), y.mode = "Raw",
               x \in Ok(begun(y)) \cup IoError(y, lost(y))
        PROVE  Indexed(x.out)
    <2>1. /\ begun(y).file = y.file /\ begun(y).attachment_count = y.attachment_count
          /\ begun(y).attachment_indexes = y.attachment_indexes
      BY <1>3 DEF StreamOK, OutFields
    <2>2. \A b \in lost(y) : Indexed(b) /\ DOMAIN b = OutFields
      BY <1>3, TornIndexed, NoneIndexed
    <2>. HIDE DEF begun, lost
    <2>3. \A z \in IoError(y, lost(y)) : Indexed(z.out)
      BY <2>2, IoErrorIndexed
    <2>4. Indexed(begun(y))
      BY <1>3, <2>1, IndexedSame DEF Live
    <2>. QED  BY <1>3, <2>3, <2>4 DEF Ok
  <1>. HIDE DEF begun, lost
  <1>. QED  BY <1>1, <1>2, <1>3

\* put_attachment_bytes only moves the position.
LEMMA PutBytesIndexed ==
    ASSUME NEW o, StreamOK(o), Indexed(o), NEW n \in Nat
    PROVE  \A x \in PutBytes(o, n) : Indexed(x.out)
  <1>1. CASE o.mode # "Attachment" \/ NoSpace(o.att, n)
    <2>1. \E why : PutBytes(o, n) = Fails(o, why)
      BY <1>1 DEF PutBytes
    <2>. QED  BY <2>1 DEF Fails
  <1>2. CASE o.mode = "Attachment" /\ ~NoSpace(o.att, n)
    <2>. DEFINE d(k) == [o EXCEPT !.att.position = @ + k]
                some == {d(k) : k \in 0..n}
    <2>1. PutBytes(o, n) = Ok(d(n)) \cup IoError(o, some)
      BY <1>2 DEF PutBytes
    <2>2. \A k : /\ d(k).file = o.file /\ DOMAIN d(k) = OutFields /\ d(k).mode = o.mode
                 /\ d(k).attachment_count = o.attachment_count
                 /\ d(k).attachment_indexes = o.attachment_indexes
      BY DEF StreamOK, OutFields
    <2>. HIDE DEF d
    <2>3. \A k : Indexed(d(k))
      BY <2>2, IndexedSame
    <2>4. \A a \in some : Indexed(a) /\ DOMAIN a = OutFields
      BY <2>2, <2>3
    <2>. HIDE DEF some
    <2>5. \A x \in IoError(o, some) : Indexed(x.out)
      BY <2>4, IoErrorIndexed
    <2>. QED  BY <2>1, <2>3, <2>5 DEF Ok
  <1>. QED  BY <1>1, <1>2

\* finish_attachment: on success the attachment is counted and indexed, otherwise
\* the stream is lost.
LEMMA EndAttachmentIndexed ==
    ASSUME NEW o, StreamOK(o), FileOK(o), Indexed(o)
    PROVE  \A x \in EndAttachment(o) : Indexed(x.out)
  <1>. DEFINE rec == [op |-> "Attachment", length |-> o.att.length]
              entry == [op |-> "AttachmentIndex", offset |-> Len(o.file) + 1,
                        length |-> o.att.length]
              lost(r) == [Appended(o, <<r>>) EXCEPT !.mode = "None", !.att = NoAttachment]
              done == [Appended(o, <<rec>>) EXCEPT
                         !.mode = "Raw", !.att = NoAttachment,
                         !.attachment_count = @ + 1,
                         !.attachment_indexes =
                            IF opts.emit_attachment_indexes THEN Append(@, entry) ELSE @]
  <1>1. CASE o.mode # "Attachment"
    <2>1. EndAttachment(o) = Fails(o, "AttachmentNotInProgress")
      BY <1>1 DEF EndAttachment
    <2>. QED  BY <2>1 DEF Fails
  <1>2. CASE o.mode = "Attachment"
    <2>1. EndAttachment(o) \subseteq
            Fails(lost(Torn), "AttachmentIncomplete")
              \cup Ok(done) \cup IoError(o, {lost(Torn), lost(rec)})
      BY <1>2 DEF EndAttachment
    <2>2. \A r : DOMAIN Appended(o, <<r>>) = OutFields
      BY AppendedOK
    <2>3. \A r : lost(r).mode = "None" /\ DOMAIN lost(r) = OutFields
      BY <2>2 DEF OutFields
    <2>4. \A r : Indexed(lost(r)) /\ DOMAIN lost(r) = OutFields
      <3>. HIDE DEF lost
      <3>. QED  BY <2>3 DEF Indexed, Live
    <2>5. /\ done.file = o.file \o <<rec>>
          /\ done.attachment_count = o.attachment_count + 1
          /\ opts.emit_attachment_indexes => done.attachment_indexes = Append(o.attachment_indexes, entry)
      <3>. DEFINE a == Appended(o, <<rec>>)
      <3>1. /\ a.file = o.file \o <<rec>> /\ a.attachment_count = o.attachment_count
            /\ a.attachment_indexes = o.attachment_indexes /\ DOMAIN a = OutFields
        BY DEF Appended, StreamOK, OutFields
      <3>. HIDE DEF a
      <3>2. done = [a EXCEPT !.mode = "Raw", !.att = NoAttachment,
                             !.attachment_count = @ + 1,
                             !.attachment_indexes =
                                IF opts.emit_attachment_indexes THEN Append(@, entry) ELSE @]
        BY DEF a
      <3>. HIDE DEF done, rec, entry
      <3>. QED  BY <3>1, <3>2 DEF OutFields
    <2>6. Described(done)
      <3>1. Described(o) /\ IsSeq(o.file)
        BY <1>2 DEF Indexed, Live, FileOK, IsData
      <3>. HIDE DEF done
      <3>. QED  BY <2>5, <3>1, DescribedMore
    <2>. HIDE DEF lost, done, rec
    <2>7. \A x \in IoError(o, {lost(Torn), lost(rec)}) : Indexed(x.out)
      BY <2>4, IoErrorIndexed
    <2>8. \A x \in Fails(lost(Torn), "AttachmentIncomplete") \cup Ok(done) : Indexed(x.out)
      BY <2>4, <2>6 DEF Fails, Ok, Indexed
    <2>. QED  BY <2>1, <2>7, <2>8
  <1>. QED  BY <1>1, <1>2

\* write_metadata.
LEMMA PutMetadataIndexed ==
    ASSUME NEW o, StreamOK(o), FileOK(o), Indexed(o), o.mode # "Dropped", finished \in BOOLEAN,
           opts \in OptionType
    PROVE  \A x \in PutMetadata(o) : Indexed(x.out)
  <1>. SUFFICES ASSUME NEW x \in PutMetadata(o) PROVE Indexed(x.out)
    OBVIOUS
  <1>. DEFINE written(y) == Appended(y, <<MetadataRec>>)
              counted(y) == [written(y) EXCEPT
                               !.metadata_count = @ + 1,
                               !.metadata_indexes =
                                  IF opts.emit_metadata_indexes
                                  THEN Append(@, [op |-> "MetadataIndex",
                                                  offset |-> Len(y.file) + 1])
                                  ELSE @]
  <1>1. \/ x \in FinishChunk(o) /\ x.res # "Ok"
        \/ \E y \in FinishChunk(o) :
             /\ y.res = "Ok"
             /\ x \in Ok(counted(y.out))
                        \cup IoError(y.out, TornOr(y.out) \cup {written(y.out)})
    BY DEF PutMetadata, Then
  <1>2. \A y \in FinishChunk(o) : StreamOK(y.out) /\ FileOK(y.out) /\ Indexed(y.out)
    BY FinishChunkOK, FinishChunkKeeps, FinishChunkIndexed DEF OutcomeOK, Keeps, Kept
  <1>3. ASSUME NEW y, StreamOK(y), FileOK(y), Indexed(y),
               x \in Ok(counted(y)) \cup IoError(y, TornOr(y) \cup {written(y)})
        PROVE  Indexed(x.out)
    <2>1. MetadataRec.op # "Attachment"
      BY DEF MetadataRec
    <2>2. Indexed(written(y)) /\ DOMAIN written(y) = OutFields
      BY <1>3, <2>1, AppendedIndexed, AppendedOK
    <2>3. \E count, indexes : counted(y) = [written(y) EXCEPT
              !.metadata_count = count, !.metadata_indexes = indexes]
      OBVIOUS
    <2>. HIDE DEF written, counted
    <2>4. /\ counted(y).file = written(y).file /\ counted(y).mode = written(y).mode
          /\ counted(y).attachment_count = written(y).attachment_count
          /\ counted(y).attachment_indexes = written(y).attachment_indexes
      BY <2>2, <2>3 DEF OutFields
    <2>5. Indexed(counted(y))
      BY <2>2, <2>4, IndexedSame
    <2>6. \A a \in TornOr(y) \cup {written(y)} : Indexed(a) /\ DOMAIN a = OutFields
      BY <1>3, <2>2, TornIndexed
    <2>7. \A z \in IoError(y, TornOr(y) \cup {written(y)}) : Indexed(z.out)
      BY <2>6, IoErrorIndexed
    <2>. QED  BY <1>3, <2>5, <2>7 DEF Ok
  <1>. HIDE DEF written, counted
  <1>. QED  BY <1>1, <1>2, <1>3

\* A stream the helpers can work on.
Working(o) == StreamOK(o) /\ FileOK(o) /\ Indexed(o) /\ o.mode # "Dropped"

\* The record write() puts in for a new id, and the stream it leaves for the rest.
LEMMA WritesIndexed ==
    ASSUME NEW o, Working(o), finished \in BOOLEAN, opts \in OptionType,
           NEW v, NEW r, r.op \in ChunkOps, NEW x \in Writes(o, v, r)
    PROVE  Indexed(x.out) /\ (x.res = "Ok" => Working(x.out))
  <1>1. CASE v.verdict = "new"
    <2>1. x \in WriteRecord(o, r)
      BY <1>1 DEF Writes
    <2>2. StreamOK(o) /\ FileOK(o) /\ Indexed(o) /\ o.mode # "Dropped"
      BY DEF Working
    <2>3. Indexed(x.out)
      BY <2>1, <2>2, WriteRecordIndexed
    <2>4. StreamOK(x.out) /\ (x.res = "Ok" => x.out.mode # "Dropped")
      BY <2>1, <2>2, WriteRecordOK DEF OutcomeOK
    <2>5. FileOK(x.out)
      BY <2>1, <2>2, WriteRecordAdds DEF Adds, Grew, Kept
    <2>. QED  BY <2>3, <2>4, <2>5 DEF Working
  <1>2. CASE v.verdict # "new"
    <2>1. x \in Ok(o)
      BY <1>2 DEF Writes
    <2>. QED  BY <2>1 DEF Ok, Working
  <1>. QED  BY <1>1, <1>2

\* The message of write() or write_to_known_channel.
LEMMA CountAndWriteIndexed ==
    ASSUME NEW o, Working(o), finished \in BOOLEAN, opts \in OptionType,
           NEW call, NEW id, NEW t, CountAndWrite(call, o, id, t)
    PROVE  Indexed(out')
  <1>1. PICK x \in WriteMessage(o, id, t) : out' = x.out
    BY DEF CountAndWrite
  <1>2. Indexed(x.out)
    BY WriteMessageIndexed DEF Working
  <1>. QED  BY <1>1, <1>2

\* The calls that register ids or write messages.
LEMMA RecordCallsIndexed ==
    ASSUME Working(out), finished \in BOOLEAN, opts \in OptionType,
           \/ \E c \in SchemaContents : AddSchema(c)
           \/ \E s \in CallerIds \cup {0}, p \in Topics : AddChannel(s, p)
           \/ \E i \in CallerIds, t \in Times : WriteToKnownChannel(i, t)
           \/ \E i, s \in CallerIds, p \in Topics,
                 c \in SchemaContents \cup {NoSchema}, t \in Times :
                    Write(i, p, s, c, t)
    PROVE  Indexed(out')
  <1>. DEFINE Good == Indexed(out')
  <1>. SUFFICES Good
    OBVIOUS
  <1>0. out' = out => Good
    BY DEF Working
  <1>1. ASSUME NEW r, r.op \in ChunkOps, NEW x \in WriteRecord(out, r), out' = x.out PROVE Good
    <2>1. Indexed(x.out)
      BY <1>1, WriteRecordIndexed DEF Working
    <2>. QED  BY <1>1, <2>1
  <1>2. ASSUME NEW c \in SchemaContents, AddSchema(c) PROVE Good
    <2>. DEFINE a == Add(schemas, c)
    <2>1. out' = out \/ \E x \in WriteRecord(out, SchemaRec(a.id, c)) : out' = x.out
      BY <1>2 DEF AddSchema
    <2>. HIDE DEF a, Good
    <2>. QED  BY <1>0, <1>1, <2>1, RecordOps
  <1>3. ASSUME NEW s, NEW p, AddChannel(s, p) PROVE Good
    <2>. DEFINE a == Add(channels, ChannelContent(s, p))
    <2>1. out' = out \/ \E x \in WriteRecord(out, ChannelRec(a.id, ChannelContent(s, p))) : out' = x.out
      BY <1>3 DEF AddChannel
    <2>. HIDE DEF a, Good
    <2>. QED  BY <1>0, <1>1, <2>1, RecordOps
  <1>4. ASSUME NEW i, NEW t, WriteToKnownChannel(i, t) PROVE Good
    <2>1. out' = out \/ CountAndWrite("write_to_known_channel", out, i, t)
      BY <1>4 DEF WriteToKnownChannel
    <2>. QED  BY <1>0, <2>1, CountAndWriteIndexed
  <1>5. ASSUME NEW i, NEW p, NEW s, NEW c, NEW t, Write(i, p, s, c, t) PROVE Good
    <2>1. ASSUME NEW o, Working(o), NEW content, WriteChannelAndMessage(o, i, content, t)
          PROVE  Good
      <3>. DEFINE v == RegisterAs(channels, i, content)
                  r == ChannelRec(i, content)
      <3>1. \/ out' = o
            \/ \E x \in Writes(o, v, r) :
                 out' = x.out \/ (x.res = "Ok" /\ CountAndWrite("write", x.out, i, t))
        BY <2>1 DEF WriteChannelAndMessage
      <3>. HIDE DEF v
      <3>2. \A x \in Writes(o, v, r) : Indexed(x.out) /\ (x.res = "Ok" => Working(x.out))
        BY <2>1, RecordOps, WritesIndexed
      <3>3. ASSUME NEW x \in Writes(o, v, r), x.res = "Ok", CountAndWrite("write", x.out, i, t)
            PROVE  Good
        BY <3>2, <3>3, CountAndWriteIndexed
      <3>. QED  BY <2>1, <3>1, <3>2, <3>3 DEF Working
    <2>. DEFINE v == IF c = NoSchema THEN [reg |-> schemas, verdict |-> "known", id |-> 0]
                     ELSE RegisterAs(schemas, s, c)
                content == ChannelContent(IF c = NoSchema THEN 0 ELSE s, p)
                r == SchemaRec(s, c)
    <2>2. \/ out' = out
          \/ \E x \in Writes(out, v, r) :
               out' = x.out \/ (x.res = "Ok" /\ WriteChannelAndMessage(x.out, i, content, t))
      BY <1>5 DEF Write
    <2>. HIDE DEF v, content
    <2>3. \A x \in Writes(out, v, r) : Indexed(x.out) /\ (x.res = "Ok" => Working(x.out))
      BY RecordOps, WritesIndexed
    <2>4. ASSUME NEW x \in Writes(out, v, r), x.res = "Ok", WriteChannelAndMessage(x.out, i, content, t)
          PROVE  Good
      BY <2>1, <2>3, <2>4
    <2>. QED  BY <1>0, <2>2, <2>3, <2>4
  <1>. HIDE DEF Good
  <1>. QED  BY <1>2, <1>3, <1>4, <1>5

\* A call whose outcomes are all good.
LEMMA OutcomesIndexed ==
    ASSUME NEW call, NEW outcomes, StreamCall(call, outcomes), \A x \in outcomes : Indexed(x.out)
    PROVE  Indexed(out')
  <1>1. PICK x \in outcomes : out' = x.out
    BY DEF StreamCall
  <1>. QED  BY <1>1

\* attach(): the three calls one after the other.
LEMMA AttachIndexed ==
    ASSUME Working(out), finished \in BOOLEAN, opts \in OptionType, NEW n \in Nat, Attach(n)
    PROVE  Indexed(out')
  <1>. DEFINE all == Then(BeginAttachment(out, n),
                          LAMBDA x : Then(PutBytes(x, n), LAMBDA y : EndAttachment(y)))
  <1>0. StreamOK(out) /\ FileOK(out) /\ Indexed(out) /\ out.mode # "Dropped"
    BY DEF Working
  <1>1. ASSUME NEW z \in all PROVE Indexed(z.out)
    <2>1. \/ z \in BeginAttachment(out, n)
          \/ \E x \in BeginAttachment(out, n) :
               \/ z \in PutBytes(x.out, n)
               \/ \E y \in PutBytes(x.out, n) : z \in EndAttachment(y.out)
      BY <1>1 DEF Then
    <2>2. \A x \in BeginAttachment(out, n) : StreamOK(x.out) /\ FileOK(x.out) /\ Indexed(x.out)
      BY <1>0, BeginAttachmentOK, BeginAttachmentKeeps, BeginAttachmentIndexed DEF OutcomeOK, Kept
    <2>3. \A x \in BeginAttachment(out, n) : \A y \in PutBytes(x.out, n) :
            StreamOK(y.out) /\ FileOK(y.out) /\ Indexed(y.out)
      <3>. SUFFICES ASSUME NEW o, StreamOK(o), FileOK(o), Indexed(o), NEW y \in PutBytes(o, n)
                    PROVE  StreamOK(y.out) /\ FileOK(y.out) /\ Indexed(y.out)
        BY <2>2
      <3>. QED  BY PutBytesOK, PutBytesKeeps, PutBytesIndexed DEF OutcomeOK, Kept
    <2>. QED  BY <2>1, <2>2, <2>3, EndAttachmentIndexed
  <1>2. StreamCall("attach", all)
    BY DEF Attach
  <1>. HIDE DEF all
  <1>. QED  BY <1>1, <1>2, OutcomesIndexed

\* The other calls that touch the stream alone.
LEMMA StreamCallsIndexed ==
    ASSUME Working(out), finished \in BOOLEAN, opts \in OptionType, StreamCalls
    PROVE  Indexed(out')
  <1>. DEFINE Good == Indexed(out')
  <1>. SUFFICES Good
    OBVIOUS
  <1>0. StreamOK(out) /\ FileOK(out) /\ Indexed(out) /\ out.mode # "Dropped"
    BY DEF Working
  <1>1. ASSUME NEW reserved \in BOOLEAN, NEW inChunks \in BOOLEAN, WritePrivateRecord(reserved, inChunks)
        PROVE  Good
    <2>. DEFINE inChunk == Then(StartChunk(out), LAMBDA x : AppendChunk(x, PrivateRec))
                inFile == Then(FinishChunk(out), LAMBDA x : AppendRaw(x, PrivateRec))
    <2>1. PrivateRec.op # "Attachment"
      BY DEF PrivateRec
    <2>2. opts.use_chunks => \A x \in inChunk : Indexed(x.out)
      <3>1. \A x \in inChunk :
              x \in StartChunk(out) \/ \E y \in StartChunk(out) : x \in AppendChunk(y.out, PrivateRec)
        BY DEF Then
      <3>. HIDE DEF inChunk
      <3>. QED  BY <1>0, <3>1, InChunkIndexed
    <2>3. \A x \in inFile : Indexed(x.out)
      <3>1. \A x \in inFile :
              x \in FinishChunk(out) \/ \E y \in FinishChunk(out) : x \in AppendRaw(y.out, PrivateRec)
        BY DEF Then
      <3>. HIDE DEF inFile
      <3>. QED  BY <1>0, <2>1, <3>1, InFileIndexed
    <2>4. \A x \in Fails(out, "PrivateRecordOpcodeIsReserved") : Indexed(x.out)
      BY <1>0 DEF Fails
    <2>5. \/ StreamCall("write_private_record", Fails(out, "PrivateRecordOpcodeIsReserved"))
          \/ opts.use_chunks /\ StreamCall("write_private_record", inChunk)
          \/ StreamCall("write_private_record", inFile)
      BY <1>1 DEF WritePrivateRecord
    <2>. HIDE DEF inChunk, inFile
    <2>. QED  BY <2>2, <2>3, <2>4, <2>5, OutcomesIndexed
  <1>2. ASSUME NEW n \in Nat, StartAttachment(n) PROVE Good
    BY <1>0, <1>2, BeginAttachmentIndexed, OutcomesIndexed DEF StartAttachment
  <1>3. ASSUME NEW n \in Nat, Attach(n) PROVE Good
    BY <1>3, AttachIndexed
  <1>4. CASE WriteMetadata
    BY <1>0, <1>4, PutMetadataIndexed, OutcomesIndexed DEF WriteMetadata
  <1>5. CASE Flush
    <2>. DEFINE outcomes == Then(FinishChunk(out), LAMBDA x : Ok(x) \cup IoError(x, {x}))
    <2>1. StreamCall("flush", outcomes)
      BY <1>5 DEF Flush
    <2>2. \A z \in outcomes : \/ z \in FinishChunk(out)
                              \/ \E y \in FinishChunk(out) : z \in Ok(y.out) \cup IoError(y.out, {y.out})
      BY DEF Then
    <2>. HIDE DEF outcomes
    <2>3. \A y \in FinishChunk(out) : Indexed(y.out) /\ DOMAIN y.out = OutFields
      BY <1>0, FinishChunkIndexed, FinishChunkOK DEF OutcomeOK, StreamOK
    <2>4. \A y \in FinishChunk(out) : \A z \in IoError(y.out, {y.out}) : Indexed(z.out)
      BY <2>3, IoErrorIndexed
    <2>5. \A z \in outcomes : Indexed(z.out)
      <3>1. \A o : \A z \in Ok(o) : z.out = o
        BY DEF Ok
      <3>. QED  BY <2>2, <2>3, <2>4, <3>1
    <2>. QED  BY <2>1, <2>5, OutcomesIndexed
  <1>. HIDE DEF Good
  <1>6. ASSUME NEW n \in 0..MaxAttachment, StartAttachment(n) \/ Attach(n) PROVE Good
    BY <1>2, <1>3, <1>6, Lengths
  <1>. QED  BY <1>1, <1>4, <1>5, <1>6 DEF StreamCalls

\* The options are those the writer was created with.
LEMMA OptionsFixed == ASSUME [Next]_vars PROVE opts' = opts
  <1>. DEFINE Fixed == opts' = opts
  <1>. SUFFICES Fixed
    OBVIOUS
  <1>1. ASSUME NEW c, AddSchema(c) PROVE Fixed
    BY <1>1 DEF AddSchema
  <1>2. ASSUME NEW s, NEW p, AddChannel(s, p) PROVE Fixed
    BY <1>2 DEF AddChannel
  <1>3. ASSUME NEW i, NEW t, WriteToKnownChannel(i, t) PROVE Fixed
    BY <1>3 DEF WriteToKnownChannel
  <1>4. ASSUME NEW i, NEW p, NEW s, NEW c, NEW t, Write(i, p, s, c, t) PROVE Fixed
    BY <1>4 DEF Write
  <1>5. ASSUME NEW call, NEW outcomes, StreamCall(call, outcomes) PROVE Fixed
    BY <1>5 DEF StreamCall
  <1>6. CASE Finish \/ IntoInner \/ Drop
    BY <1>6 DEF Finish, IntoInner, Drop
  <1>7. CASE UNCHANGED vars
    BY <1>7 DEF vars
  <1>. HIDE DEF Fixed
  <1>8. CASE StreamCalls
    BY <1>5, <1>8, StreamSteps
  <1>9. CASE FinishAttachment \/ \E n \in 1..MaxAttachment : PutAttachmentBytes(n)
    BY <1>5, <1>9 DEF FinishAttachment, PutAttachmentBytes
  <1>. QED  BY <1>1, <1>2, <1>3, <1>4, <1>6, <1>7, <1>8, <1>9 DEF Next, StreamCalls

AttachmentsIndexed == ~finished => Indexed(out)

\* A step that leaves the writer unfinished.
LEMMA NextIndexed ==
    ASSUME Inv, Unfinished, ~finished, Indexed(out), [Next]_vars, ~finished'
    PROVE  Indexed(out')
  <1>. DEFINE Good == Indexed(out')
  <1>. SUFFICES Good
    OBVIOUS
  <1>0. StreamOK(out) /\ FileOK(out) /\ finished \in BOOLEAN /\ opts \in OptionType
    BY DEF Inv, Unfinished, OpenInv
  <1>1. CASE UNCHANGED vars
    BY <1>1 DEF vars
  <1>2. CASE Finish
    <2>1. PICK f \in FinishOutcomes : out' = f.out /\ ~f.finished
      BY <1>2 DEF Finish
    <2>2. ~SummaryPanics
      BY SummaryFindsContent DEF Inv, RegistriesOK
    <2>3. PICK x \in FinishChunk(out) : f.out = x.out
      BY <2>1, <2>2 DEF FinishOutcomes
    <2>. QED  BY <1>0, <2>1, <2>3, FinishChunkIndexed
  <1>3. CASE Drop
    <2>1. PICK f \in FinishOutcomes : out' = LeftBy(f.out) /\ ~f.finished
      BY <1>3 DEF Drop, LeftBy
    <2>2. StreamOK(f.out) /\ FileOK(f.out) /\ f.out.mode # "Chunk"
      <3>1. Kept(out, f.out)
        BY <1>0, <2>1, UnfinishedOutcome
      <3>2. StreamOK(f.out) /\ f.out.mode # "Chunk"
        BY <1>0, <1>3, <2>1, FinishOutcomesOK DEF Drop, Inv, RegistriesOK
      <3>. QED  BY <3>1, <3>2 DEF Kept
    <2>3. out'.mode = "Dropped"
      BY <2>1, <2>2, DroppedKeeps
    <2>. QED  BY <2>3, LostIndexed
  <1>4. ~IntoInner
    BY DEF IntoInner
  <1>5. CASE FinishAttachment
    BY <1>0, <1>5, EndAttachmentIndexed, OutcomesIndexed DEF FinishAttachment
  <1>6. ASSUME NEW n \in 1..MaxAttachment, PutAttachmentBytes(n) PROVE Good
    BY <1>0, <1>6, Lengths, PutBytesIndexed, OutcomesIndexed DEF PutAttachmentBytes
  <1>7. Next => Working(out)
    BY <1>0, NotDropped DEF Working
  <1>8. CASE StreamCalls /\ Next
    BY <1>0, <1>7, <1>8, StreamCallsIndexed
  <1>9. CASE /\ Next
             /\ \/ \E c \in SchemaContents : AddSchema(c)
                \/ \E s \in CallerIds \cup {0}, p \in Topics : AddChannel(s, p)
                \/ \E i \in CallerIds, t \in Times : WriteToKnownChannel(i, t)
                \/ \E i, s \in CallerIds, p \in Topics,
                      c \in SchemaContents \cup {NoSchema}, t \in Times :
                         Write(i, p, s, c, t)
    BY <1>0, <1>7, <1>9, RecordCallsIndexed
  <1>. HIDE DEF Good
  <1>. QED  BY <1>1, <1>2, <1>3, <1>4, <1>5, <1>6, <1>8, <1>9 DEF Next, StreamCalls

\* No attachment in a new file.
LEMMA InitIndexed ==
    ASSUME Init
    PROVE  Indexed(out)
  <1>1. /\ out.file = <<HeaderRec>> /\ out.attachment_count = 0 /\ out.attachment_indexes = <<>>
    BY DEF Init
  <1>2. /\ IsSeq(out.file) /\ Len(out.file) = 1 /\ out.file[1] = HeaderRec
    BY <1>1, SingletonFacts
  <1>3. HeaderRec.op = "Header"
    BY DEF HeaderRec
  <1>4. DOMAIN out.file = 1..1
    BY <1>2, IsSeqFacts
  <1>5. Positions(out.file, "Attachment") = {}
    BY <1>2, <1>3, <1>4 DEF Positions
  <1>. DEFINE at == Attached(out.file)
  <1>6. IsSeq(at) /\ Len(at) = 0
    <2>1. {} \in SUBSET Nat /\ IsFiniteSet({}) /\ Cardinality({}) = 0
      BY FS_EmptySet
    <2>2. IsSeq(InOrder({})) /\ Len(InOrder({})) = 0
      BY <2>1, SortedPositions
    <2>. QED  BY <1>5, <2>2 DEF Attached
  <1>7. DOMAIN at = {}
    BY <1>6, IsSeqFacts
  <1>. HIDE DEF at
  <1>8. IndexRecords(out.file, at) = <<>>
    <2>1. IndexRecords(out.file, at) = [k \in {} |-> 0]
      BY <1>7 DEF IndexRecords
    <2>2. IsSeq([k \in {} |-> 0]) /\ Len([k \in {} |-> 0]) = 0
      <3>. DEFINE e == [k \in {} |-> 0]
      <3>1. DOMAIN e = 1..0 /\ e = [k \in 1..0 |-> e[k]] /\ 0 \in Nat
        OBVIOUS
      <3>. HIDE DEF e
      <3>2. IsSeq(e) /\ Len(e) = 0
        BY <3>1, FunctionIsSeq
      <3>. QED  BY <3>2 DEF e
    <2>. QED  BY <2>1, <2>2, EmptyFacts, SeqExtensional
  <1>. QED  BY <1>1, <1>6, <1>8 DEF Indexed, Described, at

\* Until the writer is finished, what it has noted of the attachments is exactly what
\* the file holds, and no attachment outgrows its declared length: start_attachment,
\* put_attachment_bytes and finish_attachment, with any calls and I/O errors between.
THEOREM AttachmentsAreExact == Spec => []AttachmentsExact
  <1>1. Init => AttachmentsIndexed
    BY InitIndexed DEF AttachmentsIndexed
  <1>2. ASSUME Inv, Unfinished, AttachmentsIndexed, [Next]_vars PROVE AttachmentsIndexed'
    <2>. SUFFICES ASSUME ~finished' PROVE Indexed(out)'
      BY DEF AttachmentsIndexed
    <2>1. ~finished
      BY <1>2, FinishedFrame
    <2>2. Indexed(out')
      BY <1>2, <2>1, NextIndexed DEF AttachmentsIndexed
    <2>3. opts' = opts
      BY <1>2, OptionsFixed
    <2>. QED  BY <2>2, <2>3 DEF Indexed, Described
  <1>3. ASSUME Inv, AttachmentsIndexed PROVE AttachmentsExact
    <2>. SUFFICES ASSUME Streaming PROVE AttachmentsExact
      BY DEF AttachmentsExact
    <2>1. Described(out)
      BY <1>3 DEF AttachmentsIndexed, Indexed, Streaming, Live
    <2>2. out.att.position <= out.att.length
      BY <1>3 DEF Inv, StreamOK
    <2>. QED  BY <2>1, <2>2 DEF AttachmentsExact, Described, Attached, InOrder, IndexRecords
  <1>. QED  BY <1>1, <1>2, <1>3, InvHolds, UnfinishedInvariant, PTL DEF Spec

-------------------------------------------------------------------------------
(***************************************************************************)
(* The writer implements MessageLog, for every choice of the constants:    *)
(* messages are appended in call order, chunk boundaries do not move them, *)
(* and an error loses none but those of the open chunk.                    *)
(*                                                                         *)
(* What a reader would find in a file is the messages before the first     *)
(* torn record.  All that the proof needs of it is what one more record    *)
(* adds; everything else about the helpers of the writer is which records  *)
(* they put behind which.                                                  *)
(***************************************************************************)

-------------------------------------------------------------------------------
(* The messages of a sequence of records.                                  *)

One(r, op) == IF r.op = op THEN <<r>> ELSE <<>>

Picks(s, op) == [p \in DOMAIN s |-> IF s[p].op = op THEN <<s[p]>> ELSE <<>>]

\* There is a pick, perhaps empty, for each record.
LEMMA PicksFacts ==
    ASSUME NEW s, IsSeq(s), NEW op
    PROVE  /\ IsSeq(Picks(s, op)) /\ Len(Picks(s, op)) = Len(s)
           /\ \A i \in 1..Len(s) : Picks(s, op)[i] = One(s[i], op) /\ IsSeq(Picks(s, op)[i])
           /\ Only(s, op) = FlattenSeq(Picks(s, op))
  <1>1. Len(s) \in Nat /\ DOMAIN s = 1..Len(s)
    BY IsSeqFacts
  <1>2. \A i \in 1..Len(s) : Picks(s, op)[i] = One(s[i], op)
    BY <1>1 DEF Picks, One
  <1>3. \A i \in 1..Len(s) : IsSeq(One(s[i], op))
    BY EmptyFacts, SingletonFacts DEF One
  <1>4. IsSeq(Picks(s, op)) /\ Len(Picks(s, op)) = Len(s)
    <2>. DEFINE g == Picks(s, op)
    <2>1. DOMAIN g = 1..Len(s) /\ g = [i \in 1..Len(s) |-> g[i]]
      BY <1>1 DEF Picks
    <2>. HIDE DEF g
    <2>2. IsSeq(g) /\ Len(g) = Len(s)
      BY <1>1, <2>1, FunctionIsSeq
    <2>. QED  BY <2>2 DEF g
  <1>5. Only(s, op) = FlattenSeq(Picks(s, op))
    BY DEF Only, Picks
  <1>. QED  BY <1>2, <1>3, <1>4, <1>5

\* One more record is picked or not.
LEMMA OnlyAppend ==
    ASSUME NEW s, IsSeq(s), NEW op, NEW r
    PROVE  IsSeq(Only(s, op)) /\ Only(Append(s, r), op) = Only(s, op) \o One(r, op)
  <1>. DEFINE t == Append(s, r)
              a == Append(Picks(s, op), One(r, op))
  <1>0. Len(s) \in Nat /\ IsSeq(One(r, op))
    BY IsSeqFacts, EmptyFacts, SingletonFacts DEF One
  <1>1. /\ IsSeq(t) /\ Len(t) = Len(s) + 1 /\ t[Len(s) + 1] = r
        /\ \A i \in 1..Len(s) : t[i] = s[i]
    BY AppendFacts
  <1>. HIDE DEF t
  <1>2. /\ IsSeq(Picks(s, op)) /\ Len(Picks(s, op)) = Len(s)
        /\ \A i \in 1..Len(s) : Picks(s, op)[i] = One(s[i], op) /\ IsSeq(Picks(s, op)[i])
        /\ Only(s, op) = FlattenSeq(Picks(s, op))
    BY PicksFacts
  <1>3. /\ IsSeq(Picks(t, op)) /\ Len(Picks(t, op)) = Len(t)
        /\ \A i \in 1..Len(t) : Picks(t, op)[i] = One(t[i], op)
        /\ Only(t, op) = FlattenSeq(Picks(t, op))
    BY <1>1, PicksFacts
  <1>4. /\ IsSeq(a) /\ Len(a) = Len(s) + 1 /\ a[Len(s) + 1] = One(r, op)
        /\ \A i \in 1..Len(s) : a[i] = Picks(s, op)[i]
    BY <1>2, AppendFacts
  <1>. HIDE DEF a
  <1>5. ASSUME NEW i \in 1..(Len(s) + 1) PROVE Picks(t, op)[i] = a[i]
    <2>1. Picks(t, op)[i] = One(t[i], op)
      BY <1>1, <1>3
    <2>2. CASE i = Len(s) + 1
      BY <1>1, <1>4, <2>1, <2>2
    <2>3. CASE i # Len(s) + 1
      <3>1. i \in 1..Len(s)
        BY <1>0, <2>3
      <3>. QED  BY <1>1, <1>2, <1>4, <2>1, <3>1
    <2>. QED  BY <2>2, <2>3
  <1>6. Picks(t, op) = a
    BY <1>1, <1>3, <1>4, <1>5, SeqExtensional
  <1>7. FlattenSeq(Append(Picks(s, op), One(r, op))) = FlattenSeq(Picks(s, op)) \o One(r, op)
    BY <1>0, <1>2, FlattenAppend
  <1>8. IsSeq(FlattenSeq(Picks(s, op)))
    BY <1>2, FlattenFacts
  <1>. QED  BY <1>2, <1>3, <1>6, <1>7, <1>8 DEF a, t

\* The least element of a set of naturals.
LEMMA MinIs ==
    ASSUME NEW S, S \subseteq Nat, NEW m \in S, \A y \in S : m <= y
    PROVE  Min(S) = m
  <1>1. \A x \in S : (\A y \in S : x <= y) => x = m
    OBVIOUS
  <1>. QED  BY <1>1 DEF Min

\* A reader stops at the first torn record.
HasTorn(s) == Positions(s, "Torn") # {}

\* What a reader gets of one more record.
LEMMA ReadableAppend ==
    ASSUME NEW s, IsSeq(s), NEW r
    PROVE  /\ IsSeq(Readable(s))
           /\ Readable(Append(s, r)) =
                IF HasTorn(s) \/ r.op = "Torn" THEN Readable(s) ELSE Append(Readable(s), r)
           /\ HasTorn(Append(s, r)) <=> HasTorn(s) \/ r.op = "Torn"
  <1>. DEFINE n == Len(s)
              t == Append(s, r)
              P == Positions(s, "Torn")
              Q == Positions(t, "Torn")
  <1>0. n \in Nat /\ DOMAIN s = 1..n
    BY IsSeqFacts
  <1>1. /\ IsSeq(t) /\ Len(t) = n + 1 /\ t[n + 1] = r /\ DOMAIN t = 1..(n + 1)
        /\ \A i \in 1..n : t[i] = s[i]
    <2>1. IsSeq(t) /\ Len(t) = n + 1 /\ t[n + 1] = r /\ \A i \in 1..n : t[i] = s[i]
      BY AppendFacts
    <2>2. DOMAIN t = 1..Len(t)
      BY <2>1, IsSeqFacts
    <2>. QED  BY <2>1, <2>2
  <1>. HIDE DEF t
  <1>2. P \subseteq 1..n
    BY <1>0 DEF Positions
  <1>3. Q = P \cup (IF r.op = "Torn" THEN {n + 1} ELSE {})
    BY <1>0, <1>1 DEF Positions
  <1>4. Readable(s) = (IF P = {} THEN s ELSE SubSeq(s, 1, Min(P) - 1))
        /\ Readable(t) = (IF Q = {} THEN t ELSE SubSeq(t, 1, Min(Q) - 1))
    BY DEF Readable
  <1>5. HasTorn(s) <=> P # {}
    BY DEF HasTorn
  <1>6. HasTorn(t) <=> P # {} \/ r.op = "Torn"
    BY <1>3 DEF HasTorn
  <1>. HIDE DEF P, Q
  <1>a. \A m \in 0..n : /\ IsSeq(SubSeq(s, 1, m)) /\ Len(SubSeq(s, 1, m)) = m
                        /\ SubSeq(t, 1, m) = SubSeq(s, 1, m)
    <2>. SUFFICES ASSUME NEW m \in 0..n
                  PROVE  /\ IsSeq(SubSeq(s, 1, m)) /\ Len(SubSeq(s, 1, m)) = m
                         /\ SubSeq(t, 1, m) = SubSeq(s, 1, m)
      OBVIOUS
    <2>0. m \in Nat /\ 1 <= m + 1 /\ m <= Len(s) /\ m <= Len(t) /\ m - 1 + 1 = m
      BY <1>0, <1>1
    <2>1. /\ IsSeq(SubSeq(s, 1, m)) /\ Len(SubSeq(s, 1, m)) = m - 1 + 1
          /\ \A i \in 1..(m - 1 + 1) : SubSeq(s, 1, m)[i] = s[1 + i - 1]
      BY <2>0, SubSeqFacts
    <2>2. /\ IsSeq(SubSeq(t, 1, m)) /\ Len(SubSeq(t, 1, m)) = m - 1 + 1
          /\ \A i \in 1..(m - 1 + 1) : SubSeq(t, 1, m)[i] = t[1 + i - 1]
      <3>1. IsSeq(t) /\ m \in Nat /\ 1 \in Nat /\ 1 <= 1 /\ 1 <= m + 1 /\ m <= Len(t)
        BY <1>1, <2>0
      <3>. HIDE DEF n
      <3>. QED  BY <3>1, SubSeqFacts
    <2>3. \A i \in 1..m : SubSeq(t, 1, m)[i] = SubSeq(s, 1, m)[i]
      BY <1>1, <2>0, <2>1, <2>2
    <2>4. SubSeq(t, 1, m) = SubSeq(s, 1, m)
      <3>. DEFINE u == SubSeq(t, 1, m)
                  v == SubSeq(s, 1, m)
      <3>. HIDE DEF u, v
      <3>. QED  BY <2>0, <2>1, <2>2, <2>3, SeqExtensional DEF u, v
    <2>. QED  BY <2>0, <2>1, <2>4
  <1>b. SubSeq(s, 1, n) = s
    <2>1. n \in 0..n /\ 1 <= n + 1 /\ n <= Len(s) /\ n - 1 + 1 = n
      BY <1>0
    <2>2. /\ IsSeq(SubSeq(s, 1, n)) /\ Len(SubSeq(s, 1, n)) = n - 1 + 1
          /\ \A i \in 1..(n - 1 + 1) : SubSeq(s, 1, n)[i] = s[1 + i - 1]
      BY <1>0, <2>1, SubSeqFacts
    <2>3. \A i \in 1..n : SubSeq(s, 1, n)[i] = s[i]
      BY <1>0, <2>1, <2>2
    <2>. DEFINE v == SubSeq(s, 1, n)
    <2>. HIDE DEF v
    <2>. QED  BY <2>1, <2>2, <2>3, SeqExtensional DEF v
  <1>7. CASE P # {}
    <2>1. PICK m \in P : \A y \in P : m <= y
      <3>1. P \subseteq Nat
        BY <1>0, <1>2
      <3>. QED  BY <1>7, <3>1, LeastNatural
    <2>2. m \in 1..n /\ m - 1 \in 0..n
      BY <1>0, <1>2, <2>1
    <2>3. Min(P) = m
      <3>1. P \subseteq Nat
        BY <1>0, <1>2
      <3>. QED  BY <2>1, <3>1, MinIs
    <2>4. Min(Q) = m
      <3>1. m \in Q /\ Q \subseteq P \cup {n + 1}
        BY <1>3, <2>1
      <3>. HIDE DEF n
      <3>2. n \in Nat /\ n + 1 \in Nat /\ m \in Nat /\ m <= n + 1
        BY <1>0, <2>2
      <3>3. Q \subseteq Nat
        BY <1>2, <3>1, <3>2
      <3>4. \A y \in Q : m <= y
        <4>. SUFFICES ASSUME NEW y \in Q PROVE m <= y
          OBVIOUS
        <4>1. y \in P \/ y = n + 1
          BY <3>1
        <4>. QED  BY <2>1, <3>2, <4>1
      <3>. QED  BY <3>1, <3>3, <3>4, MinIs
    <2>5. Q # {}
      BY <1>3, <1>7
    <2>. QED  BY <1>4, <1>5, <1>6, <1>7, <1>a, <2>2, <2>3, <2>4, <2>5 DEF t
  <1>8. CASE P = {} /\ r.op = "Torn"
    <2>1. Q = {n + 1} /\ Q # {}
      BY <1>3, <1>8
    <2>2. Min(Q) = n + 1
      <3>1. n + 1 \in Q /\ Q \subseteq Nat /\ \A y \in Q : n + 1 <= y
        BY <1>0, <2>1
      <3>. QED  BY <3>1, MinIs
    <2>3. Min(Q) - 1 = n /\ n \in 0..n
      BY <1>0, <2>2
    <2>4. Readable(t) = SubSeq(t, 1, n) /\ Readable(s) = s
      BY <1>4, <1>8, <2>1, <2>3
    <2>5. SubSeq(t, 1, n) = SubSeq(s, 1, n)
      BY <1>a, <2>3
    <2>. QED  BY <1>5, <1>6, <1>8, <1>b, <2>4, <2>5 DEF t
  <1>9. CASE P = {} /\ r.op # "Torn"
    BY <1>3, <1>4, <1>5, <1>6, <1>9 DEF t
  <1>. QED  BY <1>7, <1>8, <1>9

-------------------------------------------------------------------------------
(* The messages a reader finds.                                            *)

\* MessagesIn without the sets that are there for TLC.
LEMMA MessagesInIs == ASSUME NEW s PROVE MessagesIn(s) = Only(Readable(s), "Message")
  BY DEF MessagesIn

\* What one more record adds to the messages a reader finds.
LEMMA MessagesAppend ==
    ASSUME NEW s, IsSeq(s), NEW r
    PROVE  /\ IsSeq(MessagesIn(s))
           /\ MessagesIn(Append(s, r)) =
                IF HasTorn(s) \/ r.op # "Message" THEN MessagesIn(s)
                ELSE Append(MessagesIn(s), r)
  <1>. DEFINE R == Readable(s)
              M == Only(R, "Message")
              N == MessagesIn(Append(s, r))
  <1>1. /\ IsSeq(R)
        /\ Readable(Append(s, r)) = IF HasTorn(s) \/ r.op = "Torn" THEN R ELSE Append(R, r)
    BY ReadableAppend
  <1>2. MessagesIn(s) = M /\ N = Only(Readable(Append(s, r)), "Message")
    BY MessagesInIs
  <1>. HIDE DEF R, N
  <1>3. IsSeq(M) /\ Only(Append(R, r), "Message") = M \o One(r, "Message")
    BY <1>1, OnlyAppend
  <1>. HIDE DEF M
  <1>4. CASE HasTorn(s) \/ r.op = "Torn"
    BY <1>1, <1>2, <1>3, <1>4 DEF M, N
  <1>5. CASE ~HasTorn(s) /\ r.op # "Torn" /\ r.op # "Message"
    <2>1. N = M \o <<>>
      BY <1>1, <1>2, <1>3, <1>5 DEF One
    <2>. QED  BY <1>2, <1>3, <1>5, <2>1, ConcatEmpty DEF N
  <1>6. CASE ~HasTorn(s) /\ r.op = "Message"
    <2>1. N = M \o <<r>>
      BY <1>1, <1>2, <1>3, <1>6 DEF One
    <2>2. N = Append(M, r)
      BY <1>3, <2>1, AppendIsJoin
    <2>. QED  BY <1>2, <1>3, <1>6, <2>2 DEF N
  <1>. QED  BY <1>4, <1>5, <1>6

\* One record behind two sequences.
LEMMA JoinSingle ==
    ASSUME NEW s, IsSeq(s), NEW t, IsSeq(t), NEW r
    PROVE  (s \o t) \o <<r>> = s \o (t \o <<r>>)
  <1>. DEFINE e == <<r>>
  <1>1. IsSeq(e)
    BY SingletonFacts
  <1>. HIDE DEF e
  <1>2. (s \o t) \o e = s \o (t \o e)
    BY <1>1, JoinAssociative
  <1>. QED  BY <1>2 DEF e

\* a is a prefix of b.
Pre(a, b) == Len(a) <= Len(b) /\ \A i \in 1..Len(a) : b[i] = a[i]

\* Every sequence is a prefix of itself.
LEMMA PreRefl == ASSUME NEW a, IsSeq(a) PROVE Pre(a, a)
  BY IsSeqFacts DEF Pre

\* A prefix of a prefix.
LEMMA PreTrans ==
    ASSUME NEW a, NEW b, NEW c, IsSeq(a), IsSeq(b), IsSeq(c), Pre(a, b), Pre(b, c)
    PROVE  Pre(a, c)
  <1>1. Len(a) \in Nat /\ Len(b) \in Nat /\ Len(c) \in Nat
    BY IsSeqFacts
  <1>2. \A i \in 1..Len(a) : i \in 1..Len(b)
    BY <1>1 DEF Pre
  <1>3. \A i \in 1..Len(a) : c[i] = a[i]
    BY <1>2 DEF Pre
  <1>4. Len(a) <= Len(c)
    BY <1>1 DEF Pre
  <1>. QED  BY <1>3, <1>4 DEF Pre

\* A sequence is a prefix of itself with one more element.
LEMMA PreAppend == ASSUME NEW a, IsSeq(a), NEW r PROVE Pre(a, Append(a, r)) /\ IsSeq(Append(a, r))
  <1>1. Len(a) \in Nat /\ Len(Append(a, r)) = Len(a) + 1
    BY IsSeqFacts, AppendFacts
  <1>2. \A i \in 1..Len(a) : Append(a, r)[i] = a[i]
    BY AppendFacts
  <1>3. Len(a) <= Len(Append(a, r))
    BY <1>1
  <1>. QED  BY <1>2, <1>3, AppendFacts DEF Pre

\* The prefix of a sequence is what SubSeq cuts off.
LEMMA PreIsSubSeq ==
    ASSUME NEW a, NEW b, IsSeq(a), IsSeq(b), Pre(a, b)
    PROVE  SubSeq(b, 1, Len(a)) = a
  <1>. DEFINE n == Len(a)
              c == SubSeq(b, 1, n)
  <1>1. n \in Nat /\ 1 <= n + 1 /\ n <= Len(b) /\ n - 1 + 1 = n /\ 1 \in Nat /\ 1 <= 1
    BY IsSeqFacts DEF Pre
  <1>. HIDE DEF n
  <1>2. /\ IsSeq(c) /\ Len(c) = n - 1 + 1
        /\ \A i \in 1..(n - 1 + 1) : c[i] = b[1 + i - 1]
    BY <1>1, SubSeqFacts
  <1>. HIDE DEF c
  <1>3. \A i \in 1..n : c[i] = b[i]
    BY <1>1, <1>2
  <1>4. \A i \in 1..n : c[i] = a[i]
    BY <1>3 DEF Pre, n
  <1>5. IsSeq(c) /\ Len(c) = Len(a)
    BY <1>1, <1>2 DEF n
  <1>6. c = a
    BY <1>4, <1>5, SeqExtensional DEF n
  <1>. QED  BY <1>6 DEF c, n

\* More records leave the messages found so far, and add none if there are
\* none among them.
LEMMA MessagesConcat ==
    ASSUME NEW s, IsSeq(s), NEW t, IsSeq(t)
    PROVE  /\ IsSeq(MessagesIn(s)) /\ IsSeq(MessagesIn(s \o t))
           /\ Pre(MessagesIn(s), MessagesIn(s \o t))
           /\ (\A r \in ToSet(t) : r.op # "Message") => MessagesIn(s \o t) = MessagesIn(s)
  <1>. DEFINE n == Len(t)
              up(m) == SubSeq(t, 1, m)
              M == MessagesIn(s)
              Q == \A r \in ToSet(t) : r.op # "Message"
              at(m) == MessagesIn(s \o up(m))
              T == {m \in Nat : m <= n => /\ IsSeq(at(m)) /\ Pre(M, at(m))
                                          /\ Q => at(m) = M}
  <1>0. n \in Nat /\ DOMAIN t = 1..n /\ \A i \in 1..n : t[i] \in ToSet(t)
    BY IsSeqFacts
  <1>m. IsSeq(M)
    BY MessagesAppend
  <1>1. \A m \in 0..n : /\ IsSeq(up(m)) /\ Len(up(m)) = m
                        /\ \A i \in 1..m : up(m)[i] = t[i]
    <2>. SUFFICES ASSUME NEW m \in 0..n
                  PROVE  /\ IsSeq(up(m)) /\ Len(up(m)) = m
                         /\ \A i \in 1..m : up(m)[i] = t[i]
      OBVIOUS
    <2>1. m \in Nat /\ 1 <= m + 1 /\ m <= Len(t) /\ m - 1 + 1 = m
      BY <1>0
    <2>2. /\ IsSeq(SubSeq(t, 1, m)) /\ Len(SubSeq(t, 1, m)) = m - 1 + 1
          /\ \A i \in 1..(m - 1 + 1) : SubSeq(t, 1, m)[i] = t[1 + i - 1]
      BY <2>1, SubSeqFacts
    <2>. QED  BY <2>1, <2>2
  <1>. HIDE DEF up
  <1>2. 0 \in T
    <2>1. up(0) = <<>>
      BY <1>0, <1>1, EmptyFacts, SeqExtensional
    <2>2. s \o up(0) = s
      BY <2>1, ConcatEmpty
    <2>3. at(0) = M
      BY <2>2
    <2>. HIDE DEF M, at
    <2>. QED  BY <1>m, <2>3, PreRefl
  <1>3. ASSUME NEW m \in Nat, m \in T PROVE m + 1 \in T
    <2>. SUFFICES ASSUME m + 1 <= n
                  PROVE  /\ IsSeq(at(m + 1)) /\ Pre(M, at(m + 1))
                         /\ Q => at(m + 1) = M
      OBVIOUS
    <2>. DEFINE r == t[m + 1]
                e == <<r>>
                w == s \o up(m)
    <2>1. m \in 0..n /\ m + 1 \in 0..n /\ m + 1 \in 1..n /\ r \in ToSet(t)
      BY <1>0
    <2>2. IsSeq(e) /\ Len(e) = 1 /\ e[1] = r
      BY SingletonFacts
    <2>3. up(m + 1) = up(m) \o e
      <3>1. /\ IsSeq(up(m) \o e) /\ Len(up(m) \o e) = m + 1
            /\ \A i \in 1..(m + 1) :
                 (up(m) \o e)[i] = IF i <= m THEN up(m)[i] ELSE e[i - m]
        BY <1>1, <2>1, <2>2, ConcatFacts
      <3>2. ASSUME NEW i \in 1..(m + 1) PROVE up(m + 1)[i] = (up(m) \o e)[i]
        <4>1. CASE i <= m
          BY <1>1, <2>1, <3>1, <4>1
        <4>2. CASE i = m + 1
          <5>1. i - m = 1
            BY <4>2
          <5>. QED  BY <1>1, <2>1, <2>2, <3>1, <4>2, <5>1
        <4>3. i <= m \/ i = m + 1
          OBVIOUS
        <4>. QED  BY <4>1, <4>2, <4>3
      <3>. QED  BY <1>1, <2>1, <3>1, <3>2, SeqExtensional
    <2>4. IsSeq(w)
      BY <1>1, <2>1, ConcatFacts
    <2>5. s \o up(m + 1) = w \o e
      <3>1. IsSeq(up(m))
        BY <1>1, <2>1
      <3>2. (s \o up(m)) \o <<r>> = s \o (up(m) \o <<r>>)
        <4>. HIDE DEF r
        <4>. QED  BY <3>1, JoinSingle
      <3>. QED  BY <2>3, <3>2
    <2>. HIDE DEF r, w
    <2>6. w \o e = Append(w, r)
      BY <2>4, AppendIsJoin
    <2>7. at(m + 1) = MessagesIn(Append(w, r)) /\ at(m) = MessagesIn(w)
      BY <2>5, <2>6 DEF w
    <2>8. IsSeq(at(m)) /\ Pre(M, at(m)) /\ (Q => at(m) = M)
      BY <1>3, <2>1
    <2>9. /\ at(m + 1) = at(m) \/ at(m + 1) = Append(at(m), r)
          /\ r.op # "Message" => at(m + 1) = at(m)
      BY <2>4, <2>7, MessagesAppend
    <2>10. Q => r.op # "Message"
      BY <2>1
    <2>. HIDE DEF at, M, Q
    <2>11. IsSeq(at(m + 1)) /\ Pre(at(m), at(m + 1))
      BY <2>8, <2>9, PreAppend, PreRefl
    <2>12. Pre(M, at(m + 1))
      BY <1>m, <2>8, <2>11, PreTrans
    <2>. QED  BY <2>8, <2>9, <2>10, <2>11, <2>12
  <1>4. n \in T
    <2>. HIDE DEF T
    <2>. QED  BY <1>0, <1>2, <1>3, SetInduction
  <1>5. up(n) = t
    BY <1>0, <1>1, SeqExtensional
  <1>. QED  BY <1>0, <1>4, <1>5, <1>m

-------------------------------------------------------------------------------
(* What a helper does to the log.                                          *)

\* The messages a reader would find if the open chunk were finished now, and
\* those found in the file as it is.
Seen(o) == MessagesIn(Stream(o))

Safe(o) == MessagesIn(Flat(o.file))

\* From o to p at most the message r is new, behind all others; only losing
\* the stream loses messages, and none that the file already had.
Goes(o, p, r) ==
    /\ Pre(Safe(o), Safe(p))
    /\ IF p.mode \in Live
       THEN Seen(p) = Seen(o) \/ (r.op = "Message" /\ Seen(p) = Append(Seen(o), r))
       ELSE Seen(p) = Safe(p) /\ Pre(Safe(p), Seen(o))

Moves(o, p) == Goes(o, p, Torn)

\* The log and its durable part.
LEMMA SeenFacts ==
    ASSUME NEW o, FileOK(o)
    PROVE  /\ IsSeq(Seen(o)) /\ IsSeq(Safe(o)) /\ Pre(Safe(o), Seen(o))
           /\ o.chunk.recs = <<>> => Seen(o) = Safe(o)
  <1>1. IsSeq(Flat(o.file)) /\ IsSeq(o.chunk.recs)
    BY StreamFacts
  <1>2. o.chunk.recs = <<>> => Stream(o) = Flat(o.file)
    BY <1>1, ConcatEmpty DEF Stream
  <1>. QED  BY <1>1, <1>2, MessagesConcat DEF Seen, Safe, Stream

\* A record that is no message.
LEMMA QuietGoes ==
    ASSUME NEW o, NEW p, NEW r, r.op # "Message"
    PROVE  Goes(o, p, r) <=> Moves(o, p)
  BY DEF Goes, Moves, Torn

\* Any record may be said not to have come.
LEMMA MovesGoes ==
    ASSUME NEW o, NEW p, Moves(o, p), NEW r
    PROVE  Goes(o, p, r)
  BY DEF Goes, Moves, Torn

\* One step after another.
LEMMA MovesThen ==
    ASSUME NEW o, NEW p, NEW q, NEW r, FileOK(o), FileOK(p), FileOK(q),
           Moves(o, p), p.mode \in Live, Goes(p, q, r)
    PROVE  Goes(o, q, r)
  <1>1. IsSeq(Safe(o)) /\ IsSeq(Safe(p)) /\ IsSeq(Safe(q))
    BY SeenFacts
  <1>2. Seen(p) = Seen(o) /\ Pre(Safe(o), Safe(p))
    BY DEF Moves, Goes, Torn
  <1>3. Pre(Safe(p), Safe(q))
    BY DEF Goes
  <1>4. Pre(Safe(o), Safe(q))
    BY <1>1, <1>2, <1>3, PreTrans
  <1>. QED  BY <1>2, <1>4 DEF Goes

\* The records are where they were, and the chunk was not lost.
LEMMA MovesSame ==
    ASSUME NEW o, FileOK(o), NEW p, p.file = o.file, p.chunk.recs = o.chunk.recs,
           p.mode \in Live \/ o.chunk.recs = <<>>
    PROVE  Moves(o, p)
  <1>1. Safe(p) = Safe(o) /\ Seen(p) = Seen(o)
    BY DEF Safe, Seen, Stream
  <1>. QED  BY <1>1, SeenFacts, PreRefl DEF Moves, Goes

\* A record behind the file, no chunk being open.
LEMMA GoesInFile ==
    ASSUME NEW o, FileOK(o), o.chunk.recs = <<>>, NEW p, FileOK(p), p.chunk.recs = <<>>,
           NEW r, r.op # "Chunk", p.file = o.file \o <<r>>,
           p.mode \in Live \/ r.op # "Message"
    PROVE  Goes(o, p, r)
  <1>1. Whole(o.file) /\ IsSeq(Flat(o.file)) /\ IsSeq(o.file)
    BY StreamFacts DEF Whole
  <1>2. IsSeq(<<r>>) /\ \A x \in ToSet(<<r>>) : x.op # "Chunk"
    BY SingletonFacts
  <1>3. Flat(p.file) = Flat(o.file) \o <<r>>
    <2>. DEFINE e == <<r>>
    <2>. HIDE DEF e
    <2>1. Flat(o.file \o e) = Flat(o.file) \o e
      BY <1>1, <1>2, FlatConcat DEF e
    <2>. QED  BY <2>1 DEF e
  <1>4. Flat(o.file) \o <<r>> = Append(Flat(o.file), r)
    BY <1>1, AppendIsJoin
  <1>5. /\ Safe(p) = Safe(o) \/ (r.op = "Message" /\ Safe(p) = Append(Safe(o), r))
        /\ IsSeq(Safe(o))
    BY <1>1, <1>3, <1>4, MessagesAppend DEF Safe
  <1>6. Seen(o) = Safe(o) /\ Seen(p) = Safe(p)
    BY SeenFacts
  <1>7. Pre(Safe(o), Safe(p))
    BY <1>5, PreRefl, PreAppend
  <1>. QED  BY <1>5, <1>6, <1>7, PreRefl DEF Goes

\* A record into the open chunk.
LEMMA GoesInChunk ==
    ASSUME NEW o, FileOK(o), NEW p, p.mode \in Live, p.file = o.file,
           NEW r, p.chunk.recs = Append(o.chunk.recs, r)
    PROVE  Goes(o, p, r)
  <1>1. IsSeq(Flat(o.file)) /\ IsSeq(o.chunk.recs) /\ IsSeq(Stream(o))
    BY StreamFacts
  <1>2. Stream(p) = Append(Stream(o), r)
    <2>1. (Flat(o.file) \o o.chunk.recs) \o <<r>> = Flat(o.file) \o (o.chunk.recs \o <<r>>)
      <3>. DEFINE a == Flat(o.file)
                  b == o.chunk.recs
      <3>0. IsSeq(a) /\ IsSeq(b)
        BY <1>1
      <3>. HIDE DEF a, b
      <3>1. (a \o b) \o <<r>> = a \o (b \o <<r>>)
        BY <3>0, JoinSingle
      <3>. QED  BY <3>1 DEF a, b
    <2>2. o.chunk.recs \o <<r>> = Append(o.chunk.recs, r)
      BY <1>1, AppendIsJoin
    <2>3. Stream(o) \o <<r>> = Append(Stream(o), r)
      BY <1>1, AppendIsJoin
    <2>. QED  BY <2>1, <2>2, <2>3 DEF Stream
  <1>3. Safe(p) = Safe(o) /\ IsSeq(Safe(o))
    BY SeenFacts DEF Safe
  <1>4. Seen(p) = Seen(o) \/ (r.op = "Message" /\ Seen(p) = Append(Seen(o), r))
    BY <1>1, <1>2, MessagesAppend DEF Seen
  <1>. QED  BY <1>3, <1>4, PreRefl DEF Goes

\* The chunk record and some message indexes behind it: every message of the
\* open chunk is in the file.
LEMMA ChunkWrittenMoves ==
    ASSUME NEW o, FileOK(o), NEW p, FileOK(p), p.chunk = NoChunk,
           NEW g, IsSeq(g), \A r \in ToSet(g) : r.op = "MessageIndex",
           p.file = o.file \o <<ChunkRec(o.chunk)>> \o g
    PROVE  Moves(o, p)
  <1>. DEFINE r == ChunkRec(o.chunk)
              f == Append(o.file, r)
  <1>1. /\ Whole(o.file) /\ IsSeq(o.file) /\ IsSeq(o.chunk.recs) /\ IsSeq(Stream(o))
    BY StreamFacts DEF Whole
  <1>2. Opened(r) = o.chunk.recs
    BY DEF ChunkRec, Opened
  <1>. HIDE DEF r
  <1>3. Whole(f) /\ Flat(f) = Stream(o)
    BY <1>1, <1>2, FlatAppend DEF Stream
  <1>4. p.file = f \o g
    BY <1>1, AppendIsJoin DEF r
  <1>. HIDE DEF f
  <1>5. \A q \in ToSet(g) : q.op # "Chunk" /\ q.op # "Message"
    OBVIOUS
  <1>6. Flat(p.file) = Stream(o) \o g
    BY <1>3, <1>4, <1>5, FlatConcat
  <1>7. Safe(p) = Seen(o)
    BY <1>1, <1>5, <1>6, MessagesConcat DEF Safe, Seen
  <1>8. Seen(p) = Safe(p)
    BY SeenFacts, NoChunkHolds
  <1>. QED  BY <1>7, <1>8, SeenFacts, PreRefl DEF Moves, Goes

\* ChunkWriter::finish.
LEMMA ChunkDoneMoves ==
    ASSUME NEW o, StreamOK(o), FileOK(o)
    PROVE  Moves(o, ChunkDone(o))
  <1>. DEFINE d == ChunkDone(o)
              mi == MessageIndexes(o.chunk)
  <1>1. d.file = o.file \o <<ChunkRec(o.chunk)>> \o mi /\ d.chunk = NoChunk
    BY DEF ChunkDone, StreamOK, OutFields
  <1>2. IsSeq(mi) /\ \A r \in ToSet(mi) : r.op = "MessageIndex"
    BY MessageIndexesFacts DEF FileOK
  <1>3. FileOK(d)
    BY ChunkDoneKeeps DEF Kept
  <1>. HIDE DEF d, mi
  <1>4. Moves(o, d)
    BY <1>1, <1>2, <1>3, ChunkWrittenMoves
  <1>. QED  BY <1>4 DEF d

\* The stream is lost, with what was in the open chunk.
LEMMA ChunkLost ==
    ASSUME NEW o, FileOK(o), NEW p, FileOK(p), p.chunk = NoChunk, p.mode \notin Live,
           p.file = o.file \/ p.file = Append(o.file, Torn)
    PROVE  Moves(o, p)
  <1>1. Whole(o.file) /\ IsSeq(Flat(o.file)) /\ IsSeq(o.file)
    BY StreamFacts DEF Whole
  <1>2. IsSeq(Opened(Torn)) /\ Opened(Torn) = <<Torn>> /\ Torn.op # "Message"
    BY SingletonFacts DEF Opened, Torn
  <1>3. Flat(p.file) = Flat(o.file) \/ Flat(p.file) = Append(Flat(o.file), Torn)
    <2>1. Flat(Append(o.file, Torn)) = Flat(o.file) \o Opened(Torn)
      BY <1>1, <1>2, FlatAppend
    <2>2. Flat(o.file) \o <<Torn>> = Append(Flat(o.file), Torn)
      BY <1>1, AppendIsJoin
    <2>. QED  BY <1>2, <2>1, <2>2
  <1>4. Safe(p) = Safe(o)
    BY <1>1, <1>2, <1>3, MessagesAppend DEF Safe
  <1>5. Seen(p) = Safe(p)
    BY SeenFacts, NoChunkHolds
  <1>. QED  BY <1>4, <1>5, SeenFacts, PreRefl DEF Moves, Goes

\* An error in ChunkWriter::finish.
LEMMA ChunkBrokenMoves ==
    ASSUME NEW o, StreamOK(o), FileOK(o), NEW a \in ChunkBroken(o)
    PROVE  Moves(o, a)
  <1>. DEFINE mi == MessageIndexes(o.chunk)
  <1>0. /\ IsSeq(mi) /\ \A r \in ToSet(mi) : r.op = "MessageIndex"
        /\ Len(mi) \in Nat
    BY MessageIndexesFacts, IsSeqFacts DEF FileOK
  <1>1. PICK f : /\ a = [o EXCEPT !.mode = "Failed", !.file = f, !.chunk = NoChunk]
                 /\ \/ f = Append(o.file, Torn)
                    \/ f = o.file
                    \/ \E k \in 0..Len(mi) :
                         f = o.file \o <<ChunkRec(o.chunk)>> \o SubSeq(mi, 1, k)
    BY DEF ChunkBroken
  <1>2. a.file = f /\ a.chunk = NoChunk /\ a.mode \notin Live
    BY <1>1 DEF StreamOK, OutFields, Live
  <1>3. FileOK(a)
    BY ChunkBrokenKeeps
  <1>. HIDE DEF mi
  <1>4. CASE f = o.file \/ f = Append(o.file, Torn)
    BY <1>2, <1>3, <1>4, ChunkLost
  <1>5. ASSUME NEW k \in 0..Len(mi),
               f = o.file \o <<ChunkRec(o.chunk)>> \o SubSeq(mi, 1, k)
        PROVE  Moves(o, a)
    <2>. DEFINE g == SubSeq(mi, 1, k)
    <2>1. k \in Nat /\ 1 <= k + 1 /\ k <= Len(mi)
      BY <1>0
    <2>2. IsSeq(g) /\ ToSet(g) \subseteq ToSet(mi)
      BY <1>0, <2>1, SubSeqFacts
    <2>3. \A r \in ToSet(g) : r.op = "MessageIndex"
      BY <1>0, <2>2
    <2>4. a.file = o.file \o <<ChunkRec(o.chunk)>> \o g
      BY <1>2, <1>5
    <2>. HIDE DEF g
    <2>. QED  BY <1>2, <1>3, <2>2, <2>3, <2>4, ChunkWrittenMoves
  <1>. QED  BY <1>1, <1>4, <1>5

\* The error outcomes of an operation that can leave any of the states in after.
LEMMA IoErrorMoves ==
    ASSUME NEW o, NEW after, \A a \in after : Moves(o, a) /\ DOMAIN a = OutFields
    PROVE  \A x \in IoError(o, after) : Moves(o, x.out) /\ x.res = "Io"
  <1>. SUFFICES ASSUME NEW x \in IoError(o, after) PROVE Moves(o, x.out) /\ x.res = "Io"
    OBVIOUS
  <1>1. PICK a \in after : x = [out |-> [a EXCEPT !.faults = @ + 1], res |-> "Io"]
    BY DEF IoError
  <1>2. x.out = [a EXCEPT !.faults = @ + 1] /\ x.res = "Io"
    BY <1>1
  <1>3. x.out.file = a.file /\ x.out.chunk = a.chunk /\ x.out.mode = a.mode
    BY <1>2 DEF OutFields
  <1>4. Moves(o, a)
    OBVIOUS
  <1>. QED  BY <1>2, <1>3, <1>4 DEF Moves, Goes, Seen, Safe, Stream

\* Writer::finish_chunk.
LEMMA FinishChunkMoves ==
    ASSUME NEW o, StreamOK(o), FileOK(o), Refusal(o) = "none", o.mode # "Dropped"
    PROVE  \A x \in FinishChunk(o) : Moves(o, x.out)
  <1>1. CASE o.mode = "Chunk"
    <2>1. FinishChunk(o) = Ok(ChunkDone(o)) \cup IoError(o, ChunkBroken(o))
      BY <1>1 DEF FinishChunk
    <2>2. \A a \in ChunkBroken(o) : Moves(o, a) /\ DOMAIN a = OutFields
      BY ChunkBrokenMoves, ChunkBrokenKeeps
    <2>3. \A x \in IoError(o, ChunkBroken(o)) : Moves(o, x.out)
      BY <2>2, IoErrorMoves
    <2>4. \A x \in Ok(ChunkDone(o)) : Moves(o, x.out)
      BY ChunkDoneMoves DEF Ok
    <2>. QED  BY <2>1, <2>3, <2>4
  <1>2. CASE o.mode # "Chunk"
    <2>1. FinishChunk(o) = Ok(o)
      BY <1>2 DEF FinishChunk
    <2>2. o.chunk.recs = <<>>
      BY <1>2, NoChunkHolds DEF StreamOK
    <2>3. Moves(o, o)
      BY <2>2, MovesSame
    <2>. QED  BY <2>1, <2>3 DEF Ok
  <1>. QED  BY <1>1, <1>2

\* A write to the raw stream that fails.
LEMMA TornMoves ==
    ASSUME NEW o, StreamOK(o), FileOK(o), o.chunk = NoChunk,
           NEW a \in TornOr(o), NEW p, p.file = a.file, p.chunk = a.chunk
    PROVE  Moves(o, p)
  <1>0. o.chunk.recs = <<>>
    BY NoChunkHolds
  <1>1. CASE a = o
    BY <1>0, <1>1, MovesSame
  <1>2. CASE a = Appended(o, <<Torn>>)
    <2>1. a.file = o.file \o <<Torn>> /\ a.chunk = NoChunk
      BY <1>2 DEF Appended, StreamOK, OutFields
    <2>2. FileOK(a) /\ Torn.op # "Chunk" /\ Torn.op # "Message"
      BY TornKeeps DEF Torn
    <2>. DEFINE b == [a EXCEPT !.mode = p.mode]
    <2>3. b.file = a.file /\ b.chunk = a.chunk /\ b.faults = a.faults
      BY TornKeeps DEF OutFields
    <2>4. b.mode = p.mode
      BY TornKeeps DEF OutFields
    <2>. HIDE DEF b
    <2>5. FileOK(b)
      BY <2>2, <2>3 DEF FileOK
    <2>6. Goes(o, b, Torn)
      BY <1>0, <2>1, <2>2, <2>3, <2>5, GoesInFile
    <2>. QED  BY <2>3, <2>4, <2>6 DEF Moves, Goes, Seen, Safe, Stream
  <1>. QED  BY <1>1, <1>2 DEF TornOr

\* Writer::start_chunk.
LEMMA StartChunkMoves ==
    ASSUME NEW o, StreamOK(o), FileOK(o), Refusal(o) = "none", o.mode \in {"Raw", "Chunk"}
    PROVE  \A x \in StartChunk(o) : Moves(o, x.out)
  <1>1. CASE o.mode = "Raw"
    <2>. DEFINE lost == {[a EXCEPT !.mode = "None"] : a \in
                           IF o.chunk_mode = "Buffered" THEN {o} ELSE TornOr(o)}
    <2>1. StartChunk(o) = Ok(ChunkOpened(o)) \cup IoError(o, lost)
      BY <1>1 DEF StartChunk
    <2>2. o.chunk = NoChunk /\ o.chunk.recs = <<>>
      BY <1>1, NoChunkHolds DEF StreamOK
    <2>3. \A b \in lost : Moves(o, b) /\ DOMAIN b = OutFields
      <3>. SUFFICES ASSUME NEW a \in TornOr(o), NEW b, b = [a EXCEPT !.mode = "None"]
                    PROVE  Moves(o, b) /\ DOMAIN b = OutFields
        BY DEF TornOr
      <3>1. DOMAIN a = OutFields
        BY <2>2, TornKeeps
      <3>2. b.file = a.file /\ b.chunk = a.chunk /\ DOMAIN b = OutFields
        BY <3>1 DEF OutFields
      <3>. QED  BY <2>2, <3>2, TornMoves
    <2>. HIDE DEF lost
    <2>4. \A x \in IoError(o, lost) : Moves(o, x.out)
      BY <2>3, IoErrorMoves
    <2>5. Moves(o, ChunkOpened(o))
      <3>. DEFINE d == ChunkOpened(o)
                  c == [NoChunk EXCEPT !.offset = Len(o.file) + 1,
                                       !.buffered = o.chunk_mode = "Buffered"]
      <3>1. c.recs = NoChunk.recs
        BY DEF NoChunk
      <3>2. d.file = o.file /\ d.chunk = c
        BY DEF ChunkOpened, StreamOK, OutFields
      <3>. HIDE DEF d, c
      <3>3. Moves(o, d)
        BY <2>2, <3>1, <3>2, MovesSame
      <3>. QED  BY <3>3 DEF d
    <2>6. \A x \in Ok(ChunkOpened(o)) : Moves(o, x.out)
      BY <2>5 DEF Ok
    <2>. QED  BY <2>1, <2>4, <2>6
  <1>2. CASE o.mode = "Chunk"
    <2>1. StartChunk(o) = Ok(o)
      BY <1>2 DEF StartChunk
    <2>2. Moves(o, o)
      BY <1>2, MovesSame DEF Live
    <2>. QED  BY <2>1, <2>2 DEF Ok
  <1>. QED  BY <1>1, <1>2

\* write_record on the raw stream.
LEMMA AppendRawGoes ==
    ASSUME NEW o, StreamOK(o), FileOK(o), o.mode = "Raw", NEW r, r.op \in PlainOps
    PROVE  \A x \in AppendRaw(o, r) : Goes(o, x.out, r)
  <1>0. o.chunk = NoChunk /\ o.chunk.recs = <<>>
    BY NoChunkHolds DEF StreamOK
  <1>1. \A a \in TornOr(o) : Moves(o, a) /\ DOMAIN a = OutFields
    BY <1>0, TornMoves, TornKeeps
  <1>2. \A x \in IoError(o, TornOr(o)) : Goes(o, x.out, r)
    BY <1>1, IoErrorMoves, MovesGoes
  <1>3. Goes(o, Appended(o, <<r>>), r)
    <2>. DEFINE p == Appended(o, <<r>>)
    <2>1. p.file = o.file \o <<r>> /\ p.chunk = NoChunk /\ p.mode = "Raw"
      BY <1>0 DEF Appended, StreamOK, OutFields
    <2>2. FileOK(p)
      BY <1>0, AppendedGrows DEF Grew
    <2>. HIDE DEF p
    <2>3. r.op # "Chunk" /\ p.mode \in Live
      BY <2>1 DEF PlainOps, Live
    <2>4. Goes(o, p, r)
      BY <1>0, <2>1, <2>2, <2>3, GoesInFile
    <2>. QED  BY <2>4 DEF p
  <1>4. \A x \in Ok(Appended(o, <<r>>)) : Goes(o, x.out, r)
    BY <1>3 DEF Ok
  <1>. QED  BY <1>2, <1>4 DEF AppendRaw

\* write_record on the open chunk.
LEMMA AppendChunkGoes ==
    ASSUME NEW o, StreamOK(o), FileOK(o), o.mode = "Chunk", NEW r, r.op \in ChunkOps
    PROVE  \A x \in AppendChunk(o, r) : Goes(o, x.out, r)
  <1>. DEFINE d(q) == [o EXCEPT !.chunk.recs = Append(@, q)]
  <1>1. \A q : /\ d(q).file = o.file /\ d(q).chunk.recs = Append(o.chunk.recs, q)
               /\ d(q).mode = o.mode /\ DOMAIN d(q) = OutFields
    BY DEF StreamOK, OutFields, ChunkFields
  <1>2. AppendChunk(o, r) =
          Ok(d(r)) \cup (IF o.chunk.buffered THEN {} ELSE IoError(o, {o, d(Torn)}))
    BY DEF AppendChunk
  <1>. HIDE DEF d
  <1>3. \A q : Goes(o, d(q), q)
    BY <1>1, GoesInChunk DEF Live
  <1>4. Moves(o, o) /\ Moves(o, d(Torn)) /\ DOMAIN o = OutFields
    BY <1>3, MovesSame DEF Live, Moves, StreamOK
  <1>5. \A x \in IoError(o, {o, d(Torn)}) : Goes(o, x.out, r)
    <2>1. \A a \in {o, d(Torn)} : Moves(o, a) /\ DOMAIN a = OutFields
      BY <1>1, <1>4
    <2>. QED  BY <2>1, IoErrorMoves, MovesGoes
  <1>6. \A x \in Ok(d(r)) : Goes(o, x.out, r)
    BY <1>3 DEF Ok
  <1>. QED  BY <1>2, <1>5, <1>6

-------------------------------------------------------------------------------
(* Calls made of several helpers.                                          *)

\* A record into the open chunk.
LEMMA RecordInChunkGoes ==
    ASSUME NEW o, Ready(o), ~finished, finished \in BOOLEAN, opts.use_chunks,
           NEW r, r.op \in ChunkOps,
           NEW x \in Then(StartChunk(o), LAMBDA y : AppendChunk(y, r))
    PROVE  Goes(o, x.out, r)
  <1>0. StreamOK(o) /\ FileOK(o) /\ o.mode \in {"Raw", "Chunk"} /\ Refusal(o) = "none"
        /\ o.mode # "Dropped"
    BY NotRefused DEF Ready
  <1>1. \/ x \in StartChunk(o) /\ x.res # "Ok"
        \/ \E y \in StartChunk(o) : y.res = "Ok" /\ x \in AppendChunk(y.out, r)
    BY DEF Then
  <1>2. CASE x \in StartChunk(o)
    BY <1>0, <1>2, StartChunkMoves, MovesGoes
  <1>3. ASSUME NEW y \in StartChunk(o), y.res = "Ok", x \in AppendChunk(y.out, r)
        PROVE  Goes(o, x.out, r)
    <2>1. StreamOK(y.out) /\ y.out.mode = "Chunk"
      BY <1>0, <1>3, StartChunkOK DEF OutcomeOK
    <2>2. FileOK(y.out) /\ Moves(o, y.out)
      BY <1>0, StartChunkKeeps, StartChunkMoves DEF Keeps, Kept
    <2>3. Goes(y.out, x.out, r)
      BY <1>3, <2>1, <2>2, AppendChunkGoes
    <2>4. Adds(y.out, x, r)
      BY <1>3, <2>1, <2>2, AppendChunkAdds
    <2>5. FileOK(x.out)
      BY <2>4 DEF Adds, Grew, Kept
    <2>. QED  BY <1>0, <2>1, <2>2, <2>3, <2>5, MovesThen DEF Live
  <1>. QED  BY <1>1, <1>2, <1>3

\* A record behind the file, the open chunk finished first.
LEMMA RecordInFileGoes ==
    ASSUME NEW o, Ready(o), ~finished, finished \in BOOLEAN, opts \in OptionType,
           NEW r, r.op \in PlainOps,
           NEW x \in Then(FinishChunk(o), LAMBDA y : AppendRaw(y, r))
    PROVE  Goes(o, x.out, r)
  <1>0. StreamOK(o) /\ FileOK(o) /\ o.mode \in {"Raw", "Chunk"} /\ Refusal(o) = "none"
        /\ o.mode # "Dropped"
    BY NotRefused DEF Ready
  <1>1. \/ x \in FinishChunk(o) /\ x.res # "Ok"
        \/ \E y \in FinishChunk(o) : y.res = "Ok" /\ x \in AppendRaw(y.out, r)
    BY DEF Then
  <1>2. CASE x \in FinishChunk(o)
    BY <1>0, <1>2, FinishChunkMoves, MovesGoes
  <1>3. ASSUME NEW y \in FinishChunk(o), y.res = "Ok", x \in AppendRaw(y.out, r)
        PROVE  Goes(o, x.out, r)
    <2>1. StreamOK(y.out) /\ y.out.mode = "Raw"
      BY <1>0, <1>3, FinishChunkOK DEF OutcomeOK
    <2>2. FileOK(y.out) /\ Moves(o, y.out) /\ y.out.chunk = NoChunk
      BY <1>0, <2>1, FinishChunkKeeps, FinishChunkMoves DEF Keeps, Kept, StreamOK
    <2>3. Goes(y.out, x.out, r)
      BY <1>3, <2>1, <2>2, AppendRawGoes
    <2>4. Adds(y.out, x, r)
      BY <1>3, <2>1, <2>2, AppendRawAdds
    <2>5. FileOK(x.out)
      BY <2>4 DEF Adds, Grew, Kept
    <2>. QED  BY <1>0, <2>1, <2>2, <2>3, <2>5, MovesThen DEF Live
  <1>. QED  BY <1>1, <1>2, <1>3

\* write_schema, write_channel.
LEMMA WriteRecordGoes ==
    ASSUME NEW o, Ready(o), ~finished, finished \in BOOLEAN, opts \in OptionType,
           NEW r, r.op \in ChunkOps
    PROVE  \A x \in WriteRecord(o, r) : Goes(o, x.out, r)
  <1>1. r.op \in PlainOps
    BY DEF PlainOps, DataOps, ChunkOps
  <1>2. CASE opts.use_chunks
    BY <1>2, RecordInChunkGoes DEF WriteRecord
  <1>3. CASE ~opts.use_chunks
    BY <1>1, <1>3, RecordInFileGoes DEF WriteRecord
  <1>. QED  BY <1>2, <1>3

\* Schemas and channels are no messages.
LEMMA WritesMoves ==
    ASSUME NEW o, Ready(o), ~finished, finished \in BOOLEAN, opts \in OptionType,
           NEW v, NEW r, r.op \in {"Schema", "Channel"}, NEW x \in Writes(o, v, r)
    PROVE  Moves(o, x.out) /\ FileOK(x.out) /\ (x.res = "Ok" => Ready(x.out))
  <1>0. StreamOK(o) /\ FileOK(o) /\ o.mode \in Live /\ o.mode # "Dropped" /\ r.op \in ChunkOps
    BY DEF Ready, Live, ChunkOps
  <1>1. CASE x.out = o
    BY <1>0, <1>1, MovesSame
  <1>2. CASE x \in WriteRecord(o, r)
    <2>1. Moves(o, x.out)
      BY <1>0, <1>2, WriteRecordGoes, QuietGoes
    <2>2. Adds(o, x, r)
      BY <1>0, <1>2, WriteRecordAdds
    <2>3. FileOK(x.out)
      BY <2>2 DEF Adds, Grew, Kept
    <2>4. x.res = "Ok" => Ready(x.out)
      BY <1>0, <1>2, ReadyAfterRecord
    <2>. QED  BY <2>1, <2>3, <2>4
  <1>3. x \in WriteRecord(o, r) \/ x.out = o
    BY DEF Writes, Ok
  <1>. QED  BY <1>1, <1>2, <1>3

\* The stream half of write_to_known_channel.
LEMMA WriteMessageGoes ==
    ASSUME NEW o, Ready(o), ~finished, finished \in BOOLEAN, opts \in OptionType,
           NEW id, NEW t
    PROVE  \A x \in WriteMessage(o, id, t) : Goes(o, x.out, MessageRec(id, t)) /\ FileOK(x.out)
  <1>. SUFFICES ASSUME NEW x \in WriteMessage(o, id, t)
                PROVE  Goes(o, x.out, MessageRec(id, t)) /\ FileOK(x.out)
    OBVIOUS
  <1>. DEFINE First == IF TargetReached(o) THEN FinishChunk(o) ELSE Ok(o)
              r == MessageRec(id, t)
              Rest(y) == IF opts.use_chunks
                         THEN Then(StartChunk(y),
                                   LAMBDA z : AppendChunk(IndexMessage(z, id, t), r))
                         ELSE Then(FinishChunk(y), LAMBDA z : AppendRaw(z, r))
  <1>0. r.op \in ChunkOps /\ r.op \in PlainOps
    BY DEF MessageRec, ChunkOps, PlainOps, DataOps
  <1>a. StreamOK(o) /\ FileOK(o) /\ o.mode \in {"Raw", "Chunk"} /\ Refusal(o) = "none"
        /\ o.mode # "Dropped"
    BY NotRefused DEF Ready
  <1>f. FileOK(x.out)
    <2>1. Adds(o, x, MessageRec(id, t))
      BY <1>a, WriteMessageAdds
    <2>. QED  BY <2>1 DEF Adds, Grew, Kept
  <1>1. CASE x \in First /\ x.res # "Ok"
    <2>1. TargetReached(o)
      BY <1>1 DEF Ok
    <2>2. x \in FinishChunk(o)
      BY <1>1, <2>1
    <2>3. Moves(o, x.out)
      BY <1>a, <2>2, FinishChunkMoves
    <2>. QED  BY <1>f, <2>3, MovesGoes
  <1>2. \/ x \in First /\ x.res # "Ok"
        \/ \E y \in First : y.res = "Ok" /\ x \in Rest(y.out)
    BY DEF WriteMessage, Then
  <1>3. ASSUME NEW y, Ready(y), x \in Rest(y)
        PROVE  Goes(y, x.out, r)
    <2>0. StreamOK(y) /\ FileOK(y) /\ y.mode \in {"Raw", "Chunk"} /\ Refusal(y) = "none"
          /\ y.mode # "Dropped"
      BY <1>3, NotRefused DEF Ready
    <2>1. CASE opts.use_chunks
      <3>1. \/ x \in StartChunk(y) /\ x.res # "Ok"
            \/ \E z \in StartChunk(y) :
                 z.res = "Ok" /\ x \in AppendChunk(IndexMessage(z.out, id, t), r)
        BY <1>3, <2>1 DEF Then
      <3>2. CASE x \in StartChunk(y)
        <4>1. Moves(y, x.out)
          BY <2>0, <3>2, StartChunkMoves
        <4>. QED  BY <4>1, MovesGoes
      <3>3. ASSUME NEW z \in StartChunk(y), z.res = "Ok",
                   x \in AppendChunk(IndexMessage(z.out, id, t), r)
            PROVE  Goes(y, x.out, r)
        <4>. DEFINE p == IndexMessage(z.out, id, t)
        <4>1. StreamOK(z.out) /\ z.out.mode = "Chunk"
          BY <2>0, <2>1, <3>3, StartChunkOK DEF OutcomeOK
        <4>2. FileOK(z.out) /\ Moves(y, z.out)
          BY <2>0, StartChunkKeeps, StartChunkMoves DEF Keeps, Kept
        <4>3. StreamOK(p) /\ p.mode = "Chunk"
          BY <4>1, IndexMessageOK
        <4>4. FileOK(p)
          BY <4>1, <4>2, IndexMessageKeeps DEF Kept
        <4>5. p.file = z.out.file /\ p.chunk.recs = z.out.chunk.recs
          BY <4>1 DEF IndexMessage, StreamOK, OutFields, ChunkFields
        <4>6. x \in AppendChunk(p, r)
          BY <3>3
        <4>. HIDE DEF p, r
        <4>7. Moves(z.out, p)
          BY <4>2, <4>3, <4>5, MovesSame DEF Live
        <4>8. Goes(p, x.out, r)
          BY <1>0, <4>3, <4>4, <4>6, AppendChunkGoes
        <4>9. Goes(z.out, x.out, r)
          BY <1>f, <4>2, <4>3, <4>4, <4>7, <4>8, MovesThen DEF Live
        <4>. QED  BY <1>f, <2>0, <4>1, <4>2, <4>9, MovesThen DEF Live
      <3>. QED  BY <3>1, <3>2, <3>3
    <2>2. CASE ~opts.use_chunks
      <3>1. x \in Then(FinishChunk(y), LAMBDA z : AppendRaw(z, r))
        BY <1>3, <2>2
      <3>. HIDE DEF r
      <3>. QED  BY <1>0, <1>3, <3>1, RecordInFileGoes
    <2>. QED  BY <2>1, <2>2
  <1>4. ASSUME NEW y \in First, y.res = "Ok", x \in Rest(y.out)
        PROVE  Goes(o, x.out, r)
    <2>1. CASE TargetReached(o)
      <3>1. y \in FinishChunk(o)
        BY <2>1
      <3>2. StreamOK(y.out) /\ y.out.mode = "Raw"
        BY <1>a, <1>4, <3>1, FinishChunkOK DEF OutcomeOK
      <3>3. FileOK(y.out) /\ Moves(o, y.out)
        BY <1>a, <3>1, FinishChunkKeeps, FinishChunkMoves DEF Keeps, Kept
      <3>. HIDE DEF Rest, r
      <3>4. Goes(y.out, x.out, r)
        BY <1>3, <1>4, <3>2, <3>3 DEF Ready
      <3>. QED  BY <1>a, <1>f, <3>2, <3>3, <3>4, MovesThen DEF Live
    <2>2. CASE ~TargetReached(o)
      <3>1. y.out = o
        BY <2>2 DEF Ok
      <3>. HIDE DEF Rest, r
      <3>. QED  BY <1>3, <1>4, <3>1
    <2>. QED  BY <2>1, <2>2
  <1>. HIDE DEF First, Rest
  <1>. QED  BY <1>1, <1>2, <1>4, <1>f

\* start_attachment.
LEMMA BeginAttachmentMoves ==
    ASSUME NEW o, Ready(o), ~finished, finished \in BOOLEAN, opts \in OptionType,
           NEW length \in Nat
    PROVE  \A x \in BeginAttachment(o, length) : Moves(o, x.out) /\ FileOK(x.out)
  <1>. SUFFICES ASSUME NEW x \in BeginAttachment(o, length)
                PROVE  Moves(o, x.out) /\ FileOK(x.out)
    OBVIOUS
  <1>. DEFINE begun(y) == [y EXCEPT !.mode = "Attachment",
                                    !.att = [length |-> length, position |-> 0]]
              lost(y) == {[a EXCEPT !.mode = "None"] : a \in TornOr(y)}
  <1>0. StreamOK(o) /\ FileOK(o) /\ o.mode \in {"Raw", "Chunk"} /\ Refusal(o) = "none"
        /\ o.mode # "Dropped"
    BY NotRefused DEF Ready
  <1>f. FileOK(x.out)
    BY <1>0, BeginAttachmentKeeps DEF Kept
  <1>1. \/ x \in FinishChunk(o) /\ x.res # "Ok"
        \/ \E y \in FinishChunk(o) :
             y.res = "Ok" /\ x \in Ok(begun(y.out)) \cup IoError(y.out, lost(y.out))
    BY DEF BeginAttachment, Then
  <1>2. CASE x \in FinishChunk(o)
    BY <1>0, <1>2, <1>f, FinishChunkMoves
  <1>3. ASSUME NEW y, StreamOK(y), FileOK(y), y.chunk = NoChunk,
               x \in Ok(begun(y)) \cup IoError(y, lost(y))
        PROVE  Moves(y, x.out)
    <2>1. begun(y).file = y.file /\ begun(y).chunk = y.chunk /\ y.chunk.recs = <<>>
      BY <1>3, NoChunkHolds DEF StreamOK, OutFields
    <2>2. \A b \in lost(y) : Moves(y, b) /\ DOMAIN b = OutFields
      <3>. SUFFICES ASSUME NEW a \in TornOr(y), NEW b, b = [a EXCEPT !.mode = "None"]
                    PROVE  Moves(y, b) /\ DOMAIN b = OutFields
        OBVIOUS
      <3>1. DOMAIN a = OutFields
        BY <1>3, TornKeeps
      <3>2. b.file = a.file /\ b.chunk = a.chunk /\ DOMAIN b = OutFields
        BY <3>1 DEF OutFields
      <3>. QED  BY <1>3, <3>2, TornMoves
    <2>. HIDE DEF begun, lost
    <2>3. \A z \in IoError(y, lost(y)) : Moves(y, z.out)
      BY <2>2, IoErrorMoves
    <2>4. \A z \in Ok(begun(y)) : Moves(y, z.out)
      BY <1>3, <2>1, MovesSame DEF Ok
    <2>. QED  BY <1>3, <2>3, <2>4
  <1>. HIDE DEF begun, lost
  <1>4. ASSUME NEW y \in FinishChunk(o), y.res = "Ok",
               x \in Ok(begun(y.out)) \cup IoError(y.out, lost(y.out))
        PROVE  Moves(o, x.out)
    <2>1. StreamOK(y.out) /\ y.out.mode = "Raw"
      BY <1>0, <1>4, FinishChunkOK DEF OutcomeOK
    <2>2. FileOK(y.out) /\ y.out.chunk = NoChunk /\ Moves(o, y.out)
      BY <1>0, <2>1, FinishChunkKeeps, FinishChunkMoves DEF Keeps, Kept, StreamOK
    <2>3. Moves(y.out, x.out)
      BY <1>3, <1>4, <2>1, <2>2
    <2>. QED  BY <1>0, <1>f, <2>1, <2>2, <2>3, MovesThen DEF Live, Moves
  <1>. QED  BY <1>1, <1>2, <1>4, <1>f

\* put_attachment_bytes: the file gets the record when it is finished.
LEMMA PutBytesMoves ==
    ASSUME NEW o, StreamOK(o), FileOK(o), o.mode \in Live, NEW n \in Nat
    PROVE  \A x \in PutBytes(o, n) : Moves(o, x.out)
  <1>0. Moves(o, o)
    BY MovesSame
  <1>1. CASE o.mode # "Attachment" \/ NoSpace(o.att, n)
    <2>1. \E why : PutBytes(o, n) = Fails(o, why)
      BY <1>1 DEF PutBytes
    <2>. QED  BY <1>0, <2>1 DEF Fails
  <1>2. CASE o.mode = "Attachment" /\ ~NoSpace(o.att, n)
    <2>. DEFINE d(k) == [o EXCEPT !.att.position = @ + k]
                some == {d(k) : k \in 0..n}
    <2>1. PutBytes(o, n) = Ok(d(n)) \cup IoError(o, some)
      BY <1>2 DEF PutBytes
    <2>2. \A k \in 0..n : /\ d(k).file = o.file /\ d(k).chunk = o.chunk
                          /\ d(k).mode = o.mode /\ DOMAIN d(k) = OutFields
      BY DEF StreamOK, OutFields
    <2>. HIDE DEF d
    <2>3. \A k \in 0..n : Moves(o, d(k))
      BY <2>2, MovesSame
    <2>4. \A a \in some : Moves(o, a) /\ DOMAIN a = OutFields
      BY <2>2, <2>3
    <2>. HIDE DEF some
    <2>5. \A x \in IoError(o, some) : Moves(o, x.out)
      BY <2>4, IoErrorMoves
    <2>6. \A x \in Ok(d(n)) : Moves(o, x.out)
      BY <2>3 DEF Ok
    <2>. QED  BY <2>1, <2>5, <2>6
  <1>. QED  BY <1>1, <1>2

\* A record that is no message behind the file, whatever becomes of the stream.
LEMMA QuietRecordMoves ==
    ASSUME NEW o, StreamOK(o), FileOK(o), o.chunk = NoChunk,
           NEW r, r.op \in PlainOps, r.op # "Message",
           NEW p, p.file = Appended(o, <<r>>).file, p.chunk = Appended(o, <<r>>).chunk
    PROVE  Moves(o, p)
  <1>. DEFINE a == Appended(o, <<r>>)
              b == [a EXCEPT !.mode = p.mode]
  <1>1. a.file = o.file \o <<r>> /\ a.chunk = NoChunk /\ DOMAIN a = OutFields
    BY DEF Appended, StreamOK, OutFields
  <1>2. FileOK(a)
    BY AppendedGrows DEF Grew
  <1>. HIDE DEF a
  <1>3. b.file = a.file /\ b.chunk = a.chunk /\ b.faults = a.faults /\ b.mode = p.mode
    BY <1>1 DEF OutFields
  <1>. HIDE DEF b
  <1>4. FileOK(b) /\ r.op # "Chunk"
    BY <1>2, <1>3 DEF FileOK, PlainOps
  <1>5. Goes(o, b, r)
    BY <1>1, <1>3, <1>4, NoChunkHolds, GoesInFile
  <1>6. Moves(o, b)
    BY <1>5, QuietGoes
  <1>. QED  BY <1>3, <1>6 DEF Moves, Goes, Seen, Safe, Stream, a

\* finish_attachment.
LEMMA EndAttachmentMoves ==
    ASSUME NEW o, StreamOK(o), FileOK(o), o.mode \in Live
    PROVE  \A x \in EndAttachment(o) : Moves(o, x.out)
  <1>. DEFINE rec == [op |-> "Attachment", length |-> o.att.length]
              lost(r) == [Appended(o, <<r>>) EXCEPT !.mode = "None", !.att = NoAttachment]
              done == [Appended(o, <<rec>>) EXCEPT
                         !.mode = "Raw", !.att = NoAttachment,
                         !.attachment_count = @ + 1,
                         !.attachment_indexes =
                            IF opts.emit_attachment_indexes
                            THEN Append(@, [op |-> "AttachmentIndex",
                                            offset |-> Len(o.file) + 1,
                                            length |-> o.att.length])
                            ELSE @]
  <1>1. CASE o.mode # "Attachment"
    <2>1. EndAttachment(o) = Fails(o, "AttachmentNotInProgress")
      BY <1>1 DEF EndAttachment
    <2>. QED  BY <2>1, MovesSame DEF Fails
  <1>2. CASE o.mode = "Attachment"
    <2>1. o.chunk = NoChunk
      BY <1>2 DEF StreamOK
    <2>2. rec.op \in PlainOps /\ rec.op # "Message" /\ Torn.op \in PlainOps /\ Torn.op # "Message"
      BY TornIsQuiet DEF PlainOps, DataOps, ChunkOps, Torn
    <2>3. EndAttachment(o) \subseteq
            Fails(lost(Torn), "AttachmentIncomplete")
              \cup Ok(done) \cup IoError(o, {lost(Torn), lost(rec)})
      BY <1>2 DEF EndAttachment
    <2>a. \A r : DOMAIN Appended(o, <<r>>) = OutFields
      BY DEF Appended, StreamOK
    <2>4. ASSUME NEW r, r.op \in PlainOps, r.op # "Message"
          PROVE  Moves(o, lost(r)) /\ DOMAIN lost(r) = OutFields
      <3>. DEFINE a == Appended(o, <<r>>)
      <3>1. DOMAIN a = OutFields
        BY <2>a
      <3>2. lost(r) = [a EXCEPT !.mode = "None", !.att = NoAttachment]
        OBVIOUS
      <3>. HIDE DEF a, lost
      <3>3. lost(r).file = a.file /\ lost(r).chunk = a.chunk /\ DOMAIN lost(r) = OutFields
        BY <3>1, <3>2 DEF OutFields
      <3>. QED  BY <2>1, <2>4, <3>3, QuietRecordMoves DEF a
    <2>5. Moves(o, done)
      <3>. DEFINE a == Appended(o, <<rec>>)
      <3>1. DOMAIN a = OutFields
        BY <2>a
      <3>2. \E count, indexes :
              done = [a EXCEPT !.mode = "Raw", !.att = NoAttachment,
                               !.attachment_count = count,
                               !.attachment_indexes = indexes]
        OBVIOUS
      <3>. HIDE DEF a, done, rec
      <3>3. done.file = a.file /\ done.chunk = a.chunk
        BY <3>1, <3>2 DEF OutFields
      <3>. QED  BY <2>1, <2>2, <3>3, QuietRecordMoves DEF a
    <2>. HIDE DEF lost, done, rec
    <2>6. \A x \in IoError(o, {lost(Torn), lost(rec)}) : Moves(o, x.out)
      BY <2>2, <2>4, IoErrorMoves
    <2>7. \A x \in Fails(lost(Torn), "AttachmentIncomplete") \cup Ok(done) : Moves(o, x.out)
      BY <2>2, <2>4, <2>5 DEF Fails, Ok
    <2>. QED  BY <2>3, <2>6, <2>7
  <1>. QED  BY <1>1, <1>2

\* write_metadata.
LEMMA PutMetadataMoves ==
    ASSUME NEW o, Ready(o), ~finished, finished \in BOOLEAN, opts \in OptionType
    PROVE  \A x \in PutMetadata(o) : Moves(o, x.out)
  <1>. SUFFICES ASSUME NEW x \in PutMetadata(o) PROVE Moves(o, x.out)
    OBVIOUS
  <1>. DEFINE written(y) == Appended(y, <<MetadataRec>>)
              counted(y) == [written(y) EXCEPT
                               !.metadata_count = @ + 1,
                               !.metadata_indexes =
                                  IF opts.emit_metadata_indexes
                                  THEN Append(@, [op |-> "MetadataIndex",
                                                  offset |-> Len(y.file) + 1])
                                  ELSE @]
  <1>0. StreamOK(o) /\ FileOK(o) /\ o.mode \in {"Raw", "Chunk"} /\ Refusal(o) = "none"
        /\ o.mode # "Dropped"
    BY NotRefused DEF Ready
  <1>f. FileOK(x.out)
    BY <1>0, PutMetadataKeeps DEF Kept
  <1>1. \/ x \in FinishChunk(o) /\ x.res # "Ok"
        \/ \E y \in FinishChunk(o) :
             /\ y.res = "Ok"
             /\ x \in Ok(counted(y.out))
                        \cup IoError(y.out, TornOr(y.out) \cup {written(y.out)})
    BY DEF PutMetadata, Then
  <1>2. CASE x \in FinishChunk(o)
    BY <1>0, <1>2, FinishChunkMoves
  <1>3. ASSUME NEW y, StreamOK(y), FileOK(y), y.chunk = NoChunk,
               x \in Ok(counted(y)) \cup IoError(y, TornOr(y) \cup {written(y)})
        PROVE  Moves(y, x.out)
    <2>1. MetadataRec.op \in PlainOps /\ MetadataRec.op # "Message"
      BY DEF MetadataRec, PlainOps, DataOps, ChunkOps
    <2>2. DOMAIN written(y) = OutFields
      BY <1>3 DEF Appended, StreamOK
    <2>3. \E count, indexes : counted(y) = [written(y) EXCEPT
              !.metadata_count = count, !.metadata_indexes = indexes]
      OBVIOUS
    <2>a. Moves(y, written(y))
      BY <1>3, <2>1, QuietRecordMoves
    <2>b. ASSUME NEW p, p.file = written(y).file, p.chunk = written(y).chunk
          PROVE  Moves(y, p)
      BY <1>3, <2>1, <2>b, QuietRecordMoves
    <2>. HIDE DEF written, counted
    <2>4. counted(y).file = written(y).file /\ counted(y).chunk = written(y).chunk
      BY <2>2, <2>3 DEF OutFields
    <2>5. Moves(y, counted(y))
      BY <2>4, <2>b
    <2>6. \A a \in TornOr(y) \cup {written(y)} : Moves(y, a) /\ DOMAIN a = OutFields
      BY <1>3, <2>2, <2>a, TornKeeps, TornMoves
    <2>7. \A z \in IoError(y, TornOr(y) \cup {written(y)}) : Moves(y, z.out)
      BY <2>6, IoErrorMoves
    <2>8. \A z \in Ok(counted(y)) : Moves(y, z.out)
      BY <2>5 DEF Ok
    <2>. QED  BY <1>3, <2>7, <2>8
  <1>. HIDE DEF written, counted
  <1>4. ASSUME NEW y \in FinishChunk(o), y.res = "Ok",
               x \in Ok(counted(y.out))
                       \cup IoError(y.out, TornOr(y.out) \cup {written(y.out)})
        PROVE  Moves(o, x.out)
    <2>1. StreamOK(y.out) /\ y.out.mode = "Raw"
      BY <1>0, <1>4, FinishChunkOK DEF OutcomeOK
    <2>2. FileOK(y.out) /\ y.out.chunk = NoChunk /\ Moves(o, y.out)
      BY <1>0, <2>1, FinishChunkKeeps, FinishChunkMoves DEF Keeps, Kept, StreamOK
    <2>3. Moves(y.out, x.out)
      BY <1>3, <1>4, <2>1, <2>2
    <2>. QED  BY <1>0, <1>f, <2>1, <2>2, <2>3, MovesThen DEF Live, Moves
  <1>. QED  BY <1>1, <1>2, <1>4

-------------------------------------------------------------------------------
(* Every step of a writer that is not finished afterwards.                 *)

Tracks(o, p) == \E r : (r.op = "Message" => r \in AllMessages) /\ Goes(o, p, r)

\* A step without a message.
LEMMA MovesTracks == ASSUME NEW o, NEW p, Moves(o, p) PROVE Tracks(o, p)
  BY DEF Moves, Tracks, Torn

\* The message of a call.
LEMMA MessageTracks ==
    ASSUME NEW o, NEW p, NEW id \in Ids, NEW t \in Times, Goes(o, p, MessageRec(id, t))
    PROVE  Tracks(o, p)
  <1>1. MessageRec(id, t) \in AllMessages
    BY DEF MessageRec, AllMessages
  <1>. QED  BY <1>1 DEF Tracks

\* A step after one without a message.
LEMMA MovesThenTracks ==
    ASSUME NEW o, NEW p, NEW q, FileOK(o), FileOK(p), FileOK(q),
           Moves(o, p), p.mode \in Live, Tracks(p, q)
    PROVE  Tracks(o, q)
  <1>1. PICK r : (r.op = "Message" => r \in AllMessages) /\ Goes(p, q, r)
    BY DEF Tracks
  <1>2. Goes(o, q, r)
    BY <1>1, MovesThen
  <1>. QED  BY <1>1, <1>2 DEF Tracks

\* add_schema and add_channel.
LEMMA DeclareTracks ==
    ASSUME Accepts,
           \/ \E c : AddSchema(c)
           \/ \E s, p : AddChannel(s, p)
    PROVE  Tracks(out, out')
  <1>0. /\ FileOK(out) /\ out.mode \in Live /\ Ready(out)
        /\ ~finished /\ finished \in BOOLEAN /\ opts \in OptionType
    BY AcceptsFacts DEF Accepts
  <1>1. \/ out' = out
        \/ \E r : r.op \in {"Schema", "Channel"} /\ \E x \in WriteRecord(out, r) : out' = x.out
    <2>1. ASSUME NEW c, AddSchema(c)
          PROVE  \/ out' = out
                 \/ \E id : \E x \in WriteRecord(out, SchemaRec(id, c)) : out' = x.out
      BY <2>1 DEF AddSchema
    <2>2. ASSUME NEW s, NEW p, AddChannel(s, p)
          PROVE  \/ out' = out
                 \/ \E id, c : \E x \in WriteRecord(out, ChannelRec(id, c)) : out' = x.out
      BY <2>2 DEF AddChannel
    <2>3. \A id, c : /\ SchemaRec(id, c).op \in {"Schema", "Channel"}
                     /\ ChannelRec(id, c).op \in {"Schema", "Channel"}
      BY DEF SchemaRec, ChannelRec
    <2>. QED  BY <2>1, <2>2, <2>3
  <1>2. CASE out' = out
    BY <1>0, <1>2, MovesSame, MovesTracks
  <1>3. ASSUME NEW r, r.op \in {"Schema", "Channel"}, NEW x \in WriteRecord(out, r), out' = x.out
        PROVE  Tracks(out, out')
    <2>1. r.op \in ChunkOps
      BY <1>3 DEF ChunkOps
    <2>2. Moves(out, x.out)
      BY <1>0, <1>3, <2>1, WriteRecordGoes, QuietGoes
    <2>. QED  BY <1>3, <2>2, MovesTracks
  <1>. QED  BY <1>1, <1>2, <1>3

\* write(), from its channel on.
LEMMA WriteChannelTracks ==
    ASSUME NEW o, Ready(o), ~finished, finished \in BOOLEAN, opts \in OptionType,
           NEW id \in Ids, NEW content, NEW t \in Times,
           WriteChannelAndMessage(o, id, content, t)
    PROVE  Tracks(o, out') /\ FileOK(out')
  <1>. DEFINE c == RegisterAs(channels, id, content)
              rec == ChannelRec(id, content)
  <1>0. FileOK(o) /\ o.mode \in Live /\ rec.op \in {"Schema", "Channel"}
    BY DEF Ready, Live, ChannelRec
  <1>1. \/ out' = o
        \/ \E x \in Writes(o, c, rec) :
             \/ out' = x.out
             \/ x.res = "Ok" /\ \E y \in WriteMessage(x.out, id, t) : out' = y.out
    BY DEF WriteChannelAndMessage, CountAndWrite
  <1>. HIDE DEF c
  <1>2. CASE out' = o
    BY <1>0, <1>2, MovesSame, MovesTracks
  <1>3. ASSUME NEW x \in Writes(o, c, rec)
        PROVE  Moves(o, x.out) /\ FileOK(x.out) /\ (x.res = "Ok" => Ready(x.out))
    <2>. HIDE DEF rec
    <2>. QED  BY <1>0, <1>3, WritesMoves
  <1>4. ASSUME NEW x \in Writes(o, c, rec), out' = x.out
        PROVE  Tracks(o, out') /\ FileOK(out')
    BY <1>3, <1>4, MovesTracks
  <1>5. ASSUME NEW x \in Writes(o, c, rec), x.res = "Ok",
               NEW y \in WriteMessage(x.out, id, t), out' = y.out
        PROVE  Tracks(o, out') /\ FileOK(out')
    <2>1. Moves(o, x.out) /\ FileOK(x.out) /\ Ready(x.out) /\ x.out.mode \in Live
      BY <1>3, <1>5 DEF Ready, Live
    <2>2. Goes(x.out, y.out, MessageRec(id, t)) /\ FileOK(y.out)
      BY <1>5, <2>1, WriteMessageGoes
    <2>3. Tracks(x.out, y.out)
      BY <2>2, MessageTracks
    <2>. QED  BY <1>0, <1>5, <2>1, <2>2, <2>3, MovesThenTracks
  <1>. QED  BY <1>1, <1>2, <1>4, <1>5

\* write() and write_to_known_channel.
LEMMA WriteTracks ==
    ASSUME Accepts, NEW id \in Ids, NEW t \in Times,
           \/ WriteToKnownChannel(id, t)
           \/ \E topic, schemaId, schema : Write(id, topic, schemaId, schema, t)
    PROVE  Tracks(out, out')
  <1>0. /\ FileOK(out) /\ out.mode \in Live /\ Ready(out)
        /\ ~finished /\ finished \in BOOLEAN /\ opts \in OptionType
    BY AcceptsFacts DEF Accepts
  <1>1. CASE out' = out
    BY <1>0, <1>1, MovesSame, MovesTracks
  <1>2. CASE WriteToKnownChannel(id, t)
    <2>1. out' = out \/ \E x \in WriteMessage(out, id, t) : out' = x.out
      BY <1>2 DEF WriteToKnownChannel, CountAndWrite
    <2>2. ASSUME NEW x \in WriteMessage(out, id, t), out' = x.out PROVE Tracks(out, out')
      <3>1. Goes(out, x.out, MessageRec(id, t))
        BY <1>0, <2>2, WriteMessageGoes
      <3>. QED  BY <2>2, <3>1, MessageTracks
    <2>. QED  BY <1>1, <2>1, <2>2
  <1>3. ASSUME NEW topic, NEW schemaId, NEW schema, Write(id, topic, schemaId, schema, t)
        PROVE  Tracks(out, out')
    <2>. DEFINE rec == SchemaRec(schemaId, schema)
    <2>1. \/ out' = out
          \/ \E s, content : \E x \in Writes(out, s, rec) :
               \/ out' = x.out
               \/ x.res = "Ok" /\ WriteChannelAndMessage(x.out, id, content, t)
      BY <1>3 DEF Write
    <2>2. rec.op \in {"Schema", "Channel"}
      BY DEF SchemaRec
    <2>. HIDE DEF rec
    <2>3. ASSUME NEW s, NEW content, NEW x \in Writes(out, s, rec),
                 \/ out' = x.out
                 \/ x.res = "Ok" /\ WriteChannelAndMessage(x.out, id, content, t)
          PROVE  Tracks(out, out')
      <3>1. Moves(out, x.out) /\ FileOK(x.out) /\ (x.res = "Ok" => Ready(x.out))
        BY <1>0, <2>2, <2>3, WritesMoves
      <3>2. CASE out' = x.out
        BY <3>1, <3>2, MovesTracks
      <3>3. CASE x.res = "Ok" /\ WriteChannelAndMessage(x.out, id, content, t)
        <4>1. Ready(x.out) /\ x.out.mode \in Live
          BY <3>1, <3>3 DEF Ready, Live
        <4>2. Tracks(x.out, out') /\ FileOK(out')
          BY <1>0, <3>3, <4>1, WriteChannelTracks
        <4>. QED  BY <1>0, <3>1, <4>1, <4>2, MovesThenTracks
      <3>. QED  BY <2>3, <3>2, <3>3
    <2>. QED  BY <1>1, <2>1, <2>3
  <1>. QED  BY <1>2, <1>3

-------------------------------------------------------------------------------
(* The calls that touch the stream alone bring no message.                 *)

\* Such a call leaves one of its outcomes.
LEMMA StreamCallMoves ==
    ASSUME NEW call, NEW outcomes, StreamCall(call, outcomes),
           \A x \in outcomes : Moves(out, x.out)
    PROVE  Moves(out, out')
  <1>1. PICK x \in outcomes : out' = x.out
    BY DEF StreamCall
  <1>. QED  BY <1>1

\* write_private_record.
LEMMA PrivateMoves ==
    ASSUME Accepts, NEW reserved \in BOOLEAN, NEW inChunks \in BOOLEAN,
           WritePrivateRecord(reserved, inChunks)
    PROVE  Moves(out, out')
  <1>. DEFINE inChunk == Then(StartChunk(out), LAMBDA x : AppendChunk(x, PrivateRec))
              inFile == Then(FinishChunk(out), LAMBDA x : AppendRaw(x, PrivateRec))
  <1>0. /\ FileOK(out) /\ out.mode \in Live /\ Ready(out)
        /\ ~finished /\ finished \in BOOLEAN /\ opts \in OptionType
    BY AcceptsFacts DEF Accepts
  <1>1. PrivateRec.op \in ChunkOps /\ PrivateRec.op \in PlainOps /\ PrivateRec.op # "Message"
    BY DEF PrivateRec, ChunkOps, PlainOps, DataOps
  <1>2. ASSUME opts.use_chunks, NEW x \in inChunk PROVE Moves(out, x.out)
    <2>1. Goes(out, x.out, PrivateRec)
      BY <1>0, <1>1, <1>2, RecordInChunkGoes
    <2>. QED  BY <1>1, <2>1, QuietGoes
  <1>3. ASSUME NEW x \in inFile PROVE Moves(out, x.out)
    <2>1. Goes(out, x.out, PrivateRec)
      BY <1>0, <1>1, <1>3, RecordInFileGoes
    <2>. QED  BY <1>1, <2>1, QuietGoes
  <1>4. \A x \in Fails(out, "PrivateRecordOpcodeIsReserved") : Moves(out, x.out)
    BY <1>0, MovesSame DEF Fails
  <1>5. \/ StreamCall("write_private_record", Fails(out, "PrivateRecordOpcodeIsReserved"))
        \/ opts.use_chunks /\ StreamCall("write_private_record", inChunk)
        \/ StreamCall("write_private_record", inFile)
    BY DEF WritePrivateRecord
  <1>. HIDE DEF inChunk, inFile
  <1>. QED  BY <1>2, <1>3, <1>4, <1>5, StreamCallMoves

\* start_attachment and write_metadata.
LEMMA StartAttachmentMoves ==
    ASSUME Accepts, NEW n \in Nat, StartAttachment(n) \/ WriteMetadata
    PROVE  Moves(out, out')
  <1>0. /\ Ready(out) /\ ~finished /\ finished \in BOOLEAN /\ opts \in OptionType
    BY AcceptsFacts DEF Accepts
  <1>1. \A x \in BeginAttachment(out, n) : Moves(out, x.out)
    BY <1>0, BeginAttachmentMoves
  <1>2. \A x \in PutMetadata(out) : Moves(out, x.out)
    BY <1>0, PutMetadataMoves
  <1>. QED  BY <1>1, <1>2, StreamCallMoves DEF StartAttachment, WriteMetadata

\* attach().
LEMMA AttachMoves ==
    ASSUME Accepts, NEW n \in Nat, Attach(n)
    PROVE  Moves(out, out')
  <1>. DEFINE all == Then(BeginAttachment(out, n),
                          LAMBDA x : Then(PutBytes(x, n), LAMBDA y : EndAttachment(y)))
  <1>0. /\ StreamOK(out) /\ FileOK(out) /\ out.mode # "Dropped" /\ Ready(out)
        /\ ~finished /\ finished \in BOOLEAN /\ opts \in OptionType
    BY AcceptsFacts DEF Accepts
  <1>1. ASSUME NEW z \in all PROVE Moves(out, z.out)
    <2>1. \/ z \in BeginAttachment(out, n)
          \/ \E x \in BeginAttachment(out, n) : x.res = "Ok" /\
               \/ z \in PutBytes(x.out, n)
               \/ \E y \in PutBytes(x.out, n) : z \in EndAttachment(y.out)
      BY <1>1 DEF Then
    <2>2. CASE z \in BeginAttachment(out, n)
      BY <1>0, <2>2, BeginAttachmentMoves
    <2>3. ASSUME NEW x \in BeginAttachment(out, n), x.res = "Ok"
          PROVE  StreamOK(x.out) /\ Moves(out, x.out) /\ FileOK(x.out) /\ x.out.mode \in Live
      <3>1. StreamOK(x.out)
        BY <1>0, BeginAttachmentOK DEF OutcomeOK
      <3>2. x.out.mode = "Attachment"
        BY <1>0, <2>3, BeginAttachmentKeeps
      <3>3. Moves(out, x.out) /\ FileOK(x.out)
        BY <1>0, BeginAttachmentMoves
      <3>. QED  BY <3>1, <3>2, <3>3 DEF Live
    <2>4. ASSUME NEW x \in BeginAttachment(out, n), x.res = "Ok", NEW y \in PutBytes(x.out, n)
          PROVE  StreamOK(y.out) /\ Moves(out, y.out) /\ FileOK(y.out) /\ y.out.mode \in Live
      <3>1. StreamOK(x.out) /\ Moves(out, x.out) /\ FileOK(x.out) /\ x.out.mode \in Live
        BY <2>3, <2>4
      <3>2. StreamOK(y.out) /\ FileOK(y.out) /\ y.out.mode \in Live
        BY <2>4, <3>1, PutBytesOK, PutBytesKeeps DEF OutcomeOK, Kept
      <3>3. Moves(x.out, y.out)
        BY <2>4, <3>1, PutBytesMoves
      <3>. QED  BY <1>0, <3>1, <3>2, <3>3, MovesThen DEF Moves
    <2>5. ASSUME NEW x \in BeginAttachment(out, n), x.res = "Ok", NEW y \in PutBytes(x.out, n),
                 z \in EndAttachment(y.out)
          PROVE  Moves(out, z.out)
      <3>1. StreamOK(y.out) /\ Moves(out, y.out) /\ FileOK(y.out) /\ y.out.mode \in Live
        BY <2>4, <2>5
      <3>2. Moves(y.out, z.out)
        BY <2>5, <3>1, EndAttachmentMoves
      <3>3. FileOK(z.out)
        BY <2>5, <3>1, EndAttachmentKeeps DEF Kept
      <3>. QED  BY <1>0, <3>1, <3>2, <3>3, MovesThen DEF Moves
    <2>. QED  BY <2>1, <2>2, <2>4, <2>5
  <1>2. StreamCall("attach", all)
    BY DEF Attach
  <1>. HIDE DEF all
  <1>. QED  BY <1>1, <1>2, StreamCallMoves

\* put_attachment_bytes and finish_attachment.
LEMMA AttachmentMoves ==
    ASSUME Inv, FileOK(out), out.mode \in Live, NEW n \in Nat,
           PutAttachmentBytes(n) \/ FinishAttachment
    PROVE  Moves(out, out')
  <1>0. StreamOK(out)
    BY DEF Inv
  <1>1. \A x \in PutBytes(out, n) : Moves(out, x.out)
    BY <1>0, PutBytesMoves
  <1>2. \A x \in EndAttachment(out) : Moves(out, x.out)
    BY <1>0, EndAttachmentMoves
  <1>. QED  BY <1>1, <1>2, StreamCallMoves DEF PutAttachmentBytes, FinishAttachment

\* Any outcome of flushing the stream itself.
LEMMA FlushedMoves ==
    ASSUME NEW y, StreamOK(y), FileOK(y), y.mode \in Live, NEW x \in Ok(y) \cup IoError(y, {y})
    PROVE  Moves(y, x.out)
  <1>1. Moves(y, y) /\ DOMAIN y = OutFields
    BY MovesSame DEF StreamOK
  <1>2. CASE x \in Ok(y)
    BY <1>1, <1>2 DEF Ok
  <1>3. CASE x \in IoError(y, {y})
    BY <1>1, <1>3, IoErrorMoves
  <1>. QED  BY <1>2, <1>3

\* flush().
LEMMA FlushMoves ==
    ASSUME Accepts, Flush
    PROVE  Moves(out, out')
  <1>. DEFINE outcomes == Then(FinishChunk(out), LAMBDA x : Ok(x) \cup IoError(x, {x}))
  <1>0. /\ StreamOK(out) /\ FileOK(out) /\ out.mode # "Dropped" /\ out.mode \in {"Raw", "Chunk"}
        /\ ~finished /\ finished \in BOOLEAN /\ opts \in OptionType
    BY AcceptsFacts DEF Accepts
  <1>1. StreamCall("flush", outcomes)
    BY DEF Flush
  <1>2. Refusal(out) = "none"
    BY <1>0 DEF Refusal, ModeRefusal
  <1>3. ASSUME NEW z \in outcomes PROVE Moves(out, z.out)
    <2>1. \/ z \in FinishChunk(out)
          \/ \E y \in FinishChunk(out) : y.res = "Ok" /\ z \in Ok(y.out) \cup IoError(y.out, {y.out})
      BY <1>3 DEF Then
    <2>2. \A y \in FinishChunk(out) : Moves(out, y.out)
      BY <1>0, <1>2, FinishChunkMoves
    <2>3. ASSUME NEW y \in FinishChunk(out), y.res = "Ok",
                 z \in Ok(y.out) \cup IoError(y.out, {y.out})
          PROVE  Moves(out, z.out)
      <3>1. StreamOK(y.out)
        BY <1>0, <2>3, FinishChunkOK DEF OutcomeOK
      <3>2. FileOK(y.out)
        BY <1>0, <2>3, FinishChunkKeeps DEF Keeps, Kept
      <3>3. y.out.mode = "Raw" /\ y.out.mode \in Live
        BY <1>0, <2>3, FinishChunkOK, NoChunkAfterFinishChunk DEF Live, OutcomeOK
      <3>5. Moves(y.out, z.out)
        BY <2>3, <3>1, <3>2, <3>3, FlushedMoves
      <3>6. FileOK(z.out)
        BY <2>3, <3>1, <3>2, FlushKeeps DEF Kept
      <3>7. Moves(out, y.out)
        BY <2>2
      <3>. QED  BY <1>0, <3>2, <3>3, <3>5, <3>6, <3>7, MovesThen DEF Moves
    <2>. QED  BY <2>1, <2>2, <2>3
  <1>. HIDE DEF outcomes
  <1>. QED  BY <1>1, <1>3, StreamCallMoves

-------------------------------------------------------------------------------
(* A step that leaves the writer unfinished.                               *)

\* A writer that is lost stays as it is.
LEMMA MovesStill ==
    ASSUME NEW o, NEW p, Moves(o, p), p.mode \notin Live,
           NEW q, q.file = p.file, q.chunk.recs = p.chunk.recs, q.mode \notin Live
    PROVE  Moves(o, q)
  BY DEF Moves, Goes, Seen, Safe, Stream

\* What drop leaves of a writer that holds no chunk.
LEMMA LeftMoves ==
    ASSUME NEW o, StreamOK(o), FileOK(o), o.mode # "Chunk"
    PROVE  /\ Moves(o, LeftBy(o)) /\ LeftBy(o).mode \notin Live
           /\ o.mode # "Attachment" => LeftBy(o).file = o.file /\ LeftBy(o).chunk = o.chunk
  <1>. DEFINE left == IF o.mode = "Attachment" THEN Appended(o, <<Torn>>) ELSE o
              p == LeftBy(o)
  <1>1. DOMAIN o = OutFields /\ o.chunk = NoChunk
    BY DEF StreamOK
  <1>2. left \in TornOr(o) /\ DOMAIN left = OutFields /\ (o.mode # "Attachment" => left = o)
    <2>1. DOMAIN Appended(o, <<Torn>>) = DOMAIN o
      BY DEF Appended
    <2>. QED  BY <1>1, <2>1 DEF TornOr
  <1>3. p = [left EXCEPT !.mode = "Dropped", !.att = NoAttachment]
    BY DEF LeftBy
  <1>. HIDE DEF left, p
  <1>4. p.file = left.file /\ p.chunk = left.chunk /\ p.mode = "Dropped"
    BY <1>2, <1>3 DEF OutFields
  <1>5. Moves(o, p)
    BY <1>1, <1>2, <1>4, TornMoves
  <1>. QED  BY <1>2, <1>4, <1>5 DEF p, Live

\* finish() that does not get as far as the summary.
LEMMA UnfinishedMoves ==
    ASSUME Inv, FileOK(out), ~finished, out.mode \in Live,
           NEW f \in FinishOutcomes, ~f.finished
    PROVE  Moves(out, f.out)
  <1>1. StreamOK(out) /\ ~SummaryPanics
    BY SummaryFindsContent DEF Inv, RegistriesOK
  <1>2. PICK x \in FinishChunk(out) : f.out = x.out
    BY <1>1 DEF FinishOutcomes
  <1>3. CASE Refusal(out) = "none"
    <2>1. out.mode # "Dropped"
      BY DEF Live
    <2>. QED  BY <1>1, <1>2, <1>3, <2>1, FinishChunkMoves
  <1>4. CASE Refusal(out) # "none"
    <2>1. f.out = out
      BY <1>4, RefusedFinish
    <2>. QED  BY <2>1, MovesSame
  <1>. QED  BY <1>3, <1>4

\* finish() and drop.
LEMMA FinishMoves ==
    ASSUME Inv, OpenInv(out, schemas, channels, book), ~finished, ~finished',
           out.mode \in Live, Finish \/ Drop
    PROVE  Moves(out, out')
  <1>0. StreamOK(out) /\ FileOK(out) /\ out.mode # "Dropped"
    BY DEF Inv, OpenInv, Live
  <1>1. CASE Finish
    <2>1. PICK f \in FinishOutcomes : out' = f.out /\ ~f.finished
      BY <1>1 DEF Finish
    <2>. QED  BY <1>0, <2>1, UnfinishedMoves
  <1>2. CASE Drop
    <2>1. PICK f \in FinishOutcomes : out' = LeftBy(f.out) /\ ~f.finished
      BY <1>2 DEF Drop, LeftBy
    <2>2. Moves(out, f.out)
      BY <1>0, <2>1, UnfinishedMoves
    <2>3. StreamOK(f.out) /\ f.out.mode # "Chunk"
      BY <1>0, <2>1, FinishOutcomesOK DEF Inv, RegistriesOK
    <2>4. FileOK(f.out)
      BY <1>0, <2>1, UnfinishedOutcome DEF Kept
    <2>5. /\ Moves(f.out, out') /\ out'.mode \notin Live
          /\ f.out.mode # "Attachment" => out'.file = f.out.file /\ out'.chunk = f.out.chunk
      BY <2>1, <2>3, <2>4, LeftMoves
    <2>6. CASE f.out.mode \in Live
      <3>1. FileOK(out')
        BY <2>1, <2>3, <2>4, DroppedKeeps DEF Kept
      <3>. QED  BY <1>0, <2>2, <2>4, <2>5, <2>6, <3>1, MovesThen DEF Moves
    <2>7. CASE f.out.mode \notin Live
      <3>1. f.out.mode # "Attachment"
        BY <2>7 DEF Live
      <3>. QED  BY <2>2, <2>5, <2>7, <3>1, MovesStill
    <2>. QED  BY <2>6, <2>7
  <1>. QED  BY <1>1, <1>2

\* A writer that can go on: nothing, or one message more, or it is lost.
LEMMA LiveStep ==
    ASSUME Inv, OpenInv(out, schemas, channels, book), ~finished, [Next]_vars, ~finished',
           out.mode \in Live
    PROVE  Tracks(out, out')
  <1>. DEFINE Done == Tracks(out, out')
  <1>. SUFFICES Done
    OBVIOUS
  <1>0. FileOK(out)
    BY DEF OpenInv
  <1>1. CASE out' = out
    BY <1>0, <1>1, MovesSame, MovesTracks
  <1>2. CASE Finish \/ Drop
    BY <1>2, FinishMoves, MovesTracks
  <1>3. ~IntoInner
    BY DEF IntoInner
  <1>4. CASE FinishAttachment \/ \E n \in 1..MaxAttachment : PutAttachmentBytes(n)
    <2>1. \E n \in Nat : PutAttachmentBytes(n) \/ FinishAttachment
      BY <1>4, Lengths
    <2>. QED  BY <1>0, <2>1, AttachmentMoves, MovesTracks
  <1>5. CASE Accepts /\ Next /\ ~(Finish \/ Drop)
             /\ ~(FinishAttachment \/ \E n \in 1..MaxAttachment : PutAttachmentBytes(n))
    <2>0. Accepts
      BY <1>5
    <2>. HIDE DEF Done
    <2>1. ASSUME NEW c \in SchemaContents, AddSchema(c) PROVE Done
      BY <2>0, <2>1, DeclareTracks DEF Done
    <2>2. ASSUME NEW s \in CallerIds \cup {0}, NEW p \in Topics, AddChannel(s, p) PROVE Done
      BY <2>0, <2>2, DeclareTracks DEF Done
    <2>3. ASSUME NEW i \in CallerIds, NEW t \in Times, WriteToKnownChannel(i, t) PROVE Done
      BY <2>0, <2>3, CallerIdsAreIds, WriteTracks DEF Done
    <2>4. ASSUME NEW i \in CallerIds, NEW s \in CallerIds, NEW p \in Topics,
                 NEW c \in SchemaContents \cup {NoSchema}, NEW t \in Times,
                 Write(i, p, s, c, t)
          PROVE  Done
      BY <2>0, <2>4, CallerIdsAreIds, WriteTracks DEF Done
    <2>5. ASSUME NEW reserved \in BOOLEAN, NEW inChunks \in BOOLEAN,
                 WritePrivateRecord(reserved, inChunks)
          PROVE  Done
      BY <2>0, <2>5, PrivateMoves, MovesTracks DEF Done
    <2>6. ASSUME NEW n \in 0..MaxAttachment, StartAttachment(n) \/ Attach(n) PROVE Done
      BY <2>0, <2>6, Lengths, StartAttachmentMoves, AttachMoves, MovesTracks DEF Done
    <2>7. CASE WriteMetadata
      <3>1. 0 \in Nat
        OBVIOUS
      <3>. QED  BY <2>0, <2>7, <3>1, StartAttachmentMoves, MovesTracks DEF Done
    <2>8. CASE Flush
      BY <2>0, <2>8, FlushMoves, MovesTracks DEF Done
    <2>. QED
      BY <1>3, <1>5, <2>1, <2>2, <2>3, <2>4, <2>5, <2>6, <2>7, <2>8 DEF Next
  <1>6. CASE ~Accepts /\ Next /\ ~(Finish \/ Drop)
             /\ ~(FinishAttachment \/ \E n \in 1..MaxAttachment : PutAttachmentBytes(n))
    <2>1. Refusal(out) # "none"
      <3>1. out.mode # "Dropped" /\ out.mode \notin {"Raw", "Chunk"}
        BY <1>6 DEF Accepts, Live
      <3>. QED  BY <3>1, RefusalNone DEF Inv, StreamOK
    <2>. QED  BY <1>1, <1>3, <1>6, <2>1, RefusedCalls
  <1>7. CASE UNCHANGED vars
    BY <1>1, <1>7 DEF vars
  <1>. QED  BY <1>2, <1>4, <1>5, <1>6, <1>7

\* A writer that has failed or lost its stream.
LEMMA LostStep ==
    ASSUME Inv, Inv', ~finished, [Next]_vars, out.mode \notin Live
    PROVE  out'.file = out.file /\ out'.chunk.recs = out.chunk.recs /\ out'.mode \notin Live
  <1>. DEFINE Done == out'.file = out.file /\ out'.mode \notin Live
  <1>1. /\ StreamOK(out) /\ out.chunk = NoChunk /\ DOMAIN out = OutFields
        /\ out'.mode # "Chunk" => out'.chunk = NoChunk
    BY DEF Inv, StreamOK, Live
  <1>. SUFFICES Done
    <2>1. Done => out'.mode # "Chunk"
      BY DEF Live
    <2>. QED  BY <1>1, <2>1
  <1>2. CASE UNCHANGED vars
    BY <1>2 DEF vars
  <1>3. ASSUME Next PROVE Done
    <2>0. out.mode \in {"Failed", "None"} /\ Refusal(out) # "none"
      <3>1. out.mode \in {"Failed", "None"}
        BY <1>1, <1>3, NotDropped DEF StreamOK, Modes, Live
      <3>. QED  BY <3>1 DEF Refusal, ModeRefusal
    <2>1. ASSUME NEW n, PutAttachmentBytes(n) PROVE out' = out
      <3>1. PutBytes(out, n) = Fails(out, "AttachmentNotInProgress")
        BY <2>0 DEF PutBytes
      <3>. QED  BY <2>1, <3>1 DEF PutAttachmentBytes, StreamCall, Fails
    <2>2. CASE FinishAttachment
      <3>1. EndAttachment(out) = Fails(out, "AttachmentNotInProgress")
        BY <2>0 DEF EndAttachment
      <3>2. out' = out
        BY <2>2, <3>1 DEF FinishAttachment, StreamCall, Fails
      <3>. QED  BY <3>2
    <2>3. CASE IntoInner
      <3>1. out' = [Taken(out) EXCEPT !.mode = "Dropped", !.chunk = NoChunk,
                                      !.att = NoAttachment]
        BY <2>0, <2>3 DEF IntoInner
      <3>. QED  BY <1>1, <3>1 DEF Taken, OutFields, Live
    <2>4. CASE Drop
      <3>1. PICK f \in FinishOutcomes : out' = LeftBy(f.out)
        BY <2>4 DEF Drop, LeftBy
      <3>2. f.out = out
        BY <2>0, RefusedFinish
      <3>. QED  BY <1>1, <2>0, <3>1, <3>2 DEF LeftBy, OutFields, Live
    <2>. QED  BY <2>0, <2>1, <2>2, <2>3, <2>4, RefusedCalls
  <1>. QED  BY <1>2, <1>3

-------------------------------------------------------------------------------
(* What a reader finds in the file, finished or not.                       *)

\* The messages of the file and the open chunk, and those of the file alone.
Read(o) == MessagesIn(WrittenIn(o))

Held(o) == MessagesIn(Flat(DataOf(o.file)))

\* Before finish() they are those of the stream.
LEMMA OpenReads ==
    ASSUME NEW o, FileOK(o)
    PROVE  Read(o) = Seen(o) /\ Held(o) = Safe(o)
  BY OpenWritten DEF Read, Held, Seen, Safe

\* They are about the file and the open chunk.
LEMMA SameReads ==
    ASSUME NEW o, NEW p, p.file = o.file, p.chunk.recs = o.chunk.recs
    PROVE  Read(p) = Read(o) /\ Held(p) = Held(o)
  BY DEF Read, Held, WrittenIn

\* They are what the properties take for the log and its durable part.
LEMMA LogIs ==
    /\ MessagesIn(Written) = Read(out) /\ (MessagesIn(Written))' = Read(out')
    /\ Len(MessagesIn(Flat(DataSection))) = Len(Held(out))
    /\ (Len(MessagesIn(Flat(DataSection))))' = Len(Held(out'))
  BY WrittenFacts DEF Read, Held, DataSection, DataOf

\* What an I/O error may leave of the tail, in the writer p it leaves.
LEMMA PartForms ==
    ASSUME NEW o, NEW part \in PartsOf(FileTail(o)),
           NEW p, p = [Sealed(o, part) EXCEPT !.faults = @ + 1]
    PROVE  \/ part = FileTail(o)
           \/ \E k \in 0..(Len(FileTail(o)) - 1), end \in {<<>>, <<Torn>>} :
                part = SubSeq(FileTail(o), 1, k) \o end
  BY DEF PartsOf

\* Of a tail that starts with DataEnd: nothing, a torn record, or a
\* beginning that ends the data section.
LEMMA PartsOfTail ==
    ASSUME NEW o, NEW tail, tail = FileTail(o), IsSeq(tail), Len(tail) >= 1,
           tail[1].op = "DataEnd", NEW part \in PartsOf(tail)
    PROVE  \/ part \in {<<>>, <<Torn>>}
           \/ IsSeq(part) /\ Len(part) >= 1 /\ part[1].op = "DataEnd"
  <1>1. Len(tail) \in Nat
    BY IsSeqFacts
  <1>2. \/ part = tail
        \/ \E k \in 0..(Len(tail) - 1), end \in {<<>>, <<Torn>>} :
             part = SubSeq(tail, 1, k) \o end
    <2>. DEFINE broken == [Sealed(o, part) EXCEPT !.faults = @ + 1]
    <2>1. broken = [Sealed(o, part) EXCEPT !.faults = @ + 1] /\ part \in PartsOf(FileTail(o))
      OBVIOUS
    <2>. HIDE DEF broken
    <2>. QED  BY <2>1, PartForms
  <1>3. ASSUME NEW k \in 0..(Len(tail) - 1), NEW end \in {<<>>, <<Torn>>},
               part = SubSeq(tail, 1, k) \o end
        PROVE  \/ part = end
               \/ IsSeq(part) /\ Len(part) >= 1 /\ part[1].op = "DataEnd"
    <2>. DEFINE a == SubSeq(tail, 1, k)
    <2>1. k \in Nat /\ k <= Len(tail) /\ k - 1 + 1 = k
      BY <1>1
    <2>2. IsSeq(end) /\ Len(end) \in Nat
      BY EmptyFacts, SingletonFacts
    <2>3. /\ IsSeq(a) /\ Len(a) = k
          /\ \A i \in 1..k : a[i] = tail[1 + i - 1]
      BY <2>1, SubSeqFacts
    <2>4. part = a \o end
      BY <1>3
    <2>. HIDE DEF a
    <2>5. /\ IsSeq(part) /\ Len(part) = k + Len(end)
          /\ \A i \in 1..(k + Len(end)) : part[i] = IF i <= k THEN a[i] ELSE end[i - k]
      BY <2>2, <2>3, <2>4, ConcatFacts
    <2>6. CASE k = 0
      <3>1. Len(part) = Len(end)
        BY <2>2, <2>5, <2>6
      <3>2. ASSUME NEW i \in 1..Len(end) PROVE part[i] = end[i]
        <4>1. i \in 1..(k + Len(end)) /\ ~(i <= k) /\ i - k = i
          BY <2>2, <2>6
        <4>. QED  BY <2>5, <4>1
      <3>. QED  BY <2>2, <2>5, <3>1, <3>2, SeqExtensional
    <2>7. CASE k >= 1
      <3>1. 1 \in 1..(k + Len(end)) /\ 1 <= k /\ 1 \in 1..k /\ 1 + 1 - 1 = 1
        BY <2>1, <2>2, <2>7
      <3>2. part[1] = tail[1]
        BY <2>3, <2>5, <3>1
      <3>3. Len(part) >= 1
        BY <2>1, <2>2, <2>5, <2>7
      <3>. QED  BY <2>5, <3>2, <3>3
    <2>. QED  BY <2>1, <2>6, <2>7
  <1>. QED  BY <1>2, <1>3

\* Whatever is left of the tail, the messages are those that were there before.
LEMMA TailKeepsMessages ==
    ASSUME NEW o, StreamOK(o), FileOK(o), o.chunk = NoChunk, o.mode \in Live,
           NEW tail, tail = FileTail(o), IsSeq(tail), Len(tail) >= 1,
           tail[1].op = "DataEnd", NEW part \in PartsOf(tail),
           NEW p, p.file = o.file \o part, p.chunk = NoChunk
    PROVE  Read(p) = Seen(o) /\ Held(p) = Seen(o)
  <1>1. Seen(o) = Safe(o) /\ Read(o) = Seen(o) /\ Held(o) = Safe(o)
    BY SeenFacts, NoChunkHolds, OpenReads
  <1>2. CASE part = <<>>
    <2>1. p.file = o.file
      BY <1>2, ConcatEmpty DEF FileOK, IsData
    <2>. QED  BY <1>1, <2>1, SameReads
  <1>3. CASE part = <<Torn>>
    <2>. DEFINE a == Appended(o, <<Torn>>)
    <2>1. a.file = p.file /\ a.chunk = p.chunk /\ a.mode = o.mode /\ a \in TornOr(o)
      BY <1>3 DEF Appended, StreamOK, OutFields, TornOr
    <2>2. FileOK(a)
      BY TornKeeps DEF TornOr
    <2>. HIDE DEF a
    <2>3. Moves(o, a)
      BY <2>1, TornMoves
    <2>4. Seen(a) = Seen(o)
      BY <2>1, <2>3 DEF Moves, Goes, Torn
    <2>5. Seen(a) = Safe(a)
      BY <2>1, <2>2, SeenFacts, NoChunkHolds
    <2>6. Read(a) = Seen(a) /\ Held(a) = Safe(a)
      BY <2>2, OpenReads
    <2>. QED  BY <2>1, <2>4, <2>5, <2>6, SameReads
  <1>4. CASE IsSeq(part) /\ Len(part) >= 1 /\ part[1].op = "DataEnd"
    <2>1. DataOf(p.file) = o.file /\ WrittenIn(p) = Stream(o)
      BY <1>4, TailEndsData
    <2>. QED  BY <1>1, <2>1 DEF Read, Held, Seen, Safe
  <1>. QED  BY <1>2, <1>3, <1>4, PartsOfTail

\* finish() that gets as far as the summary: no message is lost.
LEMMA FinishedReads ==
    ASSUME Inv, OpenInv(out, schemas, channels, book), ~finished, out.mode # "Dropped",
           NEW f \in FinishOutcomes, f.finished
    PROVE  Read(f.out) = Seen(out) /\ Held(f.out) = Seen(out)
  <1>1. PICK x \in FinishChunk(out) : x.res = "Ok" /\ \E y \in Close(x.out) : f.out = y.out
    <2>1. ~SummaryPanics
      BY SummaryFindsContent DEF Inv, RegistriesOK
    <2>. QED  BY <2>1 DEF FinishOutcomes
  <1>. DEFINE o == x.out
              tail == FileTail(o)
              p == f.out
  <1>2. StreamOK(out) /\ FileOK(out) /\ finished \in BOOLEAN /\ opts \in OptionType
    BY DEF Inv, OpenInv
  <1>3. Refusal(out) = "none"
    <2>1. Refusal(out) # "none" => x.res = Refusal(out)
      BY DEF FinishChunk, Fails
    <2>. QED  BY <1>1, <2>1, RefusalNotOk
  <1>4. StreamOK(o) /\ o.mode = "Raw" /\ o.chunk = NoChunk
    BY <1>1, <1>2, FinishChunkOK, NoChunkAfterFinishChunk DEF OutcomeOK, StreamOK
  <1>5. FileOK(o)
    BY <1>2, FinishChunkKeeps DEF Keeps, Kept
  <1>6. Moves(out, o)
    BY <1>2, <1>3, FinishChunkMoves
  <1>7. PICK y \in Close(o) : p = y.out
    BY <1>1
  <1>. HIDE DEF o
  <1>8. o.mode \in Live /\ Seen(o) = Seen(out)
    BY <1>4, <1>6 DEF Moves, Goes, Torn, Live
  <1>9. IsSeq(tail) /\ Len(tail) >= 1 /\ tail[1].op = "DataEnd"
    BY <1>4, FileTailIsTail DEF IsTail
  <1>. HIDE DEF p
  <1>10. \/ p = Sealed(o, tail)
         \/ \E part \in PartsOf(tail) : p = [Sealed(o, part) EXCEPT !.faults = @ + 1]
    BY <1>7 DEF Close, Ok, IoError
  <1>. HIDE DEF tail
  <1>11. tail \in PartsOf(tail)
    BY DEF PartsOf
  <1>12. \E part \in PartsOf(tail) : p.file = o.file \o part /\ p.chunk = NoChunk
    BY <1>4, <1>10, <1>11 DEF Sealed, Taken, StreamOK, OutFields
  <1>13. Read(p) = Seen(o) /\ Held(p) = Seen(o)
    BY <1>4, <1>5, <1>8, <1>9, <1>12, TailKeepsMessages DEF tail
  <1>. QED  BY <1>8, <1>13 DEF p

\* into_inner() of a writer that can go on: what is in the file stays.
LEMMA IntoInnerMoves ==
    ASSUME Inv, OpenInv(out, schemas, channels, book), IntoInner
    PROVE  Moves(out, out') /\ FileOK(out') /\ out'.mode \notin Live
  <1>. DEFINE torn == out.mode = "Attachment" \/ (out.mode = "Chunk" /\ ~out.chunk.buffered)
              left == IF torn THEN Appended(out, <<Torn>>) ELSE out
              g == IF torn THEN <<Torn>> ELSE <<>>
              p == out'
  <1>1. StreamOK(out) /\ FileOK(out) /\ DOMAIN out = OutFields /\ IsSeq(out.file)
    BY DEF Inv, OpenInv, StreamOK, FileOK, IsData
  <1>2. IsSeq(g) /\ \A r \in ToSet(g) : r.op \in DataOps \ {"Chunk"}
    <2>1. IsSeq(<<Torn>>) /\ ToSet(<<Torn>>) = {Torn}
      BY SingletonFacts
    <2>2. Torn.op \in DataOps \ {"Chunk"}
      BY TornIsQuiet DEF PlainOps
    <2>. QED  BY <2>1, <2>2, EmptyFacts
  <1>3. left.file = out.file \o g /\ left.faults = out.faults /\ DOMAIN left = OutFields
    <2>1. CASE torn
      BY <1>1, <2>1 DEF Appended, OutFields
    <2>2. CASE ~torn
      BY <1>1, <2>2, ConcatEmpty
    <2>. QED  BY <2>1, <2>2
  <1>4. p = [Taken(left) EXCEPT !.mode = "Dropped", !.chunk = NoChunk, !.att = NoAttachment]
    BY DEF IntoInner
  <1>5. out.file \o g = out.file \/ out.file \o g = Append(out.file, Torn)
    BY <1>1, ConcatEmpty, AppendIsJoin
  <1>. HIDE DEF left, g, p
  <1>6. /\ p.file = out.file \o g /\ p.chunk = NoChunk /\ p.faults = out.faults
        /\ p.mode = "Dropped"
    BY <1>3, <1>4 DEF Taken, OutFields
  <1>7. FileOK(p)
    BY <1>1, <1>2, <1>6, FileGrows
  <1>8. p.mode \notin Live
    BY <1>6 DEF Live
  <1>9. Moves(out, p)
    BY <1>1, <1>5, <1>6, <1>7, <1>8, ChunkLost
  <1>. QED  BY <1>7, <1>8, <1>9 DEF p

-------------------------------------------------------------------------------
(* The steps of the message log.                                           *)

\* Nothing a reader sees changes.
LEMMA LogStutters ==
    ASSUME Read(out') = Read(out), Held(out') = Held(out), LogStatus' = LogStatus
    PROVE  UNCHANGED Log!vars
  BY LogIs DEF Log!vars

\* A chunk reaches the file, or nothing does.
LEMMA LogCommits ==
    ASSUME LogStatus = "open", LogStatus' = "open", Read(out') = Read(out),
           IsSeq(Read(out)), IsSeq(Held(out)), IsSeq(Held(out')),
           Pre(Held(out), Held(out')), Pre(Held(out'), Read(out'))
    PROVE  Log!Next
  <1>. DEFINE h == Held(out)
              k == Held(out')
              l == Read(out)
  <1>1. Len(h) \in Nat /\ Len(k) \in Nat /\ Len(l) \in Nat /\ Len(h) <= Len(k) /\ Len(k) <= Len(l)
    BY IsSeqFacts DEF Pre
  <1>. HIDE DEF h, k, l
  <1>2. Len(k) \in Len(h)..Len(l)
    BY <1>1
  <1>. QED  BY <1>2, LogIs DEF Log!Next, Log!Commit, h, k, l

\* A message is appended.
LEMMA LogAppends ==
    ASSUME LogStatus = "open", LogStatus' = "open",
           NEW r \in AllMessages, Read(out') = Append(Read(out), r),
           IsSeq(Read(out)), IsSeq(Held(out)), IsSeq(Held(out')),
           Pre(Held(out), Held(out')), Pre(Held(out'), Read(out'))
    PROVE  Log!Next
  <1>. DEFINE h == Held(out)
              k == Held(out')
              l == Read(out)
              m == Read(out')
  <1>1. IsSeq(l) /\ m = Append(l, r)
    OBVIOUS
  <1>2. Len(h) \in Nat /\ Len(k) \in Nat /\ Len(l) \in Nat /\ Len(h) <= Len(k) /\ Len(k) <= Len(m)
    BY IsSeqFacts DEF Pre
  <1>. HIDE DEF h, k, l, m
  <1>3. IsSeq(m) /\ Len(m) = Len(l) + 1 /\ m[Len(m)] = r /\ Pre(l, m)
    <2>1. IsSeq(m) /\ Pre(l, m)
      BY <1>1, PreAppend
    <2>2. Len(m) = Len(l) + 1 /\ m[Len(l) + 1] = r
      BY <1>1, AppendFacts
    <2>. QED  BY <2>1, <2>2
  <1>4. SubSeq(m, 1, Len(l)) = l
    BY <1>1, <1>3, PreIsSubSeq
  <1>5. Len(k) \in Len(h)..Len(m)
    BY <1>2, <1>3
  <1>6. m[Len(m)] \in AllMessages
    BY <1>3
  <1>. QED  BY <1>3, <1>4, <1>5, <1>6, LogIs DEF Log!Next, Log!AppendMessage, h, k, l, m

\* The writer is lost: what is in the file stays.
LEMMA LogFails ==
    ASSUME LogStatus = "open", LogStatus' = "failed",
           IsSeq(Read(out)), IsSeq(Held(out)), IsSeq(Read(out')), Held(out') = Read(out'),
           Pre(Held(out), Read(out')), Pre(Read(out'), Read(out))
    PROVE  Log!Next
  <1>. DEFINE h == Held(out)
              l == Read(out)
              m == Read(out')
  <1>1. Len(h) \in Nat /\ Len(m) \in Nat /\ Len(l) \in Nat /\ Len(h) <= Len(m) /\ Len(m) <= Len(l)
    BY IsSeqFacts DEF Pre
  <1>2. SubSeq(l, 1, Len(m)) = m
    BY PreIsSubSeq
  <1>. HIDE DEF h, l, m
  <1>3. Len(m) \in Len(h)..Len(l)
    BY <1>1
  <1>. QED  BY <1>2, <1>3, LogIs DEF Log!Next, Log!Fail, h, l, m

\* finish() wrote the footer.
LEMMA LogCloses ==
    ASSUME LogStatus = "open", LogStatus' = "closed",
           Read(out') = Read(out), Held(out') = Read(out)
    PROVE  Log!Next
  BY LogIs DEF Log!Next, Log!Close

\* The status of a log whose writer is not finished, and of one that is.
LEMMA StatusIs ==
    ASSUME finished \in BOOLEAN
    PROVE  /\ FileOK(out) /\ ~finished => LogStatus = IF out.mode \in Live THEN "open" ELSE "failed"
           /\ FileOK(out) /\ finished => LogStatus = "failed"
           /\ finished => LogStatus = IF Last(out.file).op = "Footer" THEN "closed" ELSE "failed"
  BY OpenWritten DEF LogStatus, Complete, Streaming, Live

\* The same after a step.
LEMMA NextStatusIs ==
    ASSUME finished' \in BOOLEAN
    PROVE  /\ FileOK(out') /\ ~finished' => LogStatus' = IF out'.mode \in Live THEN "open" ELSE "failed"
           /\ FileOK(out') /\ finished' => LogStatus' = "failed"
           /\ finished' => LogStatus' = IF Last(out'.file).op = "Footer" THEN "closed" ELSE "failed"
  BY OpenWritten DEF LogStatus, Complete, Streaming, Live

\* A step of a writer that is finished, or lost.
LEMMA QuietLogStep ==
    ASSUME Inv, Inv', Unfinished, Unfinished', [Next]_vars, finished \/ out.mode \notin Live
    PROVE  UNCHANGED Log!vars
  <1>0. finished \in BOOLEAN /\ finished' \in BOOLEAN
    BY DEF Inv
  <1>1. CASE finished
    <2>1. finished' /\ SameFile(out, out')
      BY <1>1, FinishedFrame
    <2>2. out'.file = out.file /\ out'.chunk.recs = out.chunk.recs
      BY <2>1 DEF SameFile
    <2>3. LogStatus' = LogStatus
      BY <1>0, <1>1, <2>1, <2>2, StatusIs, NextStatusIs
    <2>. QED  BY <2>2, <2>3, SameReads, LogStutters
  <1>2. CASE ~finished /\ out.mode \notin Live
    <2>1. out'.file = out.file /\ out'.chunk.recs = out.chunk.recs /\ out'.mode \notin Live
      BY <1>2, LostStep
    <2>2. FileOK(out) /\ Last(out.file).op # "Footer"
      <3>1. FileOK(out)
        BY <1>2 DEF Unfinished, OpenInv
      <3>. QED  BY <3>1, OpenWritten
    <2>3. LogStatus = "failed"
      BY <1>0, <1>2, <2>2, StatusIs
    <2>4. LogStatus' = "failed"
      BY <2>1, <2>2 DEF LogStatus, Complete, Streaming, Live
    <2>. QED  BY <2>1, <2>3, <2>4, SameReads, LogStutters
  <1>. QED  BY <1>1, <1>2

\* A step of a writer that can go on, and is not finished by it.
LEMMA OpenLogStep ==
    ASSUME Inv, Inv', OpenInv(out, schemas, channels, book), ~finished, [Next]_vars, ~finished',
           out.mode \in Live
    PROVE  Log!Next
  <1>0. FileOK(out) /\ FileOK(out') /\ finished \in BOOLEAN /\ finished' \in BOOLEAN
    BY NextOpen DEF OpenInv, Inv
  <1>1. PICK r : (r.op = "Message" => r \in AllMessages) /\ Goes(out, out', r)
    BY LiveStep DEF Tracks
  <1>2. /\ Read(out) = Seen(out) /\ Held(out) = Safe(out)
        /\ Read(out') = Seen(out') /\ Held(out') = Safe(out')
    BY <1>0, OpenReads
  <1>3. /\ IsSeq(Seen(out)) /\ IsSeq(Safe(out)) /\ IsSeq(Seen(out')) /\ IsSeq(Safe(out'))
        /\ Pre(Safe(out'), Seen(out'))
    BY <1>0, SeenFacts
  <1>4. LogStatus = "open"
    BY <1>0, StatusIs
  <1>5. CASE out'.mode \in Live
    <2>1. LogStatus' = "open"
      BY <1>0, <1>5, NextStatusIs
    <2>2. Pre(Safe(out), Safe(out'))
      BY <1>1 DEF Goes
    <2>3. CASE Seen(out') = Seen(out)
      BY <1>2, <1>3, <1>4, <2>1, <2>2, <2>3, LogCommits
    <2>4. CASE r.op = "Message" /\ Seen(out') = Append(Seen(out), r)
      BY <1>1, <1>2, <1>3, <1>4, <2>1, <2>2, <2>4, LogAppends
    <2>. QED  BY <1>1, <1>5, <2>3, <2>4 DEF Goes
  <1>6. CASE out'.mode \notin Live
    <2>1. LogStatus' = "failed"
      BY <1>0, <1>6, NextStatusIs
    <2>2. Pre(Safe(out), Safe(out')) /\ Seen(out') = Safe(out') /\ Pre(Safe(out'), Seen(out))
      BY <1>1, <1>6 DEF Goes
    <2>. QED  BY <1>2, <1>3, <1>4, <2>1, <2>2, LogFails
  <1>. QED  BY <1>5, <1>6

\* The step that finishes a writer that can go on.
LEMMA ClosingLogStep ==
    ASSUME Inv, Inv', OpenInv(out, schemas, channels, book), ~finished, [Next]_vars, finished',
           out.mode \in Live
    PROVE  Log!Next
  <1>0. FileOK(out) /\ finished \in BOOLEAN /\ finished' \in BOOLEAN /\ out.mode # "Dropped"
    BY DEF OpenInv, Inv, Live
  <1>1. Read(out) = Seen(out) /\ Held(out) = Safe(out)
    BY <1>0, OpenReads
  <1>2. IsSeq(Seen(out)) /\ IsSeq(Safe(out)) /\ Pre(Safe(out), Seen(out))
    BY <1>0, SeenFacts
  <1>3. LogStatus = "open"
    BY <1>0, StatusIs
  <1>4. CASE Finish \/ Drop
    <2>1. Read(out') = Seen(out) /\ Held(out') = Seen(out)
      <3>1. CASE Finish
        <4>1. PICK f \in FinishOutcomes : out' = f.out /\ f.finished
          BY <3>1 DEF Finish
        <4>. QED  BY <1>0, <4>1, FinishedReads
      <3>2. CASE Drop
        <4>1. PICK f \in FinishOutcomes : out' = LeftBy(f.out) /\ f.finished
          BY <3>2 DEF Drop, LeftBy
        <4>2. Read(f.out) = Seen(out) /\ Held(f.out) = Seen(out)
          BY <1>0, <4>1, FinishedReads
        <4>3. StreamOK(f.out) /\ f.out.mode = "Raw"
          BY <1>0, <4>1, FinishOutcomesOK DEF Inv, RegistriesOK
        <4>4. out'.file = f.out.file /\ out'.chunk.recs = f.out.chunk.recs
          BY <4>1, <4>3 DEF LeftBy, StreamOK, OutFields
        <4>. QED  BY <4>2, <4>4, SameReads
      <3>. QED  BY <1>4, <3>1, <3>2
    <2>2. LogStatus' \in {"closed", "failed"}
      BY <1>0, NextStatusIs
    <2>3. CASE LogStatus' = "closed"
      BY <1>1, <1>3, <2>1, <2>3, LogCloses
    <2>4. CASE LogStatus' = "failed"
      <3>1. Pre(Seen(out), Seen(out))
        BY <1>2, PreRefl
      <3>. QED  BY <1>1, <1>2, <1>3, <2>1, <2>4, <3>1, LogFails
    <2>. QED  BY <2>2, <2>3, <2>4
  <1>5. CASE IntoInner
    <2>1. Moves(out, out') /\ FileOK(out') /\ out'.mode \notin Live
      BY <1>5, IntoInnerMoves
    <2>2. Pre(Safe(out), Safe(out')) /\ Seen(out') = Safe(out') /\ Pre(Safe(out'), Seen(out))
      BY <2>1 DEF Moves, Goes
    <2>3. Read(out') = Seen(out') /\ Held(out') = Safe(out') /\ IsSeq(Safe(out'))
      BY <2>1, OpenReads, SeenFacts
    <2>4. LogStatus' = "failed"
      BY <1>0, <2>1, NextStatusIs
    <2>. QED  BY <1>1, <1>2, <1>3, <2>2, <2>3, <2>4, LogFails
  <1>. QED  BY <1>4, <1>5, StepEnds

\* No record, no message.
LEMMA NoMessages == MessagesIn(<<>>) = <<>>
  <1>. DEFINE none == Picks(<<>>, "Message")
  <1>1. Readable(<<>>) = <<>>
    <2>1. Positions(<<>>, "Torn") = {}
      BY DEF Positions
    <2>. QED  BY <2>1 DEF Readable
  <1>2. IsSeq(none) /\ Len(none) = 0 /\ Only(<<>>, "Message") = FlattenSeq(none)
    BY EmptyFacts, PicksFacts
  <1>. HIDE DEF none
  <1>3. FlattenSeq(none) = none
    BY <1>2, FlattenUnfolds
  <1>4. none = <<>>
    BY <1>2, EmptyFacts, SeqExtensional
  <1>. QED  BY <1>1, <1>2, <1>3, <1>4, MessagesInIs

\* The first state: a header, and no message.
LEMMA LogInit ==
    ASSUME Init
    PROVE  Log!Init
  <1>1. FileOK(out) /\ out.file = <<HeaderRec>> /\ out.chunk = NoChunk /\ out.mode = "Raw"
        /\ ~finished /\ finished \in BOOLEAN
    BY InitOpen DEF Init, OpenInv
  <1>2. Seen(out) = Safe(out) /\ Read(out) = Seen(out) /\ Held(out) = Safe(out)
    BY <1>1, SeenFacts, NoChunkHolds, OpenReads
  <1>. DEFINE t == Flat(out.file)
  <1>3. IsSeq(t) /\ \A r \in ToSet(t) : r.op # "Message"
    <2>1. ToSet(out.file) = {HeaderRec} /\ HeaderRec.op = "Header"
      BY <1>1, SingletonFacts DEF HeaderRec
    <2>2. Opened(HeaderRec) = <<HeaderRec>>
      BY <2>1 DEF Opened
    <2>3. Whole(out.file) /\ IsSeq(t)
      BY <1>1, StreamFacts
    <2>4. \A r \in ToSet(t) : r = HeaderRec
      BY <2>1, <2>2, <2>3, FlatElements, SingletonFacts
    <2>. QED  BY <2>1, <2>3, <2>4
  <1>. HIDE DEF t
  <1>4. Safe(out) = <<>>
    <2>1. MessagesIn(<<>> \o t) = <<>>
      BY <1>3, EmptyFacts, MessagesConcat, NoMessages
    <2>2. <<>> \o t = t
      BY <1>3 DEF IsSeq
    <2>. QED  BY <2>1, <2>2 DEF Safe, t
  <1>5. LogStatus = "open"
    BY <1>1, StatusIs DEF Live
  <1>. QED  BY <1>2, <1>4, <1>5, LogIs, EmptyFacts DEF Log!Init

-------------------------------------------------------------------------------
(* The theorem.                                                            *)

\* The writer implements a message log: write() appends at the end and nowhere
\* else, finishing a chunk, flushing and every other call moves no message,
\* finish() keeps them all, and a writer that fails or is given up loses no
\* message of a finished chunk.
THEOREM WriterImplementsLog == Spec => ImplementsLog
  <1>1. Init => Log!Init
    BY LogInit
  <1>2. ASSUME Inv, Inv', Unfinished, Unfinished', [Next]_vars
        PROVE  [Log!Next]_(Log!vars)
    <2>1. CASE finished \/ out.mode \notin Live
      BY <1>2, <2>1, QuietLogStep
    <2>2. CASE ~finished /\ out.mode \in Live
      <3>1. OpenInv(out, schemas, channels, book)
        BY <1>2, <2>2 DEF Unfinished
      <3>2. Log!Next
        BY <1>2, <2>2, <3>1, OpenLogStep, ClosingLogStep
      <3>. QED  BY <3>2
    <2>. QED  BY <2>1, <2>2
  <1>. QED  BY <1>1, <1>2, InvHolds, UnfinishedInvariant, PTL DEF Spec, ImplementsLog, Log!Spec
===============================================================================
