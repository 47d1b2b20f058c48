-------------------------- MODULE LinearReaderProofs --------------------------
(***************************************************************************)
(* The linear reader never loses its place: for every file, however its    *)
(* chunks are stored and wherever it is cut, and however the client's      *)
(* reads cut it up.                                                        *)
(***************************************************************************)
EXTENDS LinearReaderProperties, SequenceFacts

-------------------------------------------------------------------------------
(* The inductive invariant.                                                *)

Begin(f, i) == f.spans[i][1]
Ending(f, i) == f.spans[i][2]

\* The header of the chunk that item i is, and the cell after which its data is.
Header(f, i) == IF f.items[i].k = "Contents" THEN f.chunk[1] ELSE Cell(f, Begin(f, i) + 2)
DataFrom(f, i) == IF f.items[i].k = "Contents" THEN 0 ELSE Begin(f, i) + 1 + HeaderLen(Header(f, i))

\* Item i is a chunk that the reader can go into.
IsChunk(f, i) ==
    /\ f.items[i].k \in {"Chunk", "Contents"}
    /\ f.items[i].k = "Chunk" => Begin(f, i) + 2 <= Len(f.cells)
    /\ DataFrom(f, i) + Header(f, i).compressed_size <= Ending(f, i)
    /\ Header(f, i).compression \in Supported \cup {""}

\* n positions after p.
Run(p, n) == [j \in 1..n |-> p + j]

IsRun(s, p) == Len(s) \in Nat /\ s = Run(p, Len(s))

IsDecompressor(d) ==
    /\ d = [name |-> d.name, need |-> d.need, held |-> d.held]
    /\ d.need \in Nat

State(decompressor, hasher, compressed, uncompressed, len, padding, crc) ==
    [decompressor |-> decompressor, hasher |-> hasher,
     compressed_remaining |-> compressed, uncompressed_remaining |-> uncompressed,
     uncompressed_len |-> len, padding_after_compressed_data |-> padding, crc |-> crc]

HasFields(c) ==
    c = State(c.decompressor, c.hasher, c.compressed_remaining, c.uncompressed_remaining,
              c.uncompressed_len, c.padding_after_compressed_data, c.crc)

IsState(c) ==
    /\ HasFields(c)
    /\ c.compressed_remaining \in Nat /\ c.uncompressed_remaining \in Nat
    /\ c.padding_after_compressed_data \in Nat
    /\ c.decompressor # None => c.decompressor = Some(c.decompressor[1]) /\ IsDecompressor(c.decompressor[1])

\* In a chunk without compression the reader is at a record, or at the end.
AtRecord(f, i, p) ==
    /\ DataFrom(f, i) <= p
    /\ p < DataFrom(f, i) + Header(f, i).uncompressed_size => IsHead(f, p + 1)

\* In a compressed chunk the cells decompressed and not yet yielded, those that
\* the decoder holds back and those it has not seen follow each other from y on,
\* where a record starts.  The mark at the end of the frame is taken last.
InFrame(f, i, p, state, unread, y) ==
    LET end  == DataFrom(f, i) + Header(f, i).uncompressed_size
        done == y + Len(unread)
        held == state.decompressor[1].held
    IN /\ DataFrom(f, i) <= y /\ DataFrom(f, i) <= p
       /\ y < end => IsHead(f, y + 1)
       /\ IsRun(unread, y) /\ IsRun(held, done)
       /\ state.uncompressed_remaining = end - done
       /\ p <= end => done + Len(held) = p
       /\ p > end => done = end /\ held = <<>>

\* In item i after p cells: what is consumed, what remains of the compressed
\* bytes and what is to be skipped after them make up the chunk.
InChunk(f, i, p, state, unread, at, limit) ==
    /\ IsChunk(f, i) /\ IsState(state)
    /\ state.decompressor = None <=> Header(f, i).compression = ""
    /\ state.uncompressed_len = Header(f, i).uncompressed_size
    /\ Begin(f, i) < p \/ f.items[i].k = "Contents"
    /\ p + state.compressed_remaining + state.padding_after_compressed_data = Ending(f, i)
    /\ at = "PaddingAfterChunk" =>
         /\ state.compressed_remaining = 0
         /\ state.padding_after_compressed_data <= 2 * limit
    /\ at # "PaddingAfterChunk" =>
         /\ state.padding_after_compressed_data <= limit
         /\ p + state.compressed_remaining = DataFrom(f, i) + Header(f, i).compressed_size
         /\ IF state.decompressor = None THEN AtRecord(f, i, p)
            ELSE \E y \in 0..p : InFrame(f, i, p, state, unread, y)

\* After p cells the reader is where its state says.
IsAt(f, p, reading, chunk, unread, limit) ==
    \/ /\ reading.at = "StartMagic"
       /\ chunk = None /\ f.chunk = None /\ p = 0
    \/ /\ reading.at = "FileRecord"
       /\ chunk = None
       /\ \E i \in DOMAIN f.spans : Leads(f, i) /\ p = Ending(f, i)
    \/ /\ reading.at \in {"DataEnd", "Footer", "ChunkHeader"}
       /\ chunk = None
       /\ \E i \in DOMAIN f.spans :
            /\ f.items[i].k = (IF reading.at = "ChunkHeader" THEN "Chunk" ELSE reading.at)
            /\ p = Begin(f, i) + 1 /\ reading.len = Ending(f, i) - Begin(f, i) - 1
    \/ /\ reading.at \in {"ValidatingChunkCrc", "ChunkRecord", "PaddingAfterChunk"}
       /\ chunk = Some(chunk[1])
       /\ \E i \in DOMAIN f.spans : InChunk(f, i, p, chunk[1], unread, reading.at, limit)
    \/ /\ reading.at \in {"EndMagic", "AfterEndMagic"}
       /\ chunk = None

Placed == IsAt(file, file_data.start, currently_reading, chunk_state,
               decompressed_content.unread, opts.record_length_limit)

\* What the reader has in its fields.
Shape ==
    /\ file \in Files /\ opts \in OptionType /\ at_eof \in BOOLEAN
    /\ file_data = [start |-> file_data.start, end |-> file_data.end, hasher |-> file_data.hasher]
    /\ file_data.start \in Nat /\ file_data.end \in Nat
    /\ file_data.start <= file_data.end /\ file_data.end <= Len(file.cells)
    /\ decompressed_content = [unread |-> decompressed_content.unread, hasher |-> decompressed_content.hasher]
    /\ \A d \in decompressors : IsDecompressor(d) /\ d.held = <<>>

\* What it has told the client.
Told ==
    /\ event.kind \in {"Call", "ReadRequest", "Record", "None", "Err"}
    /\ event.kind = "ReadRequest" => event.n \in Nat \ {0} /\ Permitted(Have + event.n)

LinearInv == Shape /\ Told /\ Placed

\* An error may leave the reader in a place from which it cannot go on.
Failed == event.kind = "Err" /\ TypeOK

-------------------------------------------------------------------------------
(* Runs of positions.                                                      *)

\* A run is a sequence, with its length and its elements.
LEMMA RunFacts ==
    ASSUME NEW p \in Int, NEW n \in Nat
    PROVE  /\ IsSeq(Run(p, n)) /\ Len(Run(p, n)) = n /\ DOMAIN Run(p, n) = 1..n
           /\ \A j \in 1..n : Run(p, n)[j] = p + j
  <1>. DEFINE r == Run(p, n)
  <1>1. DOMAIN r = 1..n /\ r = [j \in 1..n |-> r[j]] /\ \A j \in 1..n : r[j] = p + j
    BY DEF Run
  <1>. HIDE DEF r
  <1>2. IsSeq(r) /\ Len(r) = n
    BY <1>1, FunctionIsSeq
  <1>. QED  BY <1>1, <1>2 DEF r

\* A sequence that counts on from p is a run.
LEMMA RunIs ==
    ASSUME NEW s, IsSeq(s), NEW p \in Int, \A j \in 1..Len(s) : s[j] = p + j
    PROVE  IsRun(s, p)
  <1>1. Len(s) \in Nat /\ DOMAIN s = 1..Len(s)
    BY IsSeqFacts
  <1>. DEFINE r == Run(p, Len(s))
  <1>2. IsSeq(r) /\ Len(r) = Len(s) /\ \A j \in 1..Len(s) : r[j] = p + j
    BY <1>1, RunFacts
  <1>. HIDE DEF r
  <1>3. s = r
    BY <1>1, <1>2, SeqExtensional
  <1>. QED  BY <1>1, <1>3 DEF IsRun, r

\* What a run is.
LEMMA IsRunFacts ==
    ASSUME NEW s, NEW p \in Int, IsRun(s, p)
    PROVE  /\ IsSeq(s) /\ Len(s) \in Nat /\ DOMAIN s = 1..Len(s)
           /\ \A j \in 1..Len(s) : s[j] = p + j
  BY RunFacts DEF IsRun

\* The empty run.
LEMMA EmptyRun ==
    ASSUME NEW p \in Int
    PROVE  IsRun(<<>>, p)
  BY RunIs, EmptyFacts

\* A run and the one after it are a run.
LEMMA RunJoin ==
    ASSUME NEW s, NEW t, NEW p \in Int, IsRun(s, p), IsRun(t, p + Len(s))
    PROVE  IsRun(s \o t, p) /\ Len(s \o t) = Len(s) + Len(t)
  <1>1. IsSeq(s) /\ Len(s) \in Nat /\ \A j \in 1..Len(s) : s[j] = p + j
    BY IsRunFacts
  <1>2. p + Len(s) \in Int
    BY <1>1
  <1>3. IsSeq(t) /\ Len(t) \in Nat /\ \A j \in 1..Len(t) : t[j] = p + Len(s) + j
    BY <1>2, IsRunFacts
  <1>. DEFINE u == s \o t
  <1>4. /\ IsSeq(u) /\ Len(u) = Len(s) + Len(t)
        /\ \A j \in 1..(Len(s) + Len(t)) : u[j] = IF j <= Len(s) THEN s[j] ELSE t[j - Len(s)]
    BY <1>1, <1>3, ConcatFacts
  <1>. HIDE DEF u
  <1>5. ASSUME NEW j \in 1..Len(u) PROVE u[j] = p + j
    <2>1. CASE j <= Len(s)
      BY <1>1, <1>3, <1>4, <2>1
    <2>2. CASE ~(j <= Len(s))
      <3>1. j - Len(s) \in 1..Len(t) /\ u[j] = t[j - Len(s)]
        BY <1>1, <1>3, <1>4, <2>2
      <3>. QED  BY <1>1, <1>3, <3>1
    <2>. QED  BY <2>1, <2>2
  <1>6. IsRun(u, p)
    BY <1>4, <1>5, RunIs
  <1>. QED  BY <1>4, <1>6 DEF u

\* The two parts of a run that is cut after n positions.
LEMMA RunParts ==
    ASSUME NEW s, NEW p \in Int, IsRun(s, p), NEW n \in 0..Len(s)
    PROVE  /\ IsRun(SubSeq(s, 1, n), p) /\ Len(SubSeq(s, 1, n)) = n
           /\ IsRun(SubSeq(s, n + 1, Len(s)), p + n) /\ Len(SubSeq(s, n + 1, Len(s))) = Len(s) - n
  <1>1. IsSeq(s) /\ Len(s) \in Nat /\ \A j \in 1..Len(s) : s[j] = p + j
    BY IsRunFacts
  <1>2. n \in Nat /\ n <= Len(s)
    BY <1>1
  <1>. DEFINE a == SubSeq(s, 1, n)
              b == SubSeq(s, n + 1, Len(s))
  <1>3. IsSeq(a) /\ Len(a) = n /\ \A j \in 1..n : a[j] = s[j]
    BY <1>1, <1>2, SubSeqFacts
  <1>4. IsSeq(b) /\ Len(b) = Len(s) - n /\ \A j \in 1..(Len(s) - n) : b[j] = s[n + j]
    BY <1>1, <1>2, SubSeqFacts
  <1>. HIDE DEF a, b
  <1>5. IsRun(a, p)
    <2>1. \A j \in 1..Len(a) : a[j] = p + j
      BY <1>1, <1>2, <1>3
    <2>. QED  BY <1>3, <2>1, RunIs
  <1>6. IsRun(b, p + n)
    <2>1. p + n \in Int /\ \A j \in 1..Len(b) : b[j] = (p + n) + j
      BY <1>1, <1>2, <1>4
    <2>. QED  BY <1>4, <2>1, RunIs
  <1>. QED  BY <1>3, <1>4, <1>5, <1>6 DEF a, b

\* The lesser of two numbers.
LEMMA MinOfTwo ==
    ASSUME NEW a \in Int, NEW b \in Int
    PROVE  Min({a, b}) = IF a <= b THEN a ELSE b
  <1>. DEFINE m == IF a <= b THEN a ELSE b
  <1>1. m \in {a, b} /\ \A y \in {a, b} : m <= y
    OBVIOUS
  <1>2. \A x \in {a, b} : (\A y \in {a, b} : x <= y) => x = m
    OBVIOUS
  <1>. HIDE DEF m
  <1>3. Min({a, b}) = m
    BY <1>1, <1>2 DEF Min
  <1>. QED  BY <1>3 DEF m

-------------------------------------------------------------------------------
(* The file.                                                               *)

\* The items of the file at hand, one after the other.
LEMMA FileSpans ==
    ASSUME Shape
    PROVE  /\ Len(file.cells) \in Nat /\ Len(file.items) \in Nat /\ DOMAIN file.spans = 1..Len(file.items)
           /\ 1 \in DOMAIN file.spans
           /\ \A i \in DOMAIN file.spans : /\ ItemOK(file, file.items[i], Begin(file, i), Ending(file, i))
                                           /\ Begin(file, i) \in Nat /\ Ending(file, i) \in Nat /\ Begin(file, i) <= Ending(file, i)
           /\ \A i, j \in DOMAIN file.spans : i < j => Ending(file, i) <= Begin(file, j)
  <1>1. FileOK(file)
    BY FilesAssumption DEF Shape
  <1>2. /\ Len(file.cells) \in Nat /\ Len(file.items) \in Nat /\ DOMAIN file.spans = 1..Len(file.items)
        /\ Len(file.items) >= 1
    BY <1>1 DEF FileOK
  <1>3. \A i \in DOMAIN file.spans : ItemOK(file, file.items[i], Begin(file, i), Ending(file, i))
    BY <1>1, <1>2 DEF FileOK, Begin, Ending
  <1>4. \A i \in DOMAIN file.spans : Begin(file, i) \in Nat /\ Ending(file, i) \in Nat /\ Begin(file, i) <= Ending(file, i)
    BY <1>3 DEF ItemOK
  <1>5. \A i, j \in DOMAIN file.spans : i < j => Ending(file, i) <= Begin(file, j)
    BY <1>1, <1>2 DEF FileOK, Begin, Ending
  <1>6. 1 \in DOMAIN file.spans
    BY <1>2
  <1>. QED  BY <1>2, <1>3, <1>4, <1>5, <1>6

\* Where the reader looks for a record there is one, or the file has ended.
LEMMA RecordFollows ==
    ASSUME Shape, NEW i \in DOMAIN file.spans, Leads(file, i), Ending(file, i) < Len(file.cells)
    PROVE  \E j \in DOMAIN file.spans : file.items[j].k \in Headed /\ Begin(file, j) = Ending(file, i)
  <1>1. FileOK(file)
    BY FilesAssumption DEF Shape
  <1>2. /\ Len(file.cells) \in Nat /\ Len(file.items) \in Nat /\ DOMAIN file.spans = 1..Len(file.items)
        /\ Ending(file, i) \in Nat
    BY FileSpans
  <1>3. \/ file.spans[i][2] >= Len(file.cells)
        \/ i < Len(file.items) /\ file.items[i + 1].k \in Headed /\ file.spans[i + 1][1] = file.spans[i][2]
    BY <1>1, <1>2 DEF FileOK
  <1>4. i < Len(file.items) /\ file.items[i + 1].k \in Headed /\ Begin(file, i + 1) = Ending(file, i)
    BY <1>2, <1>3 DEF Begin, Ending
  <1>5. i + 1 \in DOMAIN file.spans
    BY <1>2, <1>4
  <1>. QED  BY <1>4, <1>5

\* A file begins with a magic, or is the data of a chunk.
LEMMA FileKinds ==
    ASSUME Shape
    PROVE  /\ file.chunk = None => /\ Begin(file, 1) = 0 /\ Ending(file, 1) = 1 /\ Len(file.cells) >= 1
                                   /\ \A i \in DOMAIN file.spans : file.items[i].k # "Contents"
           /\ file.chunk # None => /\ DOMAIN file.spans = {1} /\ file.items[1].k = "Contents"
                                   /\ file.chunk[1].compression \in Supported \cup {""}
  <1>1. FileOK(file)
    BY FilesAssumption DEF Shape
  <1>2. DOMAIN file.spans = 1..Len(file.items)
    BY FileSpans
  <1>3. CASE file.chunk = None
    BY <1>1, <1>2, <1>3 DEF FileOK, Begin, Ending
  <1>4. CASE file.chunk # None
    <2>1. Len(file.items) = 1 /\ file.items[1].k = "Contents" /\ file.chunk[1].compression \in Supported \cup {""}
      BY <1>1, <1>4 DEF FileOK
    <2>2. DOMAIN file.spans = 1..1
      BY <1>2, <2>1
    <2>3. DOMAIN file.spans = {1}
      BY <2>2
    <2>. QED  BY <1>4, <2>1, <2>3
  <1>. QED  BY <1>3, <1>4

\* The cell that a reader sees is the one the file is described by.
LEMMA PlainIsCell ==
    ASSUME NEW p
    PROVE  Plain(p) = Cell(file, p)
  BY DEF Plain, Cell

-------------------------------------------------------------------------------
(* Turns that leave the reader where it is.                                *)

\* Nothing changes for a reader whose fields stay as they are.
LEMMA ReaderKept ==
    ASSUME Shape, Placed, UNCHANGED <<file, opts, reader>>
    PROVE  Shape' /\ Placed'
  <1>1. /\ file' = file /\ opts' = opts /\ currently_reading' = currently_reading
        /\ chunk_state' = chunk_state /\ file_data' = file_data
        /\ decompressed_content' = decompressed_content /\ decompressors' = decompressors /\ at_eof' = at_eof
    BY DEF reader
  <1>2. Shape'
    BY <1>1 DEF Shape
  <1>3. Placed'
    BY <1>1 DEF Placed
  <1>. QED  BY <1>2, <1>3

\* A request for n cells in all, where the buffer may grow to that.
LEMMA AskPermitted ==
    ASSUME LinearInv, NEW n \in Int, Permitted(n), Ask(n)
    PROVE  LinearInv'
  <1>1. /\ Shape' /\ Placed' /\ file' = file /\ opts' = opts /\ file_data' = file_data
        /\ currently_reading' = currently_reading /\ chunk_state' = chunk_state
    BY ReaderKept DEF LinearInv, Ask, reader
  <1>2. event'.kind = "ReadRequest" /\ event'.n = n - Have /\ Have < n
    BY DEF Ask
  <1>3. Have \in Int /\ Have' = Have
    BY <1>1 DEF Have, LinearInv, Shape
  <1>4. Have' + event'.n = n /\ event'.n \in Nat \ {0}
    BY <1>2, <1>3
  <1>5. Permitted(n)'
    BY <1>1 DEF Permitted, Compressed, Plain
  <1>6. Told'
    BY <1>2, <1>4, <1>5 DEF Told
  <1>. QED  BY <1>1, <1>6 DEF LinearInv

\* A request within the limit.
LEMMA AskKeeps ==
    ASSUME LinearInv, NEW n \in Int, n <= 2 * opts.record_length_limit + 2, Ask(n)
    PROVE  LinearInv'
  <1>1. Permitted(n)
    BY DEF Permitted
  <1>. QED  BY <1>1, AskPermitted

\* An error, after which the client stops.
LEMMA ErrorKeeps ==
    ASSUME LinearInv, NEW why, Error(why)
    PROVE  LinearInv'
  <1>1. Shape' /\ Placed'
    BY ReaderKept DEF LinearInv, Error, Fails
  <1>2. event'.kind = "Err"
    BY DEF Error, Fails
  <1>. QED  BY <1>1, <1>2 DEF LinearInv, Told

\* The end.
LEMMA EndKeeps ==
    ASSUME LinearInv, End
    PROVE  LinearInv'
  <1>1. Shape' /\ Placed'
    BY ReaderKept DEF LinearInv, End
  <1>2. event'.kind = "None"
    BY DEF End
  <1>. QED  BY <1>1, <1>2 DEF LinearInv, Told

\* The end of the file.
LEMMA EofKeeps ==
    ASSUME LinearInv, Eof
    PROVE  LinearInv'
  BY EndKeeps, ErrorKeeps DEF Eof

\* The client takes a record.
LEMMA TakeRecordKeeps ==
    ASSUME LinearInv, TakeRecord
    PROVE  LinearInv'
  <1>1. Shape' /\ Placed'
    BY ReaderKept DEF LinearInv, TakeRecord
  <1>2. event'.kind = "Call"
    BY DEF TakeRecord, Call
  <1>. QED  BY <1>1, <1>2 DEF LinearInv, Told

\* The client hands in what it has read.
LEMMA ReadKeeps ==
    ASSUME LinearInv, NEW n \in Nat, Read(n)
    PROVE  LinearInv'
  <1>1. /\ file' = file /\ opts' = opts /\ currently_reading' = currently_reading
        /\ chunk_state' = chunk_state /\ decompressed_content' = decompressed_content
        /\ decompressors' = decompressors
    BY DEF Read
  <1>2. /\ file_data' = [file_data EXCEPT !.end = @ + n] /\ at_eof' = (at_eof \/ n = 0)
        /\ IF Remaining = 0 THEN n = 0 ELSE n \in 1..Remaining
        /\ event' = Call
    BY DEF Read, NotifyRead
  <1>3. /\ file_data = [start |-> file_data.start, end |-> file_data.end, hasher |-> file_data.hasher]
        /\ file_data.start \in Nat /\ file_data.end \in Nat /\ file_data.start <= file_data.end
        /\ file_data.end <= Len(file.cells) /\ Len(file.cells) \in Nat
    BY FileSpans DEF LinearInv, Shape
  <1>4. file_data' = [start |-> file_data.start, end |-> file_data.end + n, hasher |-> file_data.hasher]
    BY <1>2, <1>3
  <1>5. file_data.end + n <= Len(file.cells)
    BY <1>2, <1>3 DEF Remaining
  <1>6. at_eof' \in BOOLEAN
    BY <1>2
  <1>7. Shape'
    BY <1>1, <1>3, <1>4, <1>5, <1>6 DEF LinearInv, Shape
  <1>8. file_data'.start = file_data.start
    BY <1>4
  <1>9. Placed'
    BY <1>1, <1>8 DEF LinearInv, Placed
  <1>10. Told'
    BY <1>2 DEF Told, Call
  <1>. QED  BY <1>7, <1>9, <1>10 DEF LinearInv

-------------------------------------------------------------------------------
(* Moving on.                                                              *)

\* The buffer after n cells are read.
LEMMA MarkReadFacts ==
    ASSUME Shape, NEW n \in Nat, n <= Have
    PROVE  LET f == MarkRead(file_data, n) IN
           /\ f = [start |-> file_data.start + n, end |-> file_data.end, hasher |-> f.hasher]
           /\ file_data.start + n \in Nat /\ file_data.start + n <= file_data.end
  <1>1. /\ file_data = [start |-> file_data.start, end |-> file_data.end, hasher |-> file_data.hasher]
        /\ file_data.start \in Nat /\ file_data.end \in Nat
    BY DEF Shape
  <1>2. file_data.start + n <= file_data.end
    BY <1>1 DEF Have
  <1>3. PICK x : MarkRead(file_data, n) = [file_data EXCEPT !.start = file_data.start + n, !.hasher = x]
    BY DEF MarkRead
  <1>4. MarkRead(file_data, n) = [start |-> file_data.start + n, end |-> file_data.end, hasher |-> x]
    BY <1>1, <1>3
  <1>. QED  BY <1>1, <1>2, <1>4

\* A reader that has taken n cells from its buffer, and whatever else it has done.
LEMMA Advances ==
    ASSUME Shape, NEW n \in Nat, n <= Have, file' = file, opts' = opts, at_eof' = at_eof,
           file_data' = [start |-> file_data.start + n, end |-> file_data.end, hasher |-> file_data'.hasher],
           decompressed_content' = [unread |-> decompressed_content'.unread, hasher |-> decompressed_content'.hasher],
           \A d \in decompressors' : IsDecompressor(d) /\ d.held = <<>>
    PROVE  Shape' /\ file_data'.start = file_data.start + n
  <1>1. /\ file_data.start \in Nat /\ file_data.end \in Nat /\ file_data.end <= Len(file.cells)
        /\ file_data.start + n <= file_data.end
    BY DEF Shape, Have
  <1>2. file_data'.start = file_data.start + n /\ file_data'.end = file_data.end
    BY ONLY file_data' = [start |-> file_data.start + n, end |-> file_data.end, hasher |-> file_data'.hasher]
  <1>3. /\ file' \in Files /\ opts' \in OptionType /\ at_eof' \in BOOLEAN
    BY DEF Shape
  <1>. QED  BY <1>1, <1>2, <1>3 DEF Shape

\* A record, or nothing yet, is returned.
LEMMA ToldPlain ==
    ASSUME event'.kind \in {"Call", "Record"}
    PROVE  Told'
  BY DEF Told

\* The limit is a number, so that a request for a cell or two is within bounds.
LEMMA LimitFacts ==
    ASSUME Shape
    PROVE  opts.record_length_limit \in Nat
  BY DEF Shape, OptionType

\* Turns that take n cells and leave everything but the place alone.
LEMMA Steps1 ==
    ASSUME LinearInv, NEW n \in Nat, n <= Have, file' = file, opts' = opts, at_eof' = at_eof,
           file_data' = [start |-> file_data.start + n, end |-> file_data.end, hasher |-> file_data'.hasher],
           decompressed_content' = decompressed_content, decompressors' = decompressors,
           event'.kind \in {"Call", "Record"},
           IsAt(file, file_data.start + n, currently_reading', chunk_state',
                decompressed_content.unread, opts.record_length_limit)
    PROVE  LinearInv'
  <1>1. /\ decompressed_content' = [unread |-> decompressed_content'.unread, hasher |-> decompressed_content'.hasher]
        /\ \A d \in decompressors' : IsDecompressor(d) /\ d.held = <<>>
        /\ Shape
    BY DEF LinearInv, Shape
  <1>2. Shape' /\ file_data'.start = file_data.start + n
    BY <1>1, Advances
  <1>3. Placed'
    BY <1>2 DEF Placed
  <1>. QED  BY <1>2, <1>3, ToldPlain DEF LinearInv

\* A reader in its place has its counters in range.
LEMMA PlacedInRange ==
    ASSUME LinearInv
    PROVE  /\ currently_reading.at \in
                {"StartMagic", "FileRecord", "DataEnd", "Footer", "ChunkHeader",
                 "ValidatingChunkCrc", "ChunkRecord", "PaddingAfterChunk", "EndMagic", "AfterEndMagic"}
           /\ chunk_state # None => /\ chunk_state[1].compressed_remaining \in Nat
                                    /\ chunk_state[1].uncompressed_remaining \in Nat
  <1>1. currently_reading.at \in
          {"StartMagic", "FileRecord", "DataEnd", "Footer", "ChunkHeader",
           "ValidatingChunkCrc", "ChunkRecord", "PaddingAfterChunk", "EndMagic", "AfterEndMagic"}
    BY DEF LinearInv, Placed, IsAt
  <1>2. ASSUME chunk_state # None PROVE IsState(chunk_state[1])
    BY <1>2 DEF LinearInv, Placed, IsAt, InChunk
  <1>. QED  BY <1>1, <1>2 DEF IsState

\* An error after which the reader is not where it was.
LEMMA FailsAfter ==
    ASSUME LinearInv, Shape', event'.kind = "Err", currently_reading' = currently_reading,
           chunk_state' # None => /\ chunk_state'[1].compressed_remaining \in Nat
                                  /\ chunk_state'[1].uncompressed_remaining \in Nat
    PROVE  Failed'
  <1>1. currently_reading'.at \in
          {"StartMagic", "FileRecord", "DataEnd", "Footer", "ChunkHeader",
           "ValidatingChunkCrc", "ChunkRecord", "PaddingAfterChunk", "EndMagic", "AfterEndMagic"}
    BY PlacedInRange
  <1>2. /\ file_data'.start \in 0..file_data'.end /\ file_data'.end <= Len(file'.cells)
        /\ at_eof' \in BOOLEAN
    BY DEF Shape
  <1>. QED  BY <1>1, <1>2 DEF Failed, TypeOK

\* An error found when n cells are consumed.
LEMMA ErrorAfterKeeps ==
    ASSUME LinearInv, NEW n \in Nat, n <= Have, NEW why, ErrorAfter(n, why)
    PROVE  Failed'
  <1>0. Shape
    BY DEF LinearInv
  <1>1. /\ file' = file /\ opts' = opts /\ at_eof' = at_eof /\ currently_reading' = currently_reading
        /\ chunk_state' = chunk_state /\ decompressed_content' = decompressed_content
        /\ decompressors' = decompressors /\ event'.kind = "Err"
        /\ file_data' = MarkRead(file_data, n)
    BY DEF ErrorAfter, Fails
  <1>2. file_data' = [start |-> file_data.start + n, end |-> file_data.end, hasher |-> file_data'.hasher]
    BY <1>0, <1>1, MarkReadFacts
  <1>3. /\ decompressed_content' = [unread |-> decompressed_content'.unread, hasher |-> decompressed_content'.hasher]
        /\ \A d \in decompressors' : IsDecompressor(d) /\ d.held = <<>>
    BY <1>0, <1>1 DEF Shape
  <1>4. Shape'
    BY <1>0, <1>1, <1>2, <1>3, Advances
  <1>. QED  BY <1>1, <1>4, PlacedInRange, FailsAfter

\* The start magic.
LEMMA StartMagicKeeps ==
    ASSUME LinearInv, StartMagic
    PROVE  LinearInv' \/ Failed'
  <1>1. CASE Ask(1)
    BY <1>1, AskKeeps, LimitFacts DEF LinearInv
  <1>2. CASE Have >= 1 /\ ErrorAfter(1, "BadMagic")
    <2>1. 1 <= Have
      BY <1>2 DEF LinearInv, Shape, Have
    <2>. QED  BY <1>2, <2>1, ErrorAfterKeeps
  <1>3. CASE /\ Have >= 1 /\ file_data' = MarkRead(file_data, 1)
             /\ Become("FileRecord") /\ Continue
             /\ UNCHANGED <<chunk_state, decompressed_content, decompressors, at_eof>>
    <2>0. Shape /\ Have \in Int
      BY DEF LinearInv, Shape, Have
    <2>1. file_data' = [start |-> file_data.start + 1, end |-> file_data.end, hasher |-> file_data'.hasher]
      BY <1>3, <2>0, MarkReadFacts
    <2>2. chunk_state = None /\ file.chunk = None /\ file_data.start = 0
      BY DEF StartMagic, Reading, LinearInv, Placed, IsAt
    <2>3. 1 \in DOMAIN file.spans /\ Ending(file, 1) = 1 /\ Leads(file, 1)
      BY <2>0, <2>2, FileSpans, FileKinds DEF Leads
    <2>4. currently_reading'.at = "FileRecord" /\ chunk_state' = None
      BY <1>3, <2>2 DEF Become, At
    <2>5. IsAt(file, file_data.start + 1, currently_reading', chunk_state',
               decompressed_content.unread, opts.record_length_limit)
      BY <2>2, <2>3, <2>4 DEF IsAt
    <2>. QED  BY <1>3, <2>0, <2>1, <2>5, Steps1 DEF Continue, Call
  <1>. QED  BY <1>1, <1>2, <1>3 DEF StartMagic

\* Between records the next cell is the head of one.
LEMMA HeadThere ==
    ASSUME LinearInv, currently_reading.at = "FileRecord", Have >= 1
    PROVE  /\ chunk_state = None
           /\ \E i \in DOMAIN file.spans :
                LET head == Plain(file_data.start + 1) IN
                /\ file.items[i].k \in Headed /\ Begin(file, i) = file_data.start
                /\ Begin(file, i) \in Nat /\ Ending(file, i) \in Nat
                /\ head.len \in Nat /\ head.len = Ending(file, i) - Begin(file, i) - 1
                /\ head.op \notin {"Chunk", "DataEnd", "Footer"} <=> file.items[i].k = "Record"
                /\ file.items[i].k # "Record" => head.op = file.items[i].k
  <1>0. /\ Shape /\ file_data.start \in Nat /\ file_data.end \in Nat /\ file_data.end <= Len(file.cells)
        /\ Len(file.cells) \in Nat
    BY FileSpans DEF LinearInv, Shape
  <1>1. chunk_state = None
    BY DEF LinearInv, Placed, IsAt
  <1>2. PICK i \in DOMAIN file.spans : Leads(file, i) /\ file_data.start = Ending(file, i)
    BY DEF LinearInv, Placed, IsAt
  <1>3. file_data.start + 1 <= Len(file.cells)
    BY <1>0 DEF Have
  <1>4. Ending(file, i) < Len(file.cells)
    BY <1>0, <1>2, <1>3
  <1>5. PICK j \in DOMAIN file.spans : file.items[j].k \in Headed /\ Begin(file, j) = Ending(file, i)
    BY <1>0, <1>2, <1>4, RecordFollows
  <1>6. ItemOK(file, file.items[j], Begin(file, j), Ending(file, j))
        /\ Begin(file, j) \in Nat /\ Ending(file, j) \in Nat
    BY <1>0, FileSpans
  <1>. DEFINE head == Plain(file_data.start + 1)
  <1>7. head = Cell(file, Begin(file, j) + 1) /\ Begin(file, j) = file_data.start
    BY <1>2, <1>5, PlainIsCell
  <1>. HIDE DEF head
  <1>8. /\ Begin(file, j) < Ending(file, j) /\ head.len = Ending(file, j) - Begin(file, j) - 1
        /\ head.op \notin {"Chunk", "DataEnd", "Footer"} <=> file.items[j].k = "Record"
        /\ file.items[j].k # "Record" => head.op = file.items[j].k
    BY <1>3, <1>5, <1>6, <1>7 DEF ItemOK
  <1>9. head.len \in Nat
    BY <1>6, <1>8
  <1>. QED  BY <1>1, <1>5, <1>6, <1>7, <1>8, <1>9 DEF head

\* A record outside of chunks, or the head of a chunk, a DataEnd or a Footer.
LEMMA FileRecordKeeps ==
    ASSUME LinearInv, FileRecord
    PROVE  LinearInv'
  <1>0. Shape /\ Have \in Int /\ file_data.start \in Nat /\ opts.record_length_limit \in Nat
    BY LimitFacts DEF LinearInv, Shape, Have
  <1>1. CASE Ask(1)
    BY <1>0, <1>1, AskKeeps
  <1>2. CASE Have >= 1
    <2>. DEFINE head == Plain(file_data.start + 1)
    <2>0. currently_reading.at = "FileRecord"
      BY DEF FileRecord, Reading
    <2>1. /\ chunk_state = None
          /\ \E i \in DOMAIN file.spans :
                /\ file.items[i].k \in Headed /\ Begin(file, i) = file_data.start
                /\ Begin(file, i) \in Nat /\ Ending(file, i) \in Nat
                /\ head.len \in Nat /\ head.len = Ending(file, i) - Begin(file, i) - 1
                /\ head.op \notin {"Chunk", "DataEnd", "Footer"} <=> file.items[i].k = "Record"
                /\ file.items[i].k # "Record" => head.op = file.items[i].k
      BY <1>2, <2>0, HeadThere
    <2>2. PICK i \in DOMAIN file.spans :
                /\ file.items[i].k \in Headed /\ Begin(file, i) = file_data.start
                /\ Begin(file, i) \in Nat /\ Ending(file, i) \in Nat
                /\ head.len \in Nat /\ head.len = Ending(file, i) - Begin(file, i) - 1
                /\ head.op \notin {"Chunk", "DataEnd", "Footer"} <=> file.items[i].k = "Record"
                /\ file.items[i].k # "Record" => head.op = file.items[i].k
      BY <2>1
    <2>3. \/ Ask(1)
          \/ /\ Special(head) /\ EnterSpecial(head) /\ Continue
             /\ UNCHANGED <<chunk_state, decompressed_content, decompressors, at_eof>>
          \/ Error("RecordTooLarge")
          \/ WithinLimit(head.len) /\ Ask(1 + head.len)
          \/ /\ ~Special(head) /\ WithinLimit(head.len)
             /\ Have >= 1 + head.len
             /\ Yield(head.op, Tail(Unread(1 + head.len)))
             /\ file_data' = MarkRead(file_data, 1 + head.len)
             /\ UNCHANGED <<file, opts, currently_reading, chunk_state,
                            decompressed_content, decompressors, at_eof, yielded>>
      BY DEF FileRecord
    <2>. HIDE DEF head
    <2>4. CASE /\ Special(head) /\ EnterSpecial(head) /\ Continue
               /\ UNCHANGED <<chunk_state, decompressed_content, decompressors, at_eof>>
      <3>. DEFINE f == MarkRead(file_data, 1)
      <3>1. f = [start |-> file_data.start + 1, end |-> file_data.end, hasher |-> f.hasher]
        BY <1>0, <1>2, MarkReadFacts
      <3>. HIDE DEF f
      <3>2. /\ file_data' = [start |-> file_data.start + 1, end |-> file_data.end, hasher |-> file_data'.hasher]
            /\ currently_reading'.at = (IF head.op = "Chunk" THEN "ChunkHeader" ELSE head.op)
            /\ currently_reading'.len = head.len
        <4>1. CASE head.op = "DataEnd"
          <5>1. /\ file_data' = [f EXCEPT !.hasher = None]
                /\ currently_reading' = [at |-> "DataEnd", len |-> head.len, taken |-> file_data.hasher]
            BY <2>4, <4>1 DEF EnterSpecial, f
          <5>. QED  BY <3>1, <4>1, <5>1
        <4>2. CASE head.op = "Footer"
          <5>1. /\ file_data' = [f EXCEPT !.hasher = None]
                /\ currently_reading' = [at |-> "Footer", len |-> head.len, taken |-> f.hasher]
            BY <2>4, <4>2 DEF EnterSpecial, f
          <5>. QED  BY <3>1, <4>2, <5>1
        <4>3. CASE head.op = "Chunk"
          <5>1. file_data' = f /\ currently_reading' = [At("ChunkHeader") EXCEPT !.len = head.len]
            BY <2>4, <4>3 DEF EnterSpecial, f
          <5>. QED  BY <3>1, <4>3, <5>1 DEF At
        <4>. QED  BY <2>4, <4>1, <4>2, <4>3 DEF Special
      <3>3. head.op \in {"Chunk", "DataEnd", "Footer"} /\ file.items[i].k = head.op
        BY <2>2, <2>4 DEF Special, Headed
      <3>4. IsAt(file, file_data.start + 1, currently_reading', chunk_state',
                 decompressed_content.unread, opts.record_length_limit)
        BY <2>1, <2>2, <2>4, <3>2, <3>3 DEF IsAt
      <3>. QED  BY <1>0, <1>2, <2>4, <3>2, <3>4, Steps1 DEF Continue, Call
    <2>5. CASE WithinLimit(head.len) /\ Ask(1 + head.len)
      <3>1. head.len <= opts.record_length_limit /\ head.len \in Nat
        BY <2>2, <2>5 DEF WithinLimit
      <3>. QED  BY <1>0, <2>5, <3>1, AskKeeps
    <2>6. CASE /\ ~Special(head) /\ WithinLimit(head.len)
               /\ Have >= 1 + head.len
               /\ Yield(head.op, Tail(Unread(1 + head.len)))
               /\ file_data' = MarkRead(file_data, 1 + head.len)
               /\ UNCHANGED <<file, opts, currently_reading, chunk_state,
                              decompressed_content, decompressors, at_eof, yielded>>
      <3>. DEFINE n == 1 + head.len
      <3>1. n \in Nat /\ n <= Have
        BY <1>0, <2>2, <2>6
      <3>2. file_data' = [start |-> file_data.start + n, end |-> file_data.end, hasher |-> file_data'.hasher]
        BY <1>0, <2>6, <3>1, MarkReadFacts
      <3>3. file.items[i].k \in {"Record", "Chunk"}
        BY <2>2, <2>6 DEF Special, Headed
      <3>4. Leads(file, i) /\ file_data.start + n = Ending(file, i)
        BY <2>2, <3>3 DEF Leads
      <3>. HIDE DEF n
      <3>5. IsAt(file, file_data.start + n, currently_reading', chunk_state',
                 decompressed_content.unread, opts.record_length_limit)
        BY <2>0, <2>1, <2>6, <3>4 DEF IsAt
      <3>6. event'.kind = "Record"
        BY <2>6 DEF Yield
      <3>. QED  BY <2>6, <3>1, <3>2, <3>5, <3>6, Steps1
    <2>. QED  BY <1>1, <2>3, <2>4, <2>5, <2>6, ErrorKeeps
  <1>. QED  BY <1>1, <1>2 DEF FileRecord

\* After the opcode and length of a DataEnd, a Footer or a chunk: the item it is.
LEMMA BodyThere ==
    ASSUME LinearInv, currently_reading.at \in {"DataEnd", "Footer", "ChunkHeader"}
    PROVE  /\ chunk_state = None
           /\ \E i \in DOMAIN file.spans :
                /\ file.items[i].k = (IF currently_reading.at = "ChunkHeader" THEN "Chunk" ELSE currently_reading.at)
                /\ file_data.start = Begin(file, i) + 1
                /\ currently_reading.len = Ending(file, i) - Begin(file, i) - 1
                /\ currently_reading.len \in Nat /\ Begin(file, i) \in Nat /\ Ending(file, i) \in Nat
                /\ ItemOK(file, file.items[i], Begin(file, i), Ending(file, i))
  <1>0. Shape
    BY DEF LinearInv
  <1>1. /\ chunk_state = None
        /\ \E i \in DOMAIN file.spans :
             /\ file.items[i].k = (IF currently_reading.at = "ChunkHeader" THEN "Chunk" ELSE currently_reading.at)
             /\ file_data.start = Begin(file, i) + 1
             /\ currently_reading.len = Ending(file, i) - Begin(file, i) - 1
    BY DEF LinearInv, Placed, IsAt
  <1>2. PICK i \in DOMAIN file.spans :
             /\ file.items[i].k = (IF currently_reading.at = "ChunkHeader" THEN "Chunk" ELSE currently_reading.at)
             /\ file_data.start = Begin(file, i) + 1
             /\ currently_reading.len = Ending(file, i) - Begin(file, i) - 1
    BY <1>1
  <1>3. /\ ItemOK(file, file.items[i], Begin(file, i), Ending(file, i))
        /\ Begin(file, i) \in Nat /\ Ending(file, i) \in Nat
    BY <1>0, FileSpans
  <1>4. file.items[i].k \in Headed
    BY <1>2 DEF Headed
  <1>5. Begin(file, i) < Ending(file, i)
    BY <1>3, <1>4 DEF ItemOK
  <1>6. currently_reading.len \in Nat
    BY <1>2, <1>3, <1>5
  <1>. QED  BY <1>1, <1>2, <1>3, <1>6

\* The body of a DataEnd.
LEMMA DataEndKeeps ==
    ASSUME LinearInv, DataEnd
    PROVE  LinearInv'
  <1>0. Shape /\ Have \in Int /\ file_data.start \in Nat /\ opts.record_length_limit \in Nat
    BY LimitFacts DEF LinearInv, Shape, Have
  <1>. DEFINE len == currently_reading.len
  <1>1. currently_reading.at = "DataEnd"
    BY DEF DataEnd, Reading
  <1>2. /\ chunk_state = None
        /\ \E i \in DOMAIN file.spans :
             /\ file.items[i].k = "DataEnd" /\ file_data.start = Begin(file, i) + 1
             /\ len = Ending(file, i) - Begin(file, i) - 1
             /\ len \in Nat /\ Begin(file, i) \in Nat /\ Ending(file, i) \in Nat
    BY <1>1, BodyThere
  <1>3. PICK i \in DOMAIN file.spans :
             /\ file.items[i].k = "DataEnd" /\ file_data.start = Begin(file, i) + 1
             /\ len = Ending(file, i) - Begin(file, i) - 1
             /\ len \in Nat /\ Begin(file, i) \in Nat /\ Ending(file, i) \in Nat
    BY <1>2
  <1>4. \/ Error("RecordTooLarge") \/ Error("BadDataCrc")
        \/ WithinLimit(len) /\ Ask(len)
        \/ /\ Have >= len
           /\ Yield("DataEnd", Unread(len))
           /\ file_data' = [ConsumeWithoutHashing(file_data, len) EXCEPT
                              !.hasher = IF opts.validate_summary_section_crc THEN Some(<<>>) ELSE @]
           /\ Become("FileRecord")
           /\ UNCHANGED <<file, opts, chunk_state, decompressed_content, decompressors, at_eof, yielded>>
    BY DEF DataEnd
  <1>. HIDE DEF len
  <1>5. CASE WithinLimit(len) /\ Ask(len)
    <2>1. len <= opts.record_length_limit /\ len \in Nat
      BY <1>3, <1>5 DEF WithinLimit
    <2>. QED  BY <1>0, <1>5, <2>1, AskKeeps
  <1>6. CASE /\ Have >= len
             /\ Yield("DataEnd", Unread(len))
             /\ file_data' = [ConsumeWithoutHashing(file_data, len) EXCEPT
                                !.hasher = IF opts.validate_summary_section_crc THEN Some(<<>>) ELSE @]
             /\ Become("FileRecord")
             /\ UNCHANGED <<file, opts, chunk_state, decompressed_content, decompressors, at_eof, yielded>>
    <2>1. len \in Nat /\ len <= Have
      BY <1>0, <1>3, <1>6
    <2>2. file_data = [start |-> file_data.start, end |-> file_data.end, hasher |-> file_data.hasher]
      BY <1>0 DEF Shape
    <2>3. ConsumeWithoutHashing(file_data, len)
            = [start |-> file_data.start + len, end |-> file_data.end, hasher |-> file_data.hasher]
      BY <2>2 DEF ConsumeWithoutHashing
    <2>4. file_data' = [start |-> file_data.start + len, end |-> file_data.end, hasher |-> file_data'.hasher]
      BY <1>6, <2>3
    <2>5. Leads(file, i) /\ file_data.start + len = Ending(file, i)
      BY <1>3 DEF Leads
    <2>6. currently_reading'.at = "FileRecord" /\ chunk_state' = None
      BY <1>2, <1>6 DEF Become, At
    <2>7. IsAt(file, file_data.start + len, currently_reading', chunk_state',
               decompressed_content.unread, opts.record_length_limit)
      BY <2>5, <2>6 DEF IsAt
    <2>8. event'.kind = "Record"
      BY <1>6 DEF Yield
    <2>. QED  BY <1>6, <2>1, <2>4, <2>7, <2>8, Steps1
  <1>. QED  BY <1>4, <1>5, <1>6, ErrorKeeps

\* The body of a footer.
LEMMA FooterKeeps ==
    ASSUME LinearInv, Footer
    PROVE  LinearInv' \/ Failed'
  <1>0. Shape /\ Have \in Int /\ file_data.start \in Nat /\ opts.record_length_limit \in Nat
    BY LimitFacts DEF LinearInv, Shape, Have
  <1>. DEFINE len == currently_reading.len
  <1>1. currently_reading.at = "Footer"
    BY DEF Footer, Reading
  <1>2. chunk_state = None /\ len \in Nat
    BY <1>1, BodyThere
  <1>3. \/ Error("RecordTooLarge")
        \/ Have >= len /\ ErrorAfter(len, "BadSummaryCrc")
        \/ WithinLimit(len) /\ Ask(len)
        \/ /\ Have >= len
           /\ Yield("Footer", Unread(len))
           /\ file_data' = MarkRead(file_data, len)
           /\ Become("EndMagic")
           /\ UNCHANGED <<file, opts, chunk_state, decompressed_content, decompressors, at_eof, yielded>>
    BY DEF Footer
  <1>. HIDE DEF len
  <1>4. CASE WithinLimit(len) /\ Ask(len)
    <2>1. len <= opts.record_length_limit
      BY <1>4 DEF WithinLimit
    <2>. QED  BY <1>0, <1>2, <1>4, <2>1, AskKeeps
  <1>5. CASE /\ Have >= len
             /\ Yield("Footer", Unread(len))
             /\ file_data' = MarkRead(file_data, len)
             /\ Become("EndMagic")
             /\ UNCHANGED <<file, opts, chunk_state, decompressed_content, decompressors, at_eof, yielded>>
    <2>1. len \in Nat /\ len <= Have
      BY <1>0, <1>2, <1>5
    <2>2. file_data' = [start |-> file_data.start + len, end |-> file_data.end, hasher |-> file_data'.hasher]
      BY <1>0, <1>5, <2>1, MarkReadFacts
    <2>3. currently_reading'.at = "EndMagic" /\ chunk_state' = None
      BY <1>2, <1>5 DEF Become, At
    <2>4. IsAt(file, file_data.start + len, currently_reading', chunk_state',
               decompressed_content.unread, opts.record_length_limit)
      BY <2>3 DEF IsAt
    <2>5. event'.kind = "Record"
      BY <1>5 DEF Yield
    <2>. QED  BY <1>5, <2>1, <2>2, <2>4, <2>5, Steps1
  <1>6. CASE Have >= len /\ ErrorAfter(len, "BadSummaryCrc")
    <2>1. len <= Have
      BY <1>0, <1>2, <1>6
    <2>. QED  BY <1>2, <1>6, <2>1, ErrorAfterKeeps
  <1>. QED  BY <1>3, <1>4, <1>5, <1>6, ErrorKeeps

\* The end magic.
LEMMA EndMagicKeeps ==
    ASSUME LinearInv, EndMagic
    PROVE  LinearInv' \/ Failed'
  <1>0. Shape /\ Have \in Int /\ file_data.start \in Nat /\ opts.record_length_limit \in Nat
    BY LimitFacts DEF LinearInv, Shape, Have
  <1>1. CASE /\ Have >= 1 /\ file_data' = MarkRead(file_data, 1)
             /\ Become("AfterEndMagic") /\ Continue
             /\ UNCHANGED <<chunk_state, decompressed_content, decompressors, at_eof>>
    <2>1. file_data' = [start |-> file_data.start + 1, end |-> file_data.end, hasher |-> file_data'.hasher]
      BY <1>0, <1>1, MarkReadFacts
    <2>2. chunk_state = None
      BY DEF EndMagic, Reading, LinearInv, Placed, IsAt
    <2>3. currently_reading'.at = "AfterEndMagic" /\ chunk_state' = None
      BY <1>1, <2>2 DEF Become, At
    <2>4. IsAt(file, file_data.start + 1, currently_reading', chunk_state',
               decompressed_content.unread, opts.record_length_limit)
      BY <2>3 DEF IsAt
    <2>. QED  BY <1>0, <1>1, <2>1, <2>4, Steps1 DEF Continue, Call
  <1>2. CASE End
    BY <1>2, EndKeeps
  <1>3. CASE Ask(1)
    BY <1>0, <1>3, AskKeeps
  <1>4. CASE Have >= 1 /\ ErrorAfter(1, "BadMagic")
    <2>1. 1 <= Have
      BY <1>0, <1>4
    <2>. QED  BY <1>4, <2>1, ErrorAfterKeeps
  <1>. QED  BY <1>1, <1>2, <1>3, <1>4 DEF EndMagic

\* What follows the end magic.
LEMMA AfterEndMagicKeeps ==
    ASSUME LinearInv, AfterEndMagic
    PROVE  LinearInv'
  <1>1. CASE Ask(1)
    BY <1>1, AskKeeps, LimitFacts DEF LinearInv
  <1>. QED  BY <1>1, EndKeeps, ErrorKeeps DEF AfterEndMagic

-------------------------------------------------------------------------------
(* Into a chunk.                                                           *)

\* The header of a chunk is at least one cell long.
LEMMA HeaderLenFacts ==
    ASSUME NEW h, SizesOK(h)
    PROVE  HeaderLen(h) \in Nat \ {0}
  <1>1. PICK c \in Nat : c = h.compression_len
    BY DEF SizesOK
  <1>2. HeaderLen(h) = 1 + c
    BY <1>1 DEF HeaderLen
  <1>. QED  BY <1>2

\* A chunk that can be gone into, as the file has it.
LEMMA ChunkFacts ==
    ASSUME Shape, NEW i \in DOMAIN file.spans, IsChunk(file, i)
    PROVE  /\ Header(file, i).compressed_size \in Nat /\ Header(file, i).uncompressed_size \in Nat
           /\ HeaderLen(Header(file, i)) \in Nat \ {0}
           /\ Begin(file, i) \in Nat /\ DataFrom(file, i) \in Nat /\ Ending(file, i) \in Nat
           /\ DataOK(file, Header(file, i), DataFrom(file, i))
  <1>1. /\ ItemOK(file, file.items[i], Begin(file, i), Ending(file, i))
        /\ Begin(file, i) \in Nat /\ Ending(file, i) \in Nat /\ Len(file.cells) \in Nat
    BY FileSpans
  <1>. DEFINE h == Header(file, i)
              s == DataFrom(file, i)
  <1>2. CASE file.items[i].k = "Contents"
    <2>1. h = file.chunk[1] /\ s = 0
      BY <1>2 DEF Header, DataFrom
    <2>2. SizesOK(h) /\ DataOK(file, h, 0)
      BY <1>1, <1>2, <2>1 DEF ItemOK
    <2>3. HeaderLen(h) \in Nat \ {0}
      BY <2>2, HeaderLenFacts
    <2>. QED  BY <1>1, <2>1, <2>2, <2>3 DEF SizesOK
  <1>3. CASE file.items[i].k = "Chunk"
    <2>1. h = Cell(file, Begin(file, i) + 2) /\ s = Begin(file, i) + 1 + HeaderLen(h)
      BY <1>3 DEF Header, DataFrom
    <2>2. Begin(file, i) + 2 <= Len(file.cells) /\ s + h.compressed_size <= Ending(file, i)
      BY <1>3 DEF IsChunk
    <2>. HIDE DEF h, s
    <2>4. /\ SizesOK(h)
          /\ HeaderLen(h) + h.compressed_size <= Ending(file, i) - Begin(file, i) - 1
                => DataOK(file, h, Begin(file, i) + 1 + HeaderLen(h))
      BY <1>1, <1>3, <2>1, <2>2 DEF ItemOK
    <2>3. HeaderLen(h) \in Nat \ {0}
      BY <2>4, HeaderLenFacts
    <2>5. h.compressed_size \in Nat /\ h.uncompressed_size \in Nat
      BY <2>4 DEF SizesOK
    <2>6. HeaderLen(h) + h.compressed_size <= Ending(file, i) - Begin(file, i) - 1 /\ s \in Nat
      BY <1>1, <2>1, <2>2, <2>3, <2>5
    <2>7. DataOK(file, h, s)
      BY <2>1, <2>4, <2>6
    <2>. QED  BY <1>1, <2>3, <2>5, <2>6, <2>7 DEF h, s
  <1>. QED  BY <1>2, <1>3 DEF IsChunk

\* Where the data of a chunk starts there is a record, if there is data.
LEMMA DataBegins ==
    ASSUME Shape, NEW i \in DOMAIN file.spans, IsChunk(file, i)
    PROVE  AtRecord(file, i, DataFrom(file, i))
  <1>1. /\ Header(file, i).uncompressed_size \in Nat /\ DataFrom(file, i) \in Nat
        /\ DataOK(file, Header(file, i), DataFrom(file, i))
    BY ChunkFacts
  <1>2. Tiled(file, DataFrom(file, i), DataFrom(file, i) + Header(file, i).uncompressed_size)
    BY <1>1 DEF DataOK
  <1>. QED  BY <1>1, <1>2 DEF Tiled, AtRecord

\* The record after a record.
LEMMA NextRecord ==
    ASSUME Shape, NEW i \in DOMAIN file.spans, IsChunk(file, i), NEW p \in Nat, AtRecord(file, i, p),
           p < DataFrom(file, i) + Header(file, i).uncompressed_size, p + 1 <= Len(file.cells)
    PROVE  /\ Cell(file, p + 1).len \in Nat
           /\ p + 1 + Cell(file, p + 1).len <= DataFrom(file, i) + Header(file, i).uncompressed_size
           /\ AtRecord(file, i, p + 1 + Cell(file, p + 1).len)
  <1>. DEFINE s == DataFrom(file, i)
              e == DataFrom(file, i) + Header(file, i).uncompressed_size
              len == Cell(file, p + 1).len
  <1>1. s \in Nat /\ e \in Nat /\ DataOK(file, Header(file, i), s) /\ Len(file.cells) \in Nat
    BY ChunkFacts, FileSpans
  <1>2. Tiled(file, s, e)
    BY <1>1 DEF DataOK
  <1>3. s <= p /\ Cell(file, p + 1).k = "Head"
    BY <1>1 DEF AtRecord, IsHead
  <1>4. p + 1 \in (s + 1)..e
    BY <1>1, <1>3
  <1>5. len \in Nat /\ (p + 1) + len <= e /\ ((p + 1) + len < e => IsHead(file, (p + 1) + len + 1))
    BY <1>2, <1>3, <1>4 DEF Tiled
  <1>. HIDE DEF s, e, len
  <1>6. s <= p + 1 + len
    BY <1>1, <1>3, <1>5
  <1>. QED  BY <1>1, <1>5, <1>6 DEF AtRecord, s, e, len

\* A decompressor for a new chunk has nothing in it.
LEMMA GetDecompressorFacts ==
    ASSUME Shape, NEW name
    PROVE  LET d == GetDecompressor(name) IN
           /\ name = "" <=> d = None
           /\ name # "" => d = Some(d[1]) /\ IsDecompressor(d[1]) /\ d[1].held = <<>>
  <1>. DEFINE d == GetDecompressor(name)
              kept == {x \in decompressors : x.name = name}
  <1>1. CASE name = ""
    <2>1. d = None
      BY <1>1 DEF GetDecompressor
    <2>. QED  BY <1>1, <2>1
  <1>2. CASE name # "" /\ kept # {}
    <2>1. d = Some(CHOOSE x \in kept : TRUE)
      BY <1>2 DEF GetDecompressor
    <2>2. (CHOOSE x \in kept : TRUE) \in decompressors
      BY <1>2
    <2>3. PICK x \in decompressors : d = <<x>>
      BY <2>1, <2>2 DEF Some
    <2>4. IsDecompressor(x) /\ x.held = <<>>
      BY DEF Shape
    <2>. HIDE DEF d
    <2>5. d = <<x>> /\ d[1] = x /\ d # None
      BY <2>3 DEF None
    <2>. QED  BY <1>2, <2>4, <2>5 DEF Some, d
  <1>3. CASE name # "" /\ kept = {}
    <2>1. d = <<NewDecompressor(name)>>
      BY <1>3 DEF GetDecompressor, Some
    <2>2. IsDecompressor(NewDecompressor(name)) /\ NewDecompressor(name).held = <<>>
      BY DEF NewDecompressor, FirstHint, IsDecompressor
    <2>. HIDE DEF d
    <2>3. d[1] = NewDecompressor(name) /\ d # None
      BY <2>1 DEF None
    <2>. QED  BY <1>3, <2>1, <2>2, <2>3 DEF Some, d
  <1>. QED  BY <1>1, <1>2, <1>3

\* The state of a reader at the start of a chunk's data.
Fresh(f, i, state, limit) ==
    /\ state.decompressor = None <=> Header(f, i).compression = ""
    /\ state.decompressor # None => state.decompressor[1].held = <<>>
    /\ state.uncompressed_len = Header(f, i).uncompressed_size
    /\ state.compressed_remaining = Header(f, i).compressed_size
    /\ state.uncompressed_remaining = Header(f, i).uncompressed_size
    /\ state.padding_after_compressed_data <= limit
    /\ DataFrom(f, i) + Header(f, i).compressed_size + state.padding_after_compressed_data = Ending(f, i)

\* Such a reader is in the chunk.
LEMMA ChunkEntered ==
    ASSUME Shape, NEW i \in DOMAIN file.spans, IsChunk(file, i), NEW state, IsState(state),
           NEW at \in {"ValidatingChunkCrc", "ChunkRecord"}, NEW limit \in Nat, Fresh(file, i, state, limit)
    PROVE  InChunk(file, i, DataFrom(file, i), state, <<>>, at, limit)
  <1>. DEFINE p == DataFrom(file, i)
  <1>1. p \in Nat /\ Begin(file, i) \in Nat /\ Header(file, i).uncompressed_size \in Nat
    BY ChunkFacts
  <1>2. AtRecord(file, i, p)
    BY DataBegins
  <1>3. Begin(file, i) < p \/ file.items[i].k = "Contents"
    <2>1. HeaderLen(Header(file, i)) \in Nat \ {0}
      BY ChunkFacts
    <2>. QED  BY <1>1, <2>1 DEF DataFrom
  <1>4. ASSUME state.decompressor # None PROVE InFrame(file, i, p, state, <<>>, p)
    <2>1. /\ IsRun(<<>>, p) /\ Len(<<>>) = 0 /\ p + 0 = p
      BY <1>1, EmptyRun, EmptyFacts
    <2>2. p < p + Header(file, i).uncompressed_size => IsHead(file, p + 1)
      BY <1>2 DEF AtRecord
    <2>3. state.decompressor[1].held = <<>> /\ state.uncompressed_remaining = Header(file, i).uncompressed_size
      BY <1>4 DEF Fresh
    <2>. HIDE DEF p
    <2>. QED  BY <1>1, <2>1, <2>2, <2>3 DEF InFrame, p
  <1>5. p \in 0..p
    BY <1>1
  <1>. HIDE DEF p
  <1>6. IF state.decompressor = None THEN AtRecord(file, i, p)
        ELSE \E y \in 0..p : InFrame(file, i, p, state, <<>>, y)
    BY <1>2, <1>4, <1>5
  <1>. QED  BY <1>3, <1>6 DEF InChunk, Fresh, p

\* The header of a chunk.
LEMMA ChunkHeaderKeeps ==
    ASSUME LinearInv, ChunkHeader
    PROVE  LinearInv' \/ Failed'
  <1>0. /\ Shape /\ Have \in Int /\ file_data.start \in Nat /\ opts.record_length_limit \in Nat
        /\ file_data.end \in Nat /\ file_data.end <= Len(file.cells) /\ Len(file.cells) \in Nat
    BY LimitFacts, FileSpans DEF LinearInv, Shape, Have
  <1>1. CASE Ask(1)
    BY <1>0, <1>1, AskKeeps
  <1>2. CASE Have >= 1
    <2>. DEFINE h == Plain(file_data.start + 1)
                len == currently_reading.len
    <2>1. currently_reading.at = "ChunkHeader"
      BY DEF ChunkHeader, Reading
    <2>2. /\ chunk_state = None
          /\ \E i \in DOMAIN file.spans :
                /\ file.items[i].k = "Chunk"
                /\ file_data.start = Begin(file, i) + 1
                /\ len = Ending(file, i) - Begin(file, i) - 1
                /\ len \in Nat /\ Begin(file, i) \in Nat /\ Ending(file, i) \in Nat
                /\ ItemOK(file, file.items[i], Begin(file, i), Ending(file, i))
      BY <2>1, BodyThere
    <2>3. PICK i \in DOMAIN file.spans :
                /\ file.items[i].k = "Chunk"
                /\ file_data.start = Begin(file, i) + 1
                /\ len = Ending(file, i) - Begin(file, i) - 1
                /\ len \in Nat /\ Begin(file, i) \in Nat /\ Ending(file, i) \in Nat
                /\ ItemOK(file, file.items[i], Begin(file, i), Ending(file, i))
      BY <2>2
    <2>4. \/ Ask(1) \/ Ask(HeaderLen(h))
          \/ /\ Have >= HeaderLen(h)
             /\ Fails(ChunkError(h, len))
             /\ file_data' = MarkRead(file_data, HeaderLen(h))
             /\ decompressors' = {d \in decompressors : d.name # h.compression}
             /\ UNCHANGED <<currently_reading, chunk_state, decompressed_content, at_eof>>
          \/ /\ Have >= HeaderLen(h)
             /\ ChunkError(h, len) = "none"
             /\ file_data' = MarkRead(file_data, HeaderLen(h))
             /\ chunk_state' = Some(NewChunkState(h, len))
             /\ decompressors' = {d \in decompressors : d.name # h.compression}
             /\ decompressed_content' =
                  [unread |-> <<>>,
                   hasher |-> IF Validating /\ h.crc # None /\ h.compression # ""
                              THEN Some(<<>>) ELSE None]
             /\ Become(IF opts.prevalidate_chunk_crcs /\ h.crc # None
                       THEN "ValidatingChunkCrc" ELSE "ChunkRecord")
             /\ Continue
             /\ UNCHANGED at_eof
      BY DEF ChunkHeader
    <2>6. Begin(file, i) + 2 <= Len(file.cells) /\ h = Cell(file, Begin(file, i) + 2)
      <3>1. Begin(file, i) + 2 <= Len(file.cells) /\ file_data.start + 1 = Begin(file, i) + 2
        BY <1>0, <1>2, <2>3 DEF Have
      <3>. QED  BY <3>1, PlainIsCell
    <2>7. Header(file, i) = h /\ DataFrom(file, i) = Begin(file, i) + 1 + HeaderLen(h)
      BY <2>3, <2>6 DEF Header, DataFrom
    <2>. HIDE DEF h, len
    <2>8. h.compressed_size \in Nat /\ h.uncompressed_size \in Nat /\ SizesOK(h)
      <3>1. SizesOK(h)
        BY <2>3, <2>6 DEF ItemOK
      <3>. QED  BY <3>1 DEF SizesOK
    <2>5. HeaderLen(h) \in Nat \ {0}
      BY <2>8, HeaderLenFacts
    <2>9. CASE Ask(HeaderLen(h))
      <3>1. Permitted(HeaderLen(h))
        BY <2>1 DEF Permitted, h
      <3>. QED  BY <2>5, <2>9, <3>1, AskPermitted
    <2>11. CASE /\ Have >= HeaderLen(h)
                /\ Fails(ChunkError(h, len))
                /\ file_data' = MarkRead(file_data, HeaderLen(h))
                /\ decompressors' = {d \in decompressors : d.name # h.compression}
                /\ UNCHANGED <<currently_reading, chunk_state, decompressed_content, at_eof>>
      <3>. DEFINE n == HeaderLen(h)
      <3>. HIDE DEF n
      <3>1. n \in Nat /\ n <= Have /\ file_data' = MarkRead(file_data, n)
        BY <1>0, <2>5, <2>11 DEF n
      <3>2. file_data' = [start |-> file_data.start + n, end |-> file_data.end, hasher |-> file_data'.hasher]
        BY <1>0, <3>1, MarkReadFacts
      <3>3. file' = file /\ opts' = opts /\ event'.kind = "Err"
        BY <2>11 DEF Fails
      <3>4. /\ decompressed_content' = [unread |-> decompressed_content'.unread, hasher |-> decompressed_content'.hasher]
            /\ \A d \in decompressors' : IsDecompressor(d) /\ d.held = <<>>
        BY <1>0, <2>11 DEF Shape
      <3>5. Shape'
        BY <1>0, <2>11, <3>1, <3>2, <3>3, <3>4, Advances
      <3>. QED  BY <2>11, <3>3, <3>5, PlacedInRange, FailsAfter
    <2>10. CASE /\ Have >= HeaderLen(h)
                /\ ChunkError(h, len) = "none"
                /\ file_data' = MarkRead(file_data, HeaderLen(h))
                /\ chunk_state' = Some(NewChunkState(h, len))
                /\ decompressors' = {d \in decompressors : d.name # h.compression}
                /\ decompressed_content' =
                     [unread |-> <<>>,
                      hasher |-> IF Validating /\ h.crc # None /\ h.compression # ""
                                 THEN Some(<<>>) ELSE None]
                /\ Become(IF opts.prevalidate_chunk_crcs /\ h.crc # None
                          THEN "ValidatingChunkCrc" ELSE "ChunkRecord")
                /\ Continue
                /\ UNCHANGED at_eof
      <3>. DEFINE n == HeaderLen(h)
                  state == NewChunkState(h, len)
                  at == currently_reading'.at
      <3>0. Have >= n /\ n \in Nat /\ len \in Nat
        BY <2>3, <2>5, <2>10
      <3>1. n \in Nat /\ n <= Have
        <4>. HIDE DEF n
        <4>. QED  BY <1>0, <3>0
      <3>2. file_data' = [start |-> file_data.start + n, end |-> file_data.end, hasher |-> file_data'.hasher]
        BY <1>0, <2>10, <3>1, MarkReadFacts
      <3>3. /\ h.compression \in Supported \cup {""} /\ ~(len < n + h.compressed_size)
            /\ WithinLimit(len - n - h.compressed_size)
        BY <2>10 DEF ChunkError
      <3>4. /\ n + h.compressed_size <= len /\ len - n - h.compressed_size \in Nat
            /\ len - n - h.compressed_size <= opts.record_length_limit
        <4>. HIDE DEF n
        <4>1. PICK c \in Nat : c = h.compressed_size
          BY <2>8
        <4>2. n \in Nat /\ len \in Nat
          BY <3>0
        <4>3. ~(len < n + c)
          BY <3>3, <4>1
        <4>4. WithinLimit(len - n - c)
          BY <3>3, <4>1
        <4>5. len - n - c <= opts.record_length_limit
          BY <4>4 DEF WithinLimit
        <4>. QED  BY <1>0, <4>1, <4>2, <4>3, <4>5
      <3>5. /\ decompressed_content' = [unread |-> decompressed_content'.unread, hasher |-> decompressed_content'.hasher]
            /\ decompressed_content'.unread = <<>>
        BY <2>10
      <3>6. \A d \in decompressors' : IsDecompressor(d) /\ d.held = <<>>
        BY <1>0, <2>10 DEF Shape
      <3>7. Shape' /\ file_data'.start = file_data.start + n
        BY <1>0, <2>10, <3>1, <3>2, <3>5, <3>6, Advances DEF Continue
      <3>8. at \in {"ValidatingChunkCrc", "ChunkRecord"}
        BY <2>10 DEF Become, At
      <3>9. IsChunk(file, i)
        <4>1. DataFrom(file, i) + h.compressed_size <= Ending(file, i)
          BY <2>3, <2>7, <2>8, <3>1, <3>4
        <4>. QED  BY <2>3, <2>6, <2>7, <3>3, <4>1 DEF IsChunk
      <3>10. LET d == GetDecompressor(h.compression) IN
             /\ h.compression = "" <=> d = None
             /\ h.compression # "" => d = Some(d[1]) /\ IsDecompressor(d[1]) /\ d[1].held = <<>>
        BY <1>0, GetDecompressorFacts
      <3>11. /\ state.decompressor = GetDecompressor(h.compression)
             /\ state.compressed_remaining = h.compressed_size
             /\ state.uncompressed_remaining = h.uncompressed_size
             /\ state.uncompressed_len = h.uncompressed_size
             /\ state.padding_after_compressed_data = len - n - h.compressed_size
             /\ HasFields(state)
        BY DEF NewChunkState, HasFields, State
      <3>12. DataFrom(file, i) = file_data.start + n
        BY <2>3, <2>7, <3>1
      <3>13. Header(file, i) = h
        BY <2>7
      <3>14. chunk_state' = Some(state)
        BY <2>10
      <3>. HIDE DEF n, state, at
      <3>15. IsState(state)
        BY <2>8, <3>4, <3>10, <3>11 DEF IsState
      <3>16. Fresh(file, i, state, opts.record_length_limit)
        <4>1. DataFrom(file, i) + h.compressed_size + (len - n - h.compressed_size) = Ending(file, i)
          BY <2>3, <2>8, <3>1, <3>12
        <4>. QED  BY <3>4, <3>10, <3>11, <3>13, <4>1 DEF Fresh
      <3>17. InChunk(file, i, DataFrom(file, i), state, <<>>, at, opts.record_length_limit)
        BY <1>0, <3>8, <3>9, <3>15, <3>16, ChunkEntered
      <3>18. chunk_state' = Some(chunk_state'[1]) /\ chunk_state'[1] = state
        BY <3>14 DEF Some
      <3>19. IsAt(file, file_data.start + n, currently_reading', chunk_state', <<>>, opts.record_length_limit)
        BY <3>8, <3>12, <3>17, <3>18 DEF IsAt, at
      <3>20. Placed'
        BY <2>10, <3>5, <3>7, <3>19 DEF Placed, Continue
      <3>21. Told'
        BY <2>10, ToldPlain DEF Continue, Call
      <3>. QED  BY <3>7, <3>20, <3>21 DEF LinearInv
    <2>. QED  BY <1>1, <2>4, <2>9, <2>10, <2>11
  <1>. QED  BY <1>1, <1>2 DEF ChunkHeader

-------------------------------------------------------------------------------
(* In a chunk.                                                             *)

\* A reader in a chunk knows which.
LEMMA ChunkThere ==
    ASSUME LinearInv, currently_reading.at \in {"ValidatingChunkCrc", "ChunkRecord", "PaddingAfterChunk"}
    PROVE  /\ chunk_state = Some(chunk_state[1])
           /\ \E i \in DOMAIN file.spans :
                InChunk(file, i, file_data.start, chunk_state[1], decompressed_content.unread,
                        currently_reading.at, opts.record_length_limit)
  BY DEF LinearInv, Placed, IsAt

\* What InChunk says of the numbers.
LEMMA InChunkFacts ==
    ASSUME Shape, NEW i \in DOMAIN file.spans, NEW state, NEW unread, NEW at, NEW limit, NEW p \in Nat,
           InChunk(file, i, p, state, unread, at, limit)
    PROVE  /\ state.compressed_remaining \in Nat /\ state.uncompressed_remaining \in Nat
           /\ state.padding_after_compressed_data \in Nat
           /\ p + state.compressed_remaining + state.padding_after_compressed_data = Ending(file, i)
           /\ IsChunk(file, i) /\ IsState(state)
           /\ Header(file, i).compressed_size \in Nat /\ Header(file, i).uncompressed_size \in Nat
           /\ Begin(file, i) \in Nat /\ DataFrom(file, i) \in Nat /\ Ending(file, i) \in Nat
           /\ DataOK(file, Header(file, i), DataFrom(file, i))
           /\ state.uncompressed_len = Header(file, i).uncompressed_size
           /\ state.decompressor = None <=> Header(file, i).compression = ""
  <1>1. IsChunk(file, i) /\ IsState(state)
    BY DEF InChunk
  <1>2. /\ state.compressed_remaining \in Nat /\ state.uncompressed_remaining \in Nat
        /\ state.padding_after_compressed_data \in Nat
    BY <1>1 DEF IsState
  <1>3. /\ Header(file, i).compressed_size \in Nat /\ Header(file, i).uncompressed_size \in Nat
        /\ Begin(file, i) \in Nat /\ DataFrom(file, i) \in Nat /\ Ending(file, i) \in Nat
        /\ DataOK(file, Header(file, i), DataFrom(file, i))
    BY <1>1, ChunkFacts
  <1>4. /\ p + state.compressed_remaining + state.padding_after_compressed_data = Ending(file, i)
        /\ state.uncompressed_len = Header(file, i).uncompressed_size
        /\ state.decompressor = None <=> Header(file, i).compression = ""
    BY DEF InChunk
  <1>. QED  BY <1>1, <1>2, <1>3, <1>4

\* A chunk whose CRC is right is read record by record.
LEMMA ValidateKeeps ==
    ASSUME LinearInv, currently_reading.at = "ValidatingChunkCrc", NEW cells, Validate(cells)
    PROVE  LinearInv'
  <1>1. CASE Error("BadChunkCrc")
    BY <1>1, ErrorKeeps
  <1>2. CASE /\ Become("ChunkRecord") /\ Continue
             /\ UNCHANGED <<chunk_state, file_data, decompressed_content, decompressors, at_eof>>
    <2>1. chunk_state = Some(chunk_state[1])
      BY ChunkThere
    <2>2. PICK i \in DOMAIN file.spans :
                InChunk(file, i, file_data.start, chunk_state[1], decompressed_content.unread,
                        "ValidatingChunkCrc", opts.record_length_limit)
      BY ChunkThere
    <2>3. InChunk(file, i, file_data.start, chunk_state[1], decompressed_content.unread,
                  "ChunkRecord", opts.record_length_limit)
      BY <2>2 DEF InChunk
    <2>4. currently_reading'.at = "ChunkRecord"
      BY <1>2 DEF Become, At
    <2>5. IsAt(file, file_data.start, currently_reading', chunk_state,
               decompressed_content.unread, opts.record_length_limit)
      BY <2>1, <2>3, <2>4 DEF IsAt
    <2>6. Placed'
      BY <1>2, <2>5 DEF Placed, Continue
    <2>7. Shape'
      BY <1>2 DEF LinearInv, Shape, Continue
    <2>8. Told'
      BY <1>2, ToldPlain DEF Continue, Call
    <2>. QED  BY <2>6, <2>7, <2>8 DEF LinearInv
  <1>. QED  BY <1>1, <1>2 DEF Validate

\* The CRC of an uncompressed chunk before its records.
LEMMA ValidatingUncompressedKeeps ==
    ASSUME LinearInv, ValidatingUncompressed
    PROVE  LinearInv'
  <1>. DEFINE n == chunk_state[1].compressed_remaining
  <1>0. currently_reading.at = "ValidatingChunkCrc"
    BY DEF ValidatingUncompressed, Reading
  <1>1. Shape /\ opts.record_length_limit \in Nat /\ file_data.start \in Nat
    BY LimitFacts DEF LinearInv, Shape
  <1>2. n \in Nat
    <2>1. PICK i \in DOMAIN file.spans :
                InChunk(file, i, file_data.start, chunk_state[1], decompressed_content.unread,
                        currently_reading.at, opts.record_length_limit)
      BY <1>0, ChunkThere
    <2>. QED  BY <1>1, <2>1, InChunkFacts
  <1>3. \/ Error("ChunkTooLarge") \/ Validate(Unread(n))
        \/ WithinLimit(n) /\ Ask(n)
    BY DEF ValidatingUncompressed
  <1>. HIDE DEF n
  <1>4. CASE WithinLimit(n) /\ Ask(n)
    <2>1. n <= opts.record_length_limit
      BY <1>4 DEF WithinLimit
    <2>. QED  BY <1>1, <1>2, <1>4, <2>1, AskKeeps
  <1>. QED  BY <1>0, <1>3, <1>4, ErrorKeeps, ValidateKeeps

\* The fields of a chunk's state.
LEMMA StateFields ==
    ASSUME NEW a, NEW b, NEW c, NEW d, NEW e, NEW f, NEW g, NEW s, s = State(a, b, c, d, e, f, g)
    PROVE  /\ s.decompressor = a /\ s.hasher = b /\ s.compressed_remaining = c
           /\ s.uncompressed_remaining = d /\ s.uncompressed_len = e
           /\ s.padding_after_compressed_data = f /\ s.crc = g
           /\ HasFields(s)
  <1>1. /\ s.decompressor = a /\ s.hasher = b /\ s.compressed_remaining = c
        /\ s.uncompressed_remaining = d /\ s.uncompressed_len = e
        /\ s.padding_after_compressed_data = f /\ s.crc = g
    BY DEF State
  <1>. QED  BY <1>1 DEF HasFields

\* They are these after the chunk is left,
LEMMA StateLeft ==
    ASSUME NEW s, HasFields(s), NEW x, NEW y
    PROVE  [s EXCEPT !.padding_after_compressed_data = x, !.compressed_remaining = y]
             = State(s.decompressor, s.hasher, y, s.uncompressed_remaining, s.uncompressed_len, x, s.crc)
  <1>0. PICK a, b, c, d, e, f, g : s = State(a, b, c, d, e, f, g)
    BY DEF HasFields
  <1>1. PICK t : t = [s EXCEPT !.padding_after_compressed_data = x]
    OBVIOUS
  <1>2. t = State(a, b, c, d, e, x, g)
    BY <1>0, <1>1 DEF State
  <1>3. [t EXCEPT !.compressed_remaining = y] = State(a, b, y, d, e, x, g)
    BY <1>2 DEF State
  <1>4. s.decompressor = a /\ s.hasher = b /\ s.uncompressed_remaining = d /\ s.uncompressed_len = e /\ s.crc = g
    BY <1>0, StateFields
  <1>. QED  BY <1>1, <1>3, <1>4

\* these after a record,
LEMMA StateAfterRecord ==
    ASSUME NEW s, HasFields(s), NEW n, NEW u
    PROVE  [s EXCEPT !.compressed_remaining = @ - n, !.hasher = Hashed(@, u)]
             = State(s.decompressor, Hashed(s.hasher, u), s.compressed_remaining - n, s.uncompressed_remaining,
                     s.uncompressed_len, s.padding_after_compressed_data, s.crc)
  <1>0. PICK a, b, c, d, e, f, g : s = State(a, b, c, d, e, f, g)
    BY DEF HasFields
  <1>1. PICK t : t = [s EXCEPT !.compressed_remaining = s.compressed_remaining - n]
    OBVIOUS
  <1>2. PICK m : m = s.compressed_remaining - n
    OBVIOUS
  <1>3. t = State(a, b, m, d, e, f, g)
    BY <1>0, <1>1, <1>2 DEF State
  <1>4. PICK v : v = Hashed(t.hasher, u)
    OBVIOUS
  <1>5. [t EXCEPT !.hasher = v] = State(a, v, m, d, e, f, g)
    BY <1>3 DEF State
  <1>6. t.hasher = b
    BY <1>3, StateFields
  <1>7. /\ s.decompressor = a /\ s.hasher = b /\ s.uncompressed_remaining = d /\ s.uncompressed_len = e
        /\ s.padding_after_compressed_data = f /\ s.crc = g
    BY <1>0, StateFields
  <1>. QED  BY <1>1, <1>2, <1>4, <1>5, <1>6, <1>7

\* and these after some of it is decompressed.
LEMMA StateAfterDecoding ==
    ASSUME NEW s, HasFields(s), NEW x, NEW y, NEW z
    PROVE  [s EXCEPT !.decompressor = x, !.compressed_remaining = y, !.uncompressed_remaining = z]
             = State(x, s.hasher, y, z, s.uncompressed_len, s.padding_after_compressed_data, s.crc)
  <1>0. PICK a, b, c, d, e, f, g : s = State(a, b, c, d, e, f, g)
    BY DEF HasFields
  <1>1. PICK t : t = [s EXCEPT !.decompressor = x]
    OBVIOUS
  <1>2. t = State(x, b, c, d, e, f, g)
    BY <1>0, <1>1 DEF State
  <1>3. PICK u : u = [t EXCEPT !.compressed_remaining = y]
    OBVIOUS
  <1>4. u = State(x, b, y, d, e, f, g)
    BY <1>2, <1>3 DEF State
  <1>5. [u EXCEPT !.uncompressed_remaining = z] = State(x, b, y, z, e, f, g)
    BY <1>4 DEF State
  <1>6. s.hasher = b /\ s.uncompressed_len = e /\ s.padding_after_compressed_data = f /\ s.crc = g
    BY <1>0, StateFields
  <1>. QED  BY <1>1, <1>3, <1>5, <1>6

\* All records of a chunk are out: what remains of it is skipped.
LEMMA LeaveChunkKeeps ==
    ASSUME LinearInv, currently_reading.at = "ChunkRecord", NEW padding, LeaveChunk(padding),
           padding = Padding(chunk_state[1]), WithinLimit(chunk_state[1].compressed_remaining)
    PROVE  LinearInv'
  <1>. DEFINE state == chunk_state[1]
              next  == [state EXCEPT !.padding_after_compressed_data = padding, !.compressed_remaining = 0]
              limit == opts.record_length_limit
  <1>0. Shape /\ limit \in Nat /\ file_data.start \in Nat
    BY LimitFacts DEF LinearInv, Shape
  <1>1. PICK i \in DOMAIN file.spans :
                InChunk(file, i, file_data.start, state, decompressed_content.unread, "ChunkRecord", limit)
    BY ChunkThere
  <1>2. /\ state.compressed_remaining \in Nat /\ state.padding_after_compressed_data \in Nat
        /\ file_data.start + state.compressed_remaining + state.padding_after_compressed_data = Ending(file, i)
        /\ IsState(state)
    <2>. HIDE DEF state, limit
    <2>. QED  BY <1>0, <1>1, InChunkFacts
  <1>3. state.padding_after_compressed_data <= limit /\ state.compressed_remaining <= limit
    BY <1>1 DEF InChunk, WithinLimit
  <1>4. padding = state.padding_after_compressed_data + state.compressed_remaining
    BY DEF Padding
  <1>5. padding \in Nat /\ padding <= 2 * limit /\ file_data.start + 0 + padding = Ending(file, i)
    <2>. HIDE DEF state, limit
    <2>. QED  BY <1>0, <1>2, <1>3, <1>4
  <1>6. HasFields(state)
    BY <1>2 DEF IsState
  <1>7. next = State(state.decompressor, state.hasher, 0, state.uncompressed_remaining, state.uncompressed_len, padding, state.crc)
    BY <1>6, StateLeft
  <1>8. /\ chunk_state' = Some(next) /\ currently_reading'.at = "PaddingAfterChunk"
        /\ UNCHANGED <<file_data, decompressed_content, decompressors, at_eof, file, opts>> /\ event' = Call
    BY DEF LeaveChunk, Become, At, Continue
  <1>. HIDE DEF next, state, limit
  <1>9. /\ next.decompressor = state.decompressor /\ next.compressed_remaining = 0
        /\ next.uncompressed_remaining = state.uncompressed_remaining
        /\ next.uncompressed_len = state.uncompressed_len
        /\ next.padding_after_compressed_data = padding /\ HasFields(next)
    BY <1>7, StateFields
  <1>10. IsState(next)
    BY <1>2, <1>5, <1>9 DEF IsState
  <1>11. InChunk(file, i, file_data.start, next, decompressed_content.unread, "PaddingAfterChunk", limit)
    BY <1>1, <1>5, <1>9, <1>10 DEF InChunk
  <1>12. chunk_state'[1] = next /\ chunk_state' = Some(chunk_state'[1])
    BY <1>8 DEF Some
  <1>16. IsAt(file, file_data.start, currently_reading', chunk_state', decompressed_content.unread, limit)
    BY <1>8, <1>11, <1>12 DEF IsAt
  <1>13. Placed'
    BY <1>8, <1>16 DEF Placed, limit
  <1>14. Shape'
    BY <1>8 DEF LinearInv, Shape
  <1>15. Told'
    BY <1>8, ToldPlain DEF Call
  <1>. QED  BY <1>13, <1>14, <1>15 DEF LinearInv

\* A record of an uncompressed chunk, or the end of them.
LEMMA UncompressedRecordKeeps ==
    ASSUME LinearInv, UncompressedRecord
    PROVE  LinearInv'
  <1>. DEFINE state == chunk_state[1]
              limit == opts.record_length_limit
              p == file_data.start
              head == Plain(file_data.start + 1)
              n == 1 + head.len
              next == [state EXCEPT !.compressed_remaining = @ - n, !.hasher = Hashed(@, Unread(n))]
  <1>0. /\ Shape /\ limit \in Nat /\ p \in Nat /\ Have \in Int
        /\ file_data.end \in Nat /\ file_data.end <= Len(file.cells) /\ Len(file.cells) \in Nat
    BY LimitFacts, FileSpans DEF LinearInv, Shape, Have
  <1>1. currently_reading.at = "ChunkRecord" /\ state.decompressor = None
    BY DEF UncompressedRecord, Reading, Compressed
  <1>2. PICK i \in DOMAIN file.spans :
                InChunk(file, i, p, state, decompressed_content.unread, "ChunkRecord", limit)
    BY <1>1, ChunkThere
  <1>3. IF state.compressed_remaining = 0
        THEN LeaveChunk(state.padding_after_compressed_data)
        ELSE \/ Ask(1) \/ Error("RecordTooLarge")
             \/ Have >= 1 /\ WithinLimit(head.len) /\ Ask(n)
             \/ /\ Have >= 1 /\ WithinLimit(head.len) /\ Have >= n
                /\ Yield(head.op, Tail(Unread(n)))
                /\ file_data' = MarkRead(file_data, n)
                /\ chunk_state' = Some(next)
                /\ UNCHANGED <<file, opts, currently_reading,
                               decompressed_content, decompressors, at_eof, yielded>>
    BY DEF UncompressedRecord
  <1>. HIDE DEF state, limit, p, head, n, next
  <1>4. /\ state.compressed_remaining \in Nat /\ state.uncompressed_remaining \in Nat
        /\ state.padding_after_compressed_data \in Nat
        /\ p + state.compressed_remaining + state.padding_after_compressed_data = Ending(file, i)
        /\ IsChunk(file, i) /\ IsState(state)
        /\ Header(file, i).compressed_size \in Nat /\ Header(file, i).uncompressed_size \in Nat
        /\ Begin(file, i) \in Nat /\ DataFrom(file, i) \in Nat /\ Ending(file, i) \in Nat
        /\ DataOK(file, Header(file, i), DataFrom(file, i))
        /\ state.uncompressed_len = Header(file, i).uncompressed_size
        /\ state.decompressor = None <=> Header(file, i).compression = ""
    BY <1>0, <1>2, InChunkFacts
  <1>5. /\ AtRecord(file, i, p) /\ state.padding_after_compressed_data <= limit
        /\ p + state.compressed_remaining = DataFrom(file, i) + Header(file, i).compressed_size
        /\ Begin(file, i) < p \/ file.items[i].k = "Contents"
    BY <1>1, <1>2 DEF InChunk
  <1>6. /\ state.compressed_remaining \in Nat /\ state.padding_after_compressed_data \in Nat
        /\ Header(file, i).uncompressed_size \in Nat /\ DataFrom(file, i) \in Nat /\ Ending(file, i) \in Nat
        /\ Begin(file, i) \in Nat
        /\ p + state.compressed_remaining + state.padding_after_compressed_data = Ending(file, i)
        /\ p + state.compressed_remaining = DataFrom(file, i) + Header(file, i).uncompressed_size
        /\ Header(file, i).compressed_size = Header(file, i).uncompressed_size
    <2>1. Header(file, i).compressed_size = Header(file, i).uncompressed_size + 0
      BY <1>1, <1>4 DEF DataOK
    <2>2. Header(file, i).uncompressed_size \in Nat
      BY <1>4
    <2>3. Header(file, i).compressed_size = Header(file, i).uncompressed_size
      BY <2>1, <2>2
    <2>. QED  BY <1>4, <1>5, <2>3
  <1>7. CASE state.compressed_remaining = 0
    <2>1. LeaveChunk(state.padding_after_compressed_data)
      BY <1>3, <1>7
    <2>2. state.padding_after_compressed_data = Padding(state)
      BY <1>6, <1>7 DEF Padding
    <2>3. WithinLimit(state.compressed_remaining)
      BY <1>0, <1>7 DEF WithinLimit, limit
    <2>. QED  BY <1>1, <2>1, <2>2, <2>3, LeaveChunkKeeps DEF state
  <1>8. CASE state.compressed_remaining # 0 /\ Have >= 1
    <2>0. head = Cell(file, p + 1)
      BY PlainIsCell DEF p, head
    <2>1. p + 1 <= Len(file.cells) /\ p < DataFrom(file, i) + Header(file, i).uncompressed_size
      <3>1. p + 1 <= Len(file.cells)
        BY <1>0, <1>8 DEF Have, p
      <3>2. p < DataFrom(file, i) + Header(file, i).uncompressed_size
        BY <1>0, <1>6, <1>8
      <3>. QED  BY <3>1, <3>2
    <2>2. /\ head.len \in Nat
          /\ p + 1 + head.len <= DataFrom(file, i) + Header(file, i).uncompressed_size
          /\ AtRecord(file, i, p + 1 + head.len)
      BY <1>0, <1>4, <1>5, <2>0, <2>1, NextRecord
    <2>3. n \in Nat /\ p + n = p + 1 + head.len /\ n = 1 + head.len
      BY <1>0, <2>2 DEF n
    <2>4. CASE WithinLimit(head.len) /\ Ask(n)
      <3>1. head.len <= limit
        BY <2>4 DEF WithinLimit, limit
      <3>2. n <= 2 * limit + 2
        BY <1>0, <2>2, <2>3, <3>1
      <3>. QED  BY <2>3, <2>4, <3>2, AskKeeps DEF limit
    <2>5. CASE /\ Have >= n
               /\ Yield(head.op, Tail(Unread(n)))
               /\ file_data' = MarkRead(file_data, n)
               /\ chunk_state' = Some(next)
               /\ UNCHANGED <<file, opts, currently_reading,
                              decompressed_content, decompressors, at_eof, yielded>>
      <3>1. n <= Have
        BY <1>0, <2>3, <2>5
      <3>2. file_data' = [start |-> file_data.start + n, end |-> file_data.end, hasher |-> file_data'.hasher]
        BY <1>0, <2>3, <2>5, <3>1, MarkReadFacts
      <3>3. next = State(state.decompressor, Hashed(state.hasher, Unread(n)), state.compressed_remaining - n,
                         state.uncompressed_remaining, state.uncompressed_len,
                         state.padding_after_compressed_data, state.crc)
        BY <1>4, StateAfterRecord DEF IsState, next
      <3>4. /\ next.decompressor = state.decompressor
            /\ next.compressed_remaining = state.compressed_remaining - n
            /\ next.uncompressed_remaining = state.uncompressed_remaining
            /\ next.uncompressed_len = state.uncompressed_len
            /\ next.padding_after_compressed_data = state.padding_after_compressed_data
            /\ HasFields(next)
        BY <3>3, StateFields
      <3>5. state.compressed_remaining - n \in Nat
        <4>1. PICK c \in Nat : c = state.compressed_remaining
          BY <1>6
        <4>2. PICK e \in Nat : e = DataFrom(file, i) + Header(file, i).uncompressed_size
          BY <1>6
        <4>3. p + c = e
          BY <1>6, <4>1, <4>2
        <4>4. p + n <= e
          BY <2>2, <2>3, <4>2
        <4>. QED  BY <1>0, <2>3, <4>1, <4>3, <4>4
      <3>6. IsState(next)
        BY <1>4, <3>4, <3>5 DEF IsState
      <3>7. /\ (p + n) + next.compressed_remaining + next.padding_after_compressed_data = Ending(file, i)
            /\ (p + n) + next.compressed_remaining = DataFrom(file, i) + Header(file, i).compressed_size
        <4>1. PICK c \in Nat : c = state.compressed_remaining
          BY <1>6
        <4>2. p + c = DataFrom(file, i) + Header(file, i).uncompressed_size /\ p + n + (c - n) = p + c
          BY <1>0, <1>6, <2>3, <4>1
        <4>. QED  BY <1>0, <1>6, <2>3, <3>4, <4>1, <4>2
      <3>8. Begin(file, i) < p + n \/ file.items[i].k = "Contents"
        <4>1. p < p + n
          BY <1>0, <2>2, <2>3
        <4>. QED  BY <1>0, <1>5, <1>6, <2>3, <4>1
      <3>9. AtRecord(file, i, p + n)
        BY <2>2, <2>3
      <3>10. InChunk(file, i, p + n, next, decompressed_content.unread, "ChunkRecord", limit)
        BY <1>1, <1>4, <1>5, <3>4, <3>6, <3>7, <3>8, <3>9 DEF InChunk
      <3>11. chunk_state'[1] = next /\ chunk_state' = Some(chunk_state'[1]) /\ currently_reading' = currently_reading
        BY <2>5 DEF Some
      <3>12. IsAt(file, file_data.start + n, currently_reading', chunk_state',
                  decompressed_content.unread, opts.record_length_limit)
        BY <1>1, <3>10, <3>11 DEF IsAt, p, limit
      <3>13. event'.kind = "Record"
        BY <2>5 DEF Yield
      <3>. QED  BY <2>3, <2>5, <3>1, <3>2, <3>12, <3>13, Steps1
    <2>. QED  BY <1>0, <1>3, <1>8, <2>4, <2>5, AskKeeps, ErrorKeeps DEF limit
  <1>9. CASE state.compressed_remaining # 0 /\ ~(Have >= 1)
    <2>1. Ask(1) \/ Error("RecordTooLarge")
      BY <1>3, <1>9
    <2>. QED  BY <1>0, <2>1, AskKeeps, ErrorKeeps DEF limit
  <1>. QED  BY <1>7, <1>8, <1>9

-------------------------------------------------------------------------------
(* Decompression.                                                          *)

\* The cells that are read from the buffer are a run.
LEMMA UnreadIsRun ==
    ASSUME Shape, NEW m \in Nat
    PROVE  IsRun(Unread(m), file_data.start) /\ Len(Unread(m)) = m
  <1>1. file_data.start \in Int /\ Unread(m) = Run(file_data.start, m)
    BY DEF Unread, Run, Shape
  <1>2. Len(Run(file_data.start, m)) = m
    BY <1>1, RunFacts
  <1>. QED  BY <1>1, <1>2 DEF IsRun

\* Of m cells after p only the one after `end` is a mark.
Marked(p, m, end) == \A q \in (p + 1)..(p + m) : Plain(q).k = "FrameEnd" <=> q = end + 1

Marks(src) == {i \in DOMAIN src : Plain(src[i]).k = "FrameEnd"}

Input(src) == IF Marks(src) = {} THEN src ELSE SubSeq(src, 1, Min(Marks(src)) - 1)

\* The part of m cells after p that lies before the mark at the cell after `end`.
LEMMA BeforeMark ==
    ASSUME NEW p \in Nat, NEW m \in Nat, NEW end \in Nat, p <= end, p + m <= end + 1,
           NEW src, IsRun(src, p), Len(src) = m,
           Marked(p, m, end)
    PROVE  /\ Marks(src) = {} <=> p + m <= end
           /\ IsRun(Input(src), p) /\ Len(Input(src)) = IF p + m <= end THEN m ELSE m - 1
  <1>. DEFINE marks == Marks(src)
              input == Input(src)
  <1>1. DOMAIN src = 1..m /\ \A j \in 1..m : src[j] = p + j
    <2>1. p \in Int
      OBVIOUS
    <2>2. DOMAIN src = 1..Len(src) /\ \A j \in 1..Len(src) : src[j] = p + j
      BY <2>1, IsRunFacts
    <2>. QED  BY <2>2
  <1>2. marks \subseteq 1..m /\ \A j \in 1..m : j \in marks <=> p + j = end + 1
    BY <1>1 DEF Marked, Marks
  <1>. HIDE DEF marks
  <1>3. CASE p + m <= end
    <2>1. marks = {}
      BY <1>1, <1>2, <1>3
    <2>2. input = src
      BY <2>1 DEF Input, marks
    <2>. QED  BY <1>3, <2>1, <2>2 DEF marks
  <1>4. CASE ~(p + m <= end)
    <2>1. p + m = end + 1 /\ m >= 1
      BY <1>4
    <2>2. marks = {m}
      <3>1. \A j \in 1..m : p + j = end + 1 <=> j = m
        BY <2>1
      <3>2. m \in 1..m
        BY <2>1
      <3>. QED  BY <1>2, <3>1, <3>2
    <2>3. Min(marks) = m
      BY <2>2 DEF Min
    <2>4. input = SubSeq(src, 1, m - 1)
      BY <2>2, <2>3 DEF Input, marks
    <2>5. m - 1 \in 0..Len(src)
      BY <2>1
    <2>6. IsRun(SubSeq(src, 1, m - 1), p) /\ Len(SubSeq(src, 1, m - 1)) = m - 1
      BY <2>5, RunParts
    <2>. QED  BY <1>4, <2>2, <2>4, <2>6 DEF marks
  <1>. QED  BY <1>3, <1>4

\* Two fields of a decoder.
LEMMA DecoderFields ==
    ASSUME NEW d, IsDecompressor(d), NEW h, NEW k
    PROVE  [d EXCEPT !.held = h, !.need = k] = [name |-> d.name, need |-> k, held |-> h]
  <1>0. PICK a, b, c : d = [name |-> a, need |-> b, held |-> c]
    BY DEF IsDecompressor
  <1>1. PICK e : e = [d EXCEPT !.held = h]
    OBVIOUS
  <1>2. e = [name |-> a, need |-> b, held |-> h]
    BY <1>0, <1>1
  <1>3. [e EXCEPT !.need = k] = [name |-> a, need |-> k, held |-> h]
    BY <1>2
  <1>4. d.name = a
    BY <1>0
  <1>. QED  BY <1>1, <1>3, <1>4

\* A decoder holds the cells from `done` to p.
Holding(d, done, p) == IsDecompressor(d) /\ IsRun(d.held, done) /\ Len(d.held) = p - done

\* Some are given out, and the rest is held.
Decodes(res, p, m, end, done) ==
    LET c == res.consumed
        k == Len(res.wrote)
    IN /\ c \in 0..m /\ k \in Nat /\ done + k <= end
       /\ IsRun(res.wrote, done)
       /\ IsDecompressor(res.next) /\ IsRun(res.next.held, done + k)
       /\ p + c <= end => done + k + Len(res.next.held) = p + c
       /\ p + c > end => done + k = end /\ res.next.held = <<>>

\* What a decoder makes of m cells after p, when it holds the ones from `done` to
\* p: it gives out some and holds the rest, and the mark is taken with the last.
LEMMA DecodedFacts ==
    ASSUME NEW p \in Nat, NEW m \in Nat, NEW end \in Nat, NEW done \in Nat, NEW dst \in Nat,
           p <= end, p + m <= end + 1, done <= p,
           NEW d, Holding(d, done, p),
           NEW src, IsRun(src, p), Len(src) = m,
           Marked(p, m, end), NEW hint \in Nat
    PROVE  Decodes(Decoded(d, src, dst, hint), p, m, end, done)
  <1>. DEFINE marks == Marks(src)
              input == Input(src)
              held  == d.held \o input
              n     == Min({dst, Len(held)})
              rest  == SubSeq(held, n + 1, Len(held))
              wrote == SubSeq(held, 1, n)
              ends  == rest = <<>> /\ marks # {}
              c     == Len(input) + (IF ends THEN 1 ELSE 0)
              need  == IF ends THEN 0 ELSE hint
              next  == [d EXCEPT !.held = rest, !.need = need]
  <1>1. /\ marks = {} <=> p + m <= end
        /\ IsRun(input, p) /\ Len(input) = IF p + m <= end THEN m ELSE m - 1
    BY BeforeMark
  <1>2. Decoded(d, src, dst, hint) = [consumed |-> c, wrote |-> wrote, next |-> next]
    BY DEF Decoded, Marks, Input
  <1>. HIDE DEF marks, input
  <1>3. p = done + Len(d.held) /\ done \in Int /\ IsRun(d.held, done) /\ IsDecompressor(d)
    BY DEF Holding
  <1>4. IsRun(held, done) /\ Len(held) = (p - done) + Len(input)
    <2>1. IsRun(input, done + Len(d.held)) /\ Len(d.held) = p - done
      BY <1>1, <1>3 DEF Holding
    <2>2. IsRun(held, done) /\ Len(held) = Len(d.held) + Len(input)
      BY <1>3, <2>1, RunJoin
    <2>. QED  BY <2>1, <2>2
  <1>. DEFINE l == Len(held)
  <1>5. l \in Nat /\ l = (p - done) + Len(input) /\ Len(input) \in Nat /\ Len(input) <= m /\ done + l <= end
    BY <1>1, <1>4
  <1>. HIDE DEF held, l
  <1>6. n \in 0..l
    <2>1. n = IF dst <= l THEN dst ELSE l
      BY <1>5, MinOfTwo DEF l
    <2>. HIDE DEF n
    <2>. QED  BY <1>5, <2>1
  <1>7. /\ IsRun(wrote, done) /\ Len(wrote) = n
        /\ IsRun(rest, done + n) /\ Len(rest) = l - n
    <2>. HIDE DEF n
    <2>1. n \in 0..Len(held) /\ l = Len(held)
      BY <1>6 DEF l
    <2>. QED  BY <1>3, <1>4, <2>1, RunParts
  <1>. HIDE DEF n, rest, wrote
  <1>8. rest = <<>> <=> n = l
    <2>1. IsSeq(rest) /\ Len(rest) = l - n /\ n \in Nat
      BY <1>5, <1>6, <1>7, IsRunFacts
    <2>2. IsSeq(<<>>) /\ Len(<<>>) = 0
      BY EmptyFacts
    <2>3. ASSUME n = l PROVE rest = <<>>
      <3>1. Len(rest) = Len(<<>>) /\ \A i \in 1..Len(rest) : rest[i] = <<>>[i]
        BY <1>5, <2>1, <2>2, <2>3
      <3>. QED  BY <2>1, <2>2, <3>1, SeqExtensional
    <2>4. ASSUME rest = <<>> PROVE n = l
      BY <1>5, <2>1, <2>2, <2>4
    <2>. QED  BY <2>3, <2>4
  <1>9. next = [name |-> d.name, need |-> need, held |-> rest]
    <2>. HIDE DEF need
    <2>. QED  BY <1>3, DecoderFields
  <1>10. need \in Nat
    <2>. HIDE DEF ends
    <2>. QED  OBVIOUS
  <1>11. /\ c \in 0..m /\ n \in Nat /\ done + n <= end
         /\ p + c <= end => done + n + Len(rest) = p + c
         /\ p + c > end => done + n = end /\ rest = <<>>
    <2>0. n \in Nat /\ n <= l
      BY <1>5, <1>6
    <2>1. CASE ends
      <3>1. n = l /\ rest = <<>> /\ Len(input) = m - 1 /\ p + m = end + 1
        BY <1>1, <1>8, <2>1
      <3>2. c = m
        BY <2>1, <3>1
      <3>. HIDE DEF ends, c
      <3>. QED  BY <1>5, <2>0, <3>1, <3>2
    <2>2. CASE ~ends
      <3>1. c = Len(input)
        BY <1>5, <2>2
      <3>. HIDE DEF ends, c
      <3>2. p + c <= end
        BY <1>1, <1>5, <3>1
      <3>3. done + n + (l - n) = p + c
        BY <1>5, <2>0, <3>1
      <3>4. c \in 0..m /\ done + n <= end /\ ~(p + c > end)
        BY <1>5, <2>0, <3>1, <3>2
      <3>. QED  BY <1>7, <2>0, <3>3, <3>4
    <2>. QED  BY <2>1, <2>2
  <1>. HIDE DEF c, next, need
  <1>12. IsDecompressor(next) /\ next.held = rest
    BY <1>9, <1>10 DEF IsDecompressor
  <1>. DEFINE res == Decoded(d, src, dst, hint)
  <1>13. res.consumed = c /\ res.wrote = wrote /\ res.next = next
    BY <1>2
  <1>. HIDE DEF res
  <1>14. Decodes(res, p, m, end, done)
    BY <1>7, <1>11, <1>12, <1>13 DEF Decodes
  <1>. QED  BY <1>14 DEF res

\* m cells after p are in the file and in the data of chunk i.
Reach(i, p, m) ==
    p + m <= DataFrom(file, i) + Header(file, i).compressed_size /\ p + m <= Len(file.cells)

\* Chunk i is compressed, and so the reader has a decoder.
Decoding(i, state) == Header(file, i).compression # "" /\ state.decompressor # None

Unfinished(state) == state.uncompressed_remaining > 0

\* What becomes of a chunk's state when the decoder has worked.
HasDecoded(next, state, res) ==
    /\ next.decompressor = Some(res.next)
    /\ next.uncompressed_remaining = state.uncompressed_remaining - Len(res.wrote)

\* A reader in a frame is still in it when the decoder has worked.
LEMMA FrameDecoded ==
    ASSUME Shape, NEW i \in DOMAIN file.spans, IsChunk(file, i), NEW p \in Nat, NEW state,
           IsState(state), Decoding(i, state), NEW unread,
           NEW y \in Nat, InFrame(file, i, p, state, unread, y), Unfinished(state),
           NEW m \in Nat, Reach(i, p, m), NEW dst \in Nat, NEW src, IsRun(src, p), Len(src) = m,
           NEW hint \in Nat
    PROVE  LET res == Decoded(state.decompressor[1], src, dst, hint)
           IN /\ res.consumed \in 0..m /\ Len(res.wrote) \in Nat
              /\ Len(res.wrote) <= state.uncompressed_remaining
              /\ IsDecompressor(res.next)
              /\ \A next : HasDecoded(next, state, res)
                           => InFrame(file, i, p + res.consumed, next, unread \o res.wrote, y)
  <1>. DEFINE d == state.decompressor[1]
              s == DataFrom(file, i)
              h == Header(file, i)
              u == h.uncompressed_size
              end == s + u
              k0 == Len(unread)
              done == y + k0
              left == state.uncompressed_remaining
              res == Decoded(d, src, dst, hint)
              c == res.consumed
              k == Len(res.wrote)
  <1>1. s \in Nat /\ u \in Nat /\ h.compressed_size = u + 1 /\ DataOK(file, h, s) /\ Len(file.cells) \in Nat
    <2>1. s \in Nat /\ u \in Nat /\ DataOK(file, h, s) /\ Len(file.cells) \in Nat
      BY ChunkFacts, FileSpans
    <2>. QED  BY <2>1 DEF DataOK, Decoding
  <1>2. IsDecompressor(d) /\ left \in Nat /\ left # 0
    <2>1. IsDecompressor(d)
      BY DEF IsState, Decoding
    <2>2. left \in Nat
      BY DEF IsState
    <2>. QED  BY <2>1, <2>2 DEF Unfinished
  <1>3. /\ s <= y /\ s <= p /\ (y < end => IsHead(file, y + 1))
        /\ IsRun(unread, y) /\ IsRun(d.held, done) /\ left = end - done
        /\ p <= end => done + Len(d.held) = p
        /\ p > end => done = end
    BY DEF InFrame
  <1>. HIDE DEF s, h, u, left, d
  <1>4. k0 \in Nat /\ y \in Nat /\ y \in Int
    BY <1>3 DEF IsRun
  <1>. HIDE DEF k0
  <1>5. done \in Nat /\ end \in Nat /\ p <= end
    BY <1>1, <1>2, <1>3, <1>4
  <1>. HIDE DEF end
  <1>6. Len(d.held) \in Nat
    BY <1>3 DEF IsRun
  <1>7. done <= p /\ Len(d.held) = p - done
    <2>. HIDE DEF done
    <2>. QED  BY <1>3, <1>5, <1>6
  <1>. HIDE DEF done
  <1>8. p + m <= end + 1 /\ p + m <= Len(file.cells)
    BY <1>1 DEF Reach, end, s, h
  <1>9. Marked(p, m, end)
    <2>1. \A q \in (s + 1)..(s + h.compressed_size) :
             q <= Len(file.cells) => (Cell(file, q).k = "FrameEnd" <=> q = s + h.compressed_size)
      BY <1>1 DEF DataOK, h, Decoding
    <2>2. s + h.compressed_size = end + 1
      BY <1>1 DEF end
    <2>3. ASSUME NEW q \in (p + 1)..(p + m) PROVE Plain(q).k = "FrameEnd" <=> q = end + 1
      <3>1. q \in (s + 1)..(end + 1) /\ q <= Len(file.cells)
        BY <1>1, <1>3, <1>5, <1>8
      <3>. QED  BY <2>1, <2>2, <3>1, PlainIsCell
    <2>. QED  BY <2>3 DEF Marked
  <1>10. /\ c \in 0..m /\ k \in Nat /\ done + k <= end
         /\ IsRun(res.wrote, done)
         /\ IsDecompressor(res.next) /\ IsRun(res.next.held, done + k)
         /\ p + c <= end => done + k + Len(res.next.held) = p + c
         /\ p + c > end => done + k = end /\ res.next.held = <<>>
    <2>1. Holding(d, done, p)
      BY <1>2, <1>3, <1>7 DEF Holding
    <2>2. IsRun(src, p) /\ Len(src) = m
      OBVIOUS
    <2>3. Decodes(res, p, m, end, done)
      BY <2>1, <2>2, <1>5, <1>7, <1>8, <1>9, DecodedFacts
    <2>. HIDE DEF res
    <2>. QED  BY <2>3 DEF Decodes
  <1>. HIDE DEF res, c, k
  <1>11. k <= left
    BY <1>2, <1>3, <1>5, <1>10
  <1>12. IsRun(unread \o res.wrote, y) /\ Len(unread \o res.wrote) = k0 + k
    BY <1>3, <1>4, <1>10, RunJoin DEF done, k0, k
  <1>13. ASSUME NEW next, HasDecoded(next, state, res)
         PROVE  InFrame(file, i, p + c, next, unread \o res.wrote, y)
    <2>1. next.decompressor[1].held = res.next.held
      BY <1>13 DEF Some, HasDecoded
    <2>2. y + Len(unread \o res.wrote) = done + k
      BY <1>4, <1>10, <1>12 DEF done
    <2>3. next.uncompressed_remaining = end - (done + k)
      <3>1. next.uncompressed_remaining = left - k
        BY <1>13 DEF HasDecoded, left, k
      <3>. QED  BY <1>2, <1>3, <1>5, <1>10, <3>1
    <2>4. s <= p + c
      BY <1>1, <1>3, <1>10
    <2>. QED  BY <1>3, <1>10, <1>12, <2>1, <2>2, <2>3, <2>4 DEF InFrame, end, s, u, h
  <1>. QED  BY <1>10, <1>11, <1>13 DEF res, c, k, left, d

\* A turn of the decoder, for n decompressed cells in all.
LEMMA DecompressKeeps ==
    ASSUME LinearInv, currently_reading.at \in {"ValidatingChunkCrc", "ChunkRecord"}, Compressed,
           NEW n \in Nat, Len(decompressed_content.unread) < n, Decompress(n)
    PROVE  LinearInv'
  <1>. DEFINE state == chunk_state[1]
              d == state.decompressor[1]
              limit == opts.record_length_limit
              p == file_data.start
              unread == decompressed_content.unread
              at == currently_reading.at
              m == Min({Have, state.compressed_remaining})
              dst == n - Len(unread)
              Res(hint) == Decoded(d, Unread(m), dst, hint)
              Next1(res) == [state EXCEPT !.decompressor = Some(res.next),
                                          !.compressed_remaining = @ - res.consumed,
                                          !.uncompressed_remaining = @ - Len(res.wrote)]
              Turn(res) ==
                /\ file_data' = MarkRead(file_data, res.consumed)
                /\ decompressed_content' = [decompressed_content EXCEPT !.unread = unread \o res.wrote]
                /\ chunk_state' = Some(Next1(res))
                /\ event' = IF Have - res.consumed < res.next.need
                            THEN [kind |-> "ReadRequest", n |-> res.next.need - (Have - res.consumed)] ELSE Call
                /\ UNCHANGED <<file, opts, currently_reading, decompressors, at_eof, yielded>>
  <1>0. /\ Shape /\ limit \in Nat /\ p \in Nat /\ Have \in Nat /\ p + Have = file_data.end
        /\ file_data.end \in Nat /\ file_data.end <= Len(file.cells) /\ Len(file.cells) \in Nat
    BY LimitFacts, FileSpans DEF LinearInv, Shape, Have
  <1>1. at \in {"ValidatingChunkCrc", "ChunkRecord"} /\ state.decompressor # None
    BY DEF Compressed
  <1>2. PICK i \in DOMAIN file.spans : InChunk(file, i, p, state, unread, at, limit)
    BY ChunkThere
  <1>3. \/ Ask(d.need) \/ Error("UnexpectedEoc")
        \/ /\ state.uncompressed_remaining > 0
           /\ \E hint \in 1..state.compressed_remaining : Turn(Res(hint))
    BY DEF Decompress
  <1>. HIDE DEF state, limit, p, unread, at
  <1>4. /\ state.compressed_remaining \in Nat /\ state.uncompressed_remaining \in Nat
        /\ state.padding_after_compressed_data \in Nat
        /\ p + state.compressed_remaining + state.padding_after_compressed_data = Ending(file, i)
        /\ IsChunk(file, i) /\ IsState(state)
        /\ Begin(file, i) \in Nat /\ Ending(file, i) \in Nat
        /\ state.uncompressed_len = Header(file, i).uncompressed_size
        /\ state.decompressor = None <=> Header(file, i).compression = ""
    BY <1>0, <1>2, InChunkFacts
  <1>5. /\ state.padding_after_compressed_data <= limit
        /\ p + state.compressed_remaining = DataFrom(file, i) + Header(file, i).compressed_size
        /\ Begin(file, i) < p \/ file.items[i].k = "Contents"
        /\ \E y \in 0..p : InFrame(file, i, p, state, unread, y)
    BY <1>1, <1>2 DEF InChunk
  <1>6. IsDecompressor(d) /\ d.need \in Nat
    BY <1>1, <1>4 DEF IsState, IsDecompressor
  <1>7. CASE Ask(d.need)
    <2>1. Permitted(d.need)
      BY <1>1 DEF Permitted, Compressed, state, at
    <2>. HIDE DEF d
    <2>. QED  BY <1>6, <1>7, <2>1, AskPermitted
  <1>8. CASE /\ state.uncompressed_remaining > 0
             /\ \E hint \in 1..state.compressed_remaining : Turn(Res(hint))
    <2>. HIDE DEF Turn, Res
    <2>a. PICK hint \in 1..state.compressed_remaining : Turn(Res(hint))
      BY <1>8
    <2>b. hint \in Nat
      <3>1. PICK r \in Nat : r = state.compressed_remaining
        BY <1>4
      <3>2. hint \in 1..r
        BY <2>a, <3>1
      <3>. QED  BY <3>1, <3>2
    <2>. DEFINE res == Res(hint)
                c == res.consumed
                k == Len(res.wrote)
                have == Have - c
                next == Next1(res)
    <2>c. /\ file_data' = MarkRead(file_data, c)
          /\ decompressed_content' = [decompressed_content EXCEPT !.unread = unread \o res.wrote]
          /\ chunk_state' = Some(next)
          /\ event' = IF have < res.next.need
                      THEN [kind |-> "ReadRequest", n |-> res.next.need - have] ELSE Call
          /\ UNCHANGED <<file, opts, currently_reading, decompressors, at_eof, yielded>>
      BY <2>a DEF Turn
    <2>d. next = [state EXCEPT !.decompressor = Some(res.next),
                               !.compressed_remaining = @ - c,
                               !.uncompressed_remaining = @ - k]
      OBVIOUS
    <2>. HIDE DEF next
    <2>1. PICK y \in 0..p : InFrame(file, i, p, state, unread, y)
      BY <1>5
    <2>2. y \in Nat /\ y <= p
      BY <1>0
    <2>3. m \in Nat /\ m <= Have /\ m <= state.compressed_remaining
      <3>1. PICK r \in Nat : r = state.compressed_remaining
        BY <1>4
      <3>2. m = IF Have <= r THEN Have ELSE r
        BY <1>0, <3>1, MinOfTwo
      <3>. HIDE DEF m
      <3>. QED  BY <1>0, <3>1, <3>2
    <2>. HIDE DEF m
    <2>4. Reach(i, p, m)
      <3>1. PICK r \in Nat : r = state.compressed_remaining
        BY <1>4
      <3>2. m <= r /\ p + r = DataFrom(file, i) + Header(file, i).compressed_size
        BY <1>5, <2>3, <3>1
      <3>3. p + m <= p + r /\ p + m <= Len(file.cells)
        BY <1>0, <2>3, <3>1, <3>2
      <3>. QED  BY <3>2, <3>3 DEF Reach
    <2>5. IsRun(Unread(m), p) /\ Len(Unread(m)) = m
      BY <1>0, <2>3, UnreadIsRun DEF p
    <2>6. Len(unread) \in Nat /\ dst \in Nat
      <3>1. Len(unread) \in Nat
        BY <2>1 DEF InFrame, IsRun
      <3>. QED  BY <3>1 DEF unread
    <2>7. Decoding(i, state) /\ Unfinished(state)
      BY <1>1, <1>4, <1>8 DEF Decoding, Unfinished
    <2>. HIDE DEF dst
    <2>8. /\ c \in 0..m /\ k \in Nat
          /\ k <= state.uncompressed_remaining
          /\ IsDecompressor(res.next)
          /\ \A nx : HasDecoded(nx, state, res) => InFrame(file, i, p + c, nx, unread \o res.wrote, y)
      BY <1>0, <1>4, <2>1, <2>2, <2>3, <2>4, <2>5, <2>6, <2>7, <2>b, FrameDecoded DEF d, Res
    <2>. HIDE DEF res
    <2>9. c \in Nat /\ c <= Have /\ c <= state.compressed_remaining
      <3>. HIDE DEF c
      <3>1. PICK r \in Nat : r = state.compressed_remaining
        BY <1>4
      <3>. QED  BY <1>0, <2>3, <2>8, <3>1
    <2>10. file_data' = [start |-> file_data.start + c, end |-> file_data.end, hasher |-> file_data'.hasher]
      <3>. HIDE DEF c
      <3>. QED  BY <1>0, <2>c, <2>9, MarkReadFacts
    <2>11. next = State(Some(res.next), state.hasher, state.compressed_remaining - c, state.uncompressed_remaining - k,
                        state.uncompressed_len, state.padding_after_compressed_data, state.crc)
      <3>1. HasFields(state)
        BY <1>4 DEF IsState
      <3>. HIDE DEF c, k
      <3>. QED  BY <2>d, <3>1, StateAfterDecoding
    <2>. HIDE DEF next, c, k
    <2>12. /\ next.decompressor = Some(res.next)
           /\ next.compressed_remaining = state.compressed_remaining - c
           /\ next.uncompressed_remaining = state.uncompressed_remaining - k
           /\ next.uncompressed_len = state.uncompressed_len
           /\ next.padding_after_compressed_data = state.padding_after_compressed_data
           /\ HasFields(next)
      BY <2>11, StateFields
    <2>13. state.compressed_remaining - c \in Nat /\ state.uncompressed_remaining - k \in Nat
      <3>1. PICK r \in Nat : r = state.compressed_remaining
        BY <1>4
      <3>2. PICK v \in Nat : v = state.uncompressed_remaining
        BY <1>4
      <3>3. r - c \in Nat /\ v - k \in Nat
        BY <2>8, <2>9, <3>1, <3>2
      <3>. QED  BY <3>1, <3>2, <3>3
    <2>14. next.decompressor[1] = res.next /\ next.decompressor # None /\ next.decompressor = Some(next.decompressor[1])
      BY <2>12 DEF Some, None
    <2>15. IsState(next)
      BY <1>4, <2>8, <2>12, <2>13, <2>14 DEF IsState
    <2>16. InFrame(file, i, p + c, next, unread \o res.wrote, y)
      <3>1. HasDecoded(next, state, res)
        BY <2>12 DEF HasDecoded, k
      <3>. QED  BY <2>8, <3>1
    <2>17. y \in 0..(p + c) /\ (Begin(file, i) < p + c \/ file.items[i].k = "Contents")
      <3>1. y \in 0..(p + c) /\ p <= p + c
        BY <1>0, <2>2, <2>9
      <3>2. PICK b \in Nat : b = Begin(file, i)
        BY <1>4
      <3>3. b < p => b < p + c
        BY <1>0, <2>9
      <3>. QED  BY <1>5, <3>1, <3>2, <3>3
    <2>18. /\ (p + c) + next.compressed_remaining + next.padding_after_compressed_data = Ending(file, i)
           /\ (p + c) + next.compressed_remaining = DataFrom(file, i) + Header(file, i).compressed_size
      <3>1. PICK r \in Nat : r = state.compressed_remaining
        BY <1>4
      <3>2. p + r = DataFrom(file, i) + Header(file, i).compressed_size /\ (p + c) + (r - c) = p + r
        <4>1. p + r = DataFrom(file, i) + Header(file, i).compressed_size
          BY <1>5, <3>1
        <4>2. (p + c) + (r - c) = p + r
          BY <1>0, <2>9
        <4>. QED  BY <4>1, <4>2
      <3>. QED  BY <1>4, <2>12, <3>1, <3>2
    <2>19. InChunk(file, i, p + c, next, unread \o res.wrote, at, limit)
      BY <1>1, <1>4, <1>5, <2>12, <2>14, <2>15, <2>16, <2>17, <2>18 DEF InChunk
    <2>20. chunk_state' = Some(chunk_state'[1]) /\ chunk_state'[1] = next
      BY <2>c DEF Some
    <2>21. /\ decompressed_content' = [unread |-> unread \o res.wrote, hasher |-> decompressed_content.hasher]
      <3>1. decompressed_content = [unread |-> decompressed_content.unread, hasher |-> decompressed_content.hasher]
        BY <1>0 DEF Shape
      <3>. QED  BY <2>c, <3>1
    <2>22. /\ decompressed_content'.unread = unread \o res.wrote
           /\ decompressed_content' = [unread |-> decompressed_content'.unread, hasher |-> decompressed_content'.hasher]
      BY <2>21
    <2>23. \A x \in decompressors' : IsDecompressor(x) /\ x.held = <<>>
      BY <1>0, <2>c DEF Shape
    <2>24. Shape' /\ file_data'.start = file_data.start + c
      BY <1>0, <2>c, <2>9, <2>10, <2>22, <2>23, Advances
    <2>25. IsAt(file, file_data.start + c, currently_reading, chunk_state', unread \o res.wrote, limit)
      BY <1>1, <2>19, <2>20 DEF IsAt, p, at
    <2>26. Placed'
      BY <2>c, <2>22, <2>24, <2>25 DEF Placed, limit
    <2>27. Told'
      <3>1. res.next.need \in Nat
        BY <2>8 DEF IsDecompressor
      <3>2. Have' = have /\ have \in Int
        <4>1. file_data'.end = file_data.end
          BY <2>10
        <4>. QED  BY <1>0, <2>9, <2>24, <4>1 DEF Have, p
      <3>. HIDE DEF have
      <3>3. CASE have < res.next.need
        <4>1. event'.kind = "ReadRequest" /\ event'.n = res.next.need - have
          BY <2>c, <3>3
        <4>2. event'.n \in Nat \ {0} /\ Have' + event'.n = res.next.need
          BY <3>1, <3>2, <3>3, <4>1
        <4>3. /\ currently_reading'.at \in {"ValidatingChunkCrc", "ChunkRecord"}
              /\ chunk_state'[1].decompressor # None
              /\ chunk_state'[1].decompressor[1].need = res.next.need
          BY <1>1, <2>c, <2>14, <2>20 DEF at
        <4>4. Permitted(Have + event.n)'
          BY <4>2, <4>3 DEF Permitted, Compressed
        <4>. QED  BY <4>1, <4>2, <4>4 DEF Told
      <3>4. CASE ~(have < res.next.need)
        BY <2>c, <3>4, ToldPlain DEF Call
      <3>. QED  BY <3>3, <3>4
    <2>. QED  BY <2>24, <2>26, <2>27 DEF LinearInv
  <1>. QED  BY <1>3, <1>7, <1>8, ErrorKeeps

\* The CRC of a compressed chunk before its records.
LEMMA ValidatingCompressedKeeps ==
    ASSUME LinearInv, ValidatingCompressed
    PROVE  LinearInv'
  <1>. DEFINE n == chunk_state[1].uncompressed_len
              unread == decompressed_content.unread
  <1>0. currently_reading.at = "ValidatingChunkCrc" /\ Compressed
    BY DEF ValidatingCompressed, Reading
  <1>1. Shape /\ opts.record_length_limit \in Nat /\ file_data.start \in Nat
    BY LimitFacts DEF LinearInv, Shape
  <1>2. PICK i \in DOMAIN file.spans :
                InChunk(file, i, file_data.start, chunk_state[1], unread, "ValidatingChunkCrc", opts.record_length_limit)
    BY <1>0, ChunkThere
  <1>3. n \in Nat
    BY <1>1, <1>2, InChunkFacts
  <1>4. Len(unread) \in Nat
    <2>1. PICK y \in 0..file_data.start : InFrame(file, i, file_data.start, chunk_state[1], unread, y)
      BY <1>0, <1>2 DEF InChunk, Compressed
    <2>. QED  BY <2>1 DEF InFrame, IsRun
  <1>5. \/ Error("ChunkTooLarge") \/ Validate(unread)
        \/ ~(Len(unread) >= n) /\ Decompress(n)
    BY DEF ValidatingCompressed
  <1>. HIDE DEF n
  <1>6. CASE ~(Len(unread) >= n) /\ Decompress(n)
    <2>1. Len(unread) < n
      BY <1>3, <1>4, <1>6
    <2>. QED  BY <1>0, <1>3, <1>6, <2>1, DecompressKeeps
  <1>. QED  BY <1>0, <1>5, <1>6, ErrorKeeps, ValidateKeeps

\* The next record of a compressed chunk, when all of it is decompressed.
LEMMA FrameRecord ==
    ASSUME Shape, NEW i \in DOMAIN file.spans, IsChunk(file, i), NEW p \in Nat, p <= Len(file.cells),
           NEW state, IsState(state), NEW unread, unread # <<>>,
           NEW y \in Nat, InFrame(file, i, p, state, unread, y)
    PROVE  LET head == Plain(unread[1])
               n    == 1 + head.len
           IN /\ head.len \in Nat /\ Len(unread) \in Nat
              /\ n <= Len(unread) =>
                   /\ y + n \in 0..p
                   /\ InFrame(file, i, p, state, SubSeq(unread, n + 1, Len(unread)), y + n)
  <1>. DEFINE s == DataFrom(file, i)
              u == Header(file, i).uncompressed_size
              end == s + u
              k == Len(unread)
              done == y + k
              held == state.decompressor[1].held
              left == state.uncompressed_remaining
              head == Plain(unread[1])
              n == 1 + head.len
              rest == SubSeq(unread, n + 1, Len(unread))
  <1>1. s \in Nat /\ u \in Nat /\ Len(file.cells) \in Nat
    BY ChunkFacts, FileSpans
  <1>2. left \in Nat
    BY DEF IsState
  <1>3. /\ s <= y /\ s <= p /\ (y < end => IsHead(file, y + 1))
        /\ IsRun(unread, y) /\ IsRun(held, done) /\ left = end - done
        /\ p <= end => done + Len(held) = p
        /\ p > end => done = end /\ held = <<>>
    BY DEF InFrame
  <1>. HIDE DEF s, u, left
  <1>4. k \in Nat /\ Len(held) \in Nat /\ \A j \in 1..k : unread[j] = y + j
    <2>1. y \in Int
      OBVIOUS
    <2>. QED  BY <1>3, <2>1, IsRunFacts DEF IsRun
  <1>5. k # 0
    <2>1. y \in Int
      OBVIOUS
    <2>2. IsSeq(unread) /\ IsSeq(<<>>) /\ Len(<<>>) = 0
      BY <1>3, <2>1, IsRunFacts, EmptyFacts
    <2>3. ASSUME Len(unread) = 0 PROVE FALSE
      <3>1. Len(unread) = Len(<<>>) /\ \A j \in 1..Len(unread) : unread[j] = <<>>[j]
        BY <2>2, <2>3
      <3>. QED  BY <2>2, <3>1, SeqExtensional
    <2>. QED  BY <2>3
  <1>. HIDE DEF k, held
  <1>6. done \in Nat /\ end \in Nat /\ done <= end /\ done <= p
    <2>1. done \in Nat /\ end \in Nat /\ done <= end
      BY <1>1, <1>2, <1>3, <1>4
    <2>. HIDE DEF done, end
    <2>. QED  BY <1>3, <1>4, <2>1
  <1>7. y < end /\ y + 1 <= Len(file.cells)
    <2>1. y + 1 <= done
      BY <1>4, <1>5
    <2>. HIDE DEF done, end
    <2>. QED  BY <1>1, <1>6, <2>1
  <1>8. head = Cell(file, y + 1)
    <2>1. unread[1] = y + 1
      BY <1>4, <1>5
    <2>. QED  BY <2>1, PlainIsCell
  <1>9. AtRecord(file, i, y)
    BY <1>3 DEF AtRecord, end, s, u
  <1>. HIDE DEF head
  <1>10. /\ head.len \in Nat
         /\ y + 1 + head.len <= end
         /\ AtRecord(file, i, y + 1 + head.len)
    BY <1>7, <1>8, <1>9, NextRecord DEF end, s, u
  <1>11. n \in Nat /\ y + n = y + 1 + head.len
    BY <1>10
  <1>. HIDE DEF n
  <1>12. ASSUME n <= k PROVE y + n \in 0..p /\ InFrame(file, i, p, state, rest, y + n)
    <2>1. n \in 0..Len(unread) /\ y \in Int
      BY <1>4, <1>11, <1>12 DEF k
    <2>2. IsRun(rest, y + n) /\ Len(rest) = k - n
      BY <1>3, <2>1, RunParts DEF k
    <2>. HIDE DEF rest
    <2>3. (y + n) + Len(rest) = done /\ y + n <= done
      BY <1>4, <1>11, <1>12, <2>2
    <2>4. y + n \in 0..p
      <3>. HIDE DEF done
      <3>. QED  BY <1>6, <1>11, <2>3
    <2>5. s <= y + n /\ (y + n < end => IsHead(file, (y + n) + 1))
      BY <1>10, <1>11 DEF AtRecord, s, u, end
    <2>. HIDE DEF done, end
    <2>. QED  BY <1>3, <2>2, <2>3, <2>4, <2>5 DEF InFrame, end, s, u, held, left
  <1>. QED  BY <1>4, <1>10, <1>12 DEF k, head, n

\* A record of a compressed chunk, or the end of them.
LEMMA CompressedRecordKeeps ==
    ASSUME LinearInv, CompressedRecord
    PROVE  LinearInv'
  <1>. DEFINE state == chunk_state[1]
              limit == opts.record_length_limit
              p == file_data.start
              unread == decompressed_content.unread
              head == Plain(unread[1])
              n == 1 + head.len
              rest == SubSeq(unread, n + 1, Len(unread))
  <1>0. /\ Shape /\ limit \in Nat /\ p \in Nat /\ p <= Len(file.cells)
    BY LimitFacts, FileSpans DEF LinearInv, Shape
  <1>1. currently_reading.at = "ChunkRecord" /\ Compressed /\ state.decompressor # None
    BY DEF CompressedRecord, Reading, Compressed
  <1>2. PICK i \in DOMAIN file.spans : InChunk(file, i, p, state, unread, "ChunkRecord", limit)
    BY <1>1, ChunkThere
  <1>3. \/ /\ WithinLimit(state.compressed_remaining) /\ LeaveChunk(Padding(state))
        \/ Error("ChunkTooLarge") \/ Error("RecordTooLarge")
        \/ unread = <<>> /\ Decompress(1)
        \/ unread # <<>> /\ Len(unread) < n /\ Decompress(n)
        \/ /\ unread # <<>> /\ Len(unread) >= n
           /\ Yield(head.op, SubSeq(unread, 2, n))
           /\ decompressed_content' =
                [unread |-> rest, hasher |-> Hashed(decompressed_content.hasher, SubSeq(unread, 1, n))]
           /\ UNCHANGED <<file, opts, currently_reading, chunk_state,
                          file_data, decompressors, at_eof, yielded>>
    <2>1. CASE unread = <<>> /\ state.uncompressed_remaining = 0
      BY <2>1 DEF CompressedRecord
    <2>2. CASE unread = <<>> /\ state.uncompressed_remaining > 0
      BY <2>2 DEF CompressedRecord
    <2>3. CASE unread # <<>>
      BY <2>3 DEF CompressedRecord
    <2>4. state.uncompressed_remaining \in Nat
      BY <1>0, <1>2, InChunkFacts
    <2>. QED  BY <2>1, <2>2, <2>3, <2>4
  <1>4. CASE WithinLimit(state.compressed_remaining) /\ LeaveChunk(Padding(state))
    BY <1>1, <1>4, LeaveChunkKeeps
  <1>5. CASE unread = <<>> /\ Decompress(1)
    <2>1. Len(unread) < 1
      BY <1>5, EmptyFacts
    <2>. QED  BY <1>1, <1>5, <2>1, DecompressKeeps
  <1>6. CASE unread # <<>> /\ ((Len(unread) < n /\ Decompress(n)) \/ Len(unread) >= n)
    <2>. HIDE DEF state, limit, p, unread
    <2>1. IsChunk(file, i) /\ IsState(state)
      BY <1>0, <1>2, InChunkFacts
    <2>2. PICK y \in 0..p : InFrame(file, i, p, state, unread, y)
      BY <1>1, <1>2 DEF InChunk
    <2>3. y \in Nat
      BY <1>0
    <2>4. /\ head.len \in Nat /\ Len(unread) \in Nat
          /\ n <= Len(unread) => y + n \in 0..p /\ InFrame(file, i, p, state, rest, y + n)
      BY <1>0, <1>6, <2>1, <2>2, <2>3, FrameRecord
    <2>5. n \in Nat
      <3>. HIDE DEF head
      <3>. QED  BY <2>4
    <2>. HIDE DEF n, rest
    <2>6. CASE Len(unread) < n /\ Decompress(n)
      BY <1>1, <2>5, <2>6, DecompressKeeps DEF unread
    <2>7. CASE /\ Len(unread) >= n
               /\ Yield(head.op, SubSeq(unread, 2, n))
               /\ decompressed_content' =
                    [unread |-> rest, hasher |-> Hashed(decompressed_content.hasher, SubSeq(unread, 1, n))]
               /\ UNCHANGED <<file, opts, currently_reading, chunk_state,
                              file_data, decompressors, at_eof, yielded>>
      <3>1. n <= Len(unread)
        BY <2>4, <2>5, <2>7
      <3>2. \E z \in 0..p : InFrame(file, i, p, state, rest, z)
        BY <2>4, <3>1
      <3>3. InChunk(file, i, p, state, rest, "ChunkRecord", limit)
        BY <1>1, <1>2, <3>2 DEF InChunk
      <3>4. chunk_state = Some(state)
        BY <1>1, ChunkThere DEF state
      <3>5. IsAt(file, p, currently_reading, chunk_state, rest, limit)
        BY <1>1, <3>3, <3>4 DEF IsAt, state
      <3>6. /\ decompressed_content'.unread = rest
            /\ decompressed_content' = [unread |-> decompressed_content'.unread, hasher |-> decompressed_content'.hasher]
        BY <2>7
      <3>7. Placed'
        BY <2>7, <3>5, <3>6 DEF Placed, limit, p
      <3>8. Shape'
        BY <1>0, <2>7, <3>6 DEF Shape
      <3>9. Told'
        BY <2>7, ToldPlain DEF Yield
      <3>. QED  BY <3>7, <3>8, <3>9 DEF LinearInv
    <2>. QED  BY <1>3, <1>4, <1>5, <2>6, <2>7, <1>6, ErrorKeeps
  <1>. QED  BY <1>3, <1>4, <1>5, <1>6, ErrorKeeps

\* What follows the data of a chunk is skipped, and its decoder is kept.
LEMMA PaddingAfterChunkKeeps ==
    ASSUME LinearInv, PaddingAfterChunk
    PROVE  LinearInv' \/ Failed'
  <1>. DEFINE state == chunk_state[1]
              limit == opts.record_length_limit
              p == file_data.start
              n == state.padding_after_compressed_data
  <1>0. Shape /\ limit \in Nat /\ p \in Nat /\ Have \in Int
    BY LimitFacts DEF LinearInv, Shape, Have
  <1>1. currently_reading.at = "PaddingAfterChunk"
    BY DEF PaddingAfterChunk, Reading
  <1>2. PICK i \in DOMAIN file.spans :
            InChunk(file, i, p, state, decompressed_content.unread, "PaddingAfterChunk", limit)
    BY <1>1, ChunkThere
  <1>3. \/ Ask(n)
        \/ /\ Have >= n
           /\ file_data' = MarkRead(file_data, n)
           /\ decompressors' = decompressors \cup (IF Compressed THEN {Reset(state.decompressor[1])} ELSE {})
           /\ decompressed_content' = [decompressed_content EXCEPT !.hasher = IF Compressed THEN None ELSE @]
           /\ UNCHANGED at_eof
           /\ \/ /\ chunk_state' = Some([state EXCEPT !.decompressor = None,
                                                      !.hasher = IF Compressed THEN @ ELSE None])
                 /\ Fails("BadChunkCrc")
                 /\ UNCHANGED currently_reading
              \/ /\ chunk_state' = None
                 /\ Become("FileRecord")
                 /\ Continue
    BY DEF PaddingAfterChunk
  <1>. HIDE DEF limit, p
  <1>4. n \in Nat /\ IsState(state) /\ IsChunk(file, i) /\ Ending(file, i) \in Nat
    BY <1>0, <1>2, InChunkFacts
  <1>5. n <= 2 * limit /\ p + 0 + n = Ending(file, i)
    BY <1>2 DEF InChunk
  <1>. HIDE DEF n
  <1>6. CASE Ask(n)
    BY <1>0, <1>4, <1>5, <1>6, AskKeeps DEF limit
  <1>7. CASE /\ Have >= n
             /\ file_data' = MarkRead(file_data, n)
             /\ decompressors' = decompressors \cup (IF Compressed THEN {Reset(state.decompressor[1])} ELSE {})
             /\ decompressed_content' = [decompressed_content EXCEPT !.hasher = IF Compressed THEN None ELSE @]
             /\ UNCHANGED at_eof
             /\ \/ /\ chunk_state' = Some([state EXCEPT !.decompressor = None,
                                                        !.hasher = IF Compressed THEN @ ELSE None])
                   /\ Fails("BadChunkCrc")
                   /\ UNCHANGED currently_reading
                \/ /\ chunk_state' = None
                   /\ Become("FileRecord")
                   /\ Continue
    <2>1. n <= Have
      BY <1>0, <1>4, <1>7
    <2>2. file_data' = [start |-> file_data.start + n, end |-> file_data.end, hasher |-> file_data'.hasher]
      BY <1>0, <1>4, <1>7, <2>1, MarkReadFacts
    <2>3. PICK x : decompressed_content' = [decompressed_content EXCEPT !.hasher = x]
      BY <1>7
    <2>4. decompressed_content' = [unread |-> decompressed_content.unread, hasher |-> x]
      <3>1. decompressed_content = [unread |-> decompressed_content.unread, hasher |-> decompressed_content.hasher]
        BY <1>0 DEF Shape
      <3>. QED  BY <2>3, <3>1
    <2>5. /\ decompressed_content'.unread = decompressed_content.unread
          /\ decompressed_content' = [unread |-> decompressed_content'.unread, hasher |-> decompressed_content'.hasher]
      BY <2>4
    <2>6. ASSUME NEW d, IsDecompressor(d) PROVE IsDecompressor(Reset(d)) /\ Reset(d).held = <<>>
      <3>1. PICK a, b, c : d = [name |-> a, need |-> b, held |-> c]
        BY <2>6 DEF IsDecompressor
      <3>2. b \in Nat
        BY <2>6, <3>1 DEF IsDecompressor
      <3>3. Reset(d) = [name |-> a, need |-> b, held |-> <<>>]
        BY <3>1 DEF Reset
      <3>. QED  BY <3>2, <3>3 DEF IsDecompressor
    <2>7. Compressed => IsDecompressor(state.decompressor[1])
      BY <1>4 DEF IsState, Compressed
    <2>8. \A d \in decompressors' : IsDecompressor(d) /\ d.held = <<>>
      <3>1. \A d \in decompressors : IsDecompressor(d) /\ d.held = <<>>
        BY <1>0 DEF Shape
      <3>. HIDE DEF state
      <3>. QED  BY <1>7, <2>6, <2>7, <3>1
    <2>0. file' = file /\ opts' = opts
      BY <1>7 DEF Fails, Continue
    <2>9. Shape' /\ file_data'.start = file_data.start + n
      BY <1>0, <1>4, <1>7, <2>0, <2>1, <2>2, <2>5, <2>8, Advances
    <2>10. Leads(file, i) /\ p + n = Ending(file, i)
      <3>1. file.items[i].k \in {"Chunk", "Contents"}
        BY <1>4 DEF IsChunk
      <3>. QED  BY <1>0, <1>4, <1>5, <3>1 DEF Leads
    <2>11. CASE chunk_state' = None /\ Become("FileRecord") /\ Continue
      <3>1. currently_reading'.at = "FileRecord"
        BY <2>11 DEF Become, At
      <3>2. IsAt(file, p + n, currently_reading', chunk_state', decompressed_content.unread, limit)
        BY <2>10, <2>11, <3>1 DEF IsAt
      <3>3. Placed'
        BY <2>0, <2>5, <2>9, <3>2 DEF Placed, p, limit
      <3>4. Told'
        BY <2>11, ToldPlain DEF Continue, Call
      <3>. QED  BY <2>9, <3>3, <3>4 DEF LinearInv
    <2>12. CASE /\ chunk_state' = Some([state EXCEPT !.decompressor = None,
                                                     !.hasher = IF Compressed THEN @ ELSE None])
                /\ Fails("BadChunkCrc")
                /\ UNCHANGED currently_reading
      <3>1. PICK x1 : chunk_state' = Some([state EXCEPT !.decompressor = None, !.hasher = x1])
        BY <2>12
      <3>2. HasFields(state) /\ state.compressed_remaining \in Nat /\ state.uncompressed_remaining \in Nat
        BY <1>4 DEF IsState
      <3>3. PICK e : e = [state EXCEPT !.decompressor = None]
        OBVIOUS
      <3>4. /\ [e EXCEPT !.hasher = x1].compressed_remaining = state.compressed_remaining
            /\ [e EXCEPT !.hasher = x1].uncompressed_remaining = state.uncompressed_remaining
        BY <3>2, <3>3 DEF HasFields, State
      <3>5. /\ chunk_state'[1].compressed_remaining \in Nat /\ chunk_state'[1].uncompressed_remaining \in Nat
        <4>1. chunk_state'[1] = [e EXCEPT !.hasher = x1]
          BY <3>1, <3>3 DEF Some
        <4>. QED  BY <3>2, <3>4, <4>1
      <3>6. event'.kind = "Err" /\ currently_reading' = currently_reading
        BY <2>12 DEF Fails
      <3>. QED  BY <2>9, <3>5, <3>6, FailsAfter
    <2>. QED  BY <1>7, <2>11, <2>12
  <1>. QED  BY <1>3, <1>6, <1>7

-------------------------------------------------------------------------------
(* The reader as a whole.                                                  *)

\* The first reader is for the data of one chunk, or for a file.
StartsInChunk == file.chunk # None /\ ForChunk(file.chunk[1])

StartsInFile(o) == file.chunk = None /\ New(o, IF o.skip_start_magic THEN 1 ELSE 0)

\* A reader for the data of one chunk starts in it.
LEMMA ForChunkStarts ==
    ASSUME file \in Files, StartsInChunk, event = Call
    PROVE  LinearInv
  <1>. DEFINE h == file.chunk[1]
              state == chunk_state[1]
  <1>1. opts \in OptionType /\ opts.record_length_limit = 1000
    <2>1. opts = ForChunkOptions
      BY DEF StartsInChunk, ForChunk
    <2>2. ForChunkOptions \in OptionType /\ ForChunkOptions.record_length_limit = 1000
      BY DEF ForChunkOptions, OptionType, NoLimit
    <2>. QED  BY <2>1, <2>2
  <1>2. /\ currently_reading.at = "ChunkRecord" /\ at_eof = FALSE /\ decompressors = {}
        /\ file_data = [start |-> 0, end |-> 0, hasher |-> None]
        /\ decompressed_content = [unread |-> <<>>, hasher |-> Some(<<>>)]
        /\ chunk_state = Some(State(IF h.compression = "" THEN None ELSE Some(NewDecompressor(h.compression)),
                                    Some(<<>>), h.compressed_size, h.uncompressed_size, h.uncompressed_size, 0, h.crc))
    BY DEF StartsInChunk, ForChunk, At, State
  <1>3. PICK d : d = IF h.compression = "" THEN None ELSE Some(NewDecompressor(h.compression))
    OBVIOUS
  <1>4. state = State(d, Some(<<>>), h.compressed_size, h.uncompressed_size, h.uncompressed_size, 0, h.crc)
        /\ chunk_state = Some(state)
    BY <1>2, <1>3 DEF Some
  <1>5. Len(file.cells) \in Nat
    BY FilesAssumption DEF FileOK
  <1>6. Shape /\ file_data.start = 0 /\ decompressed_content.unread = <<>>
    <2>1. file_data.start = 0 /\ file_data.end = 0 /\ file_data.hasher = None
      BY <1>2
    <2>2. decompressed_content.unread = <<>> /\ decompressed_content.hasher = Some(<<>>)
      BY <1>2
    <2>3. file_data = [start |-> file_data.start, end |-> file_data.end, hasher |-> file_data.hasher]
      BY <1>2, <2>1
    <2>4. decompressed_content = [unread |-> decompressed_content.unread, hasher |-> decompressed_content.hasher]
      BY <1>2, <2>2
    <2>5. at_eof \in BOOLEAN /\ \A x \in decompressors : IsDecompressor(x) /\ x.held = <<>>
      BY <1>2
    <2>. QED  BY <1>1, <1>5, <2>1, <2>2, <2>3, <2>4, <2>5 DEF Shape
  <1>7. /\ 1 \in DOMAIN file.spans /\ file.items[1].k = "Contents"
        /\ h.compression \in Supported \cup {""}
        /\ ItemOK(file, file.items[1], Begin(file, 1), Ending(file, 1))
    BY <1>6, FileKinds, FileSpans DEF StartsInChunk
  <1>8. Header(file, 1) = h /\ DataFrom(file, 1) = 0
    BY <1>7 DEF Header, DataFrom
  <1>9. h.compressed_size \in Nat /\ h.uncompressed_size \in Nat /\ Ending(file, 1) = h.compressed_size
    BY <1>7 DEF ItemOK, SizesOK
  <1>. HIDE DEF h, state
  <1>10. IsChunk(file, 1)
    <2>1. 0 + h.compressed_size <= Ending(file, 1)
      BY <1>9
    <2>. QED  BY <1>7, <1>8, <2>1 DEF IsChunk
  <1>11. /\ h.compression = "" <=> d = None
         /\ d # None => d = Some(d[1]) /\ IsDecompressor(d[1]) /\ d[1].held = <<>>
    <2>1. CASE h.compression = ""
      BY <1>3, <2>1
    <2>2. CASE h.compression # ""
      <3>1. d = <<NewDecompressor(h.compression)>>
        BY <1>3, <2>2 DEF Some
      <3>2. IsDecompressor(NewDecompressor(h.compression)) /\ NewDecompressor(h.compression).held = <<>>
        BY DEF NewDecompressor, FirstHint, IsDecompressor
      <3>3. d[1] = NewDecompressor(h.compression) /\ d # None
        BY <3>1 DEF None
      <3>. QED  BY <2>2, <3>1, <3>2, <3>3 DEF Some
    <2>. QED  BY <2>1, <2>2
  <1>12. /\ state.decompressor = d /\ state.compressed_remaining = h.compressed_size
         /\ state.uncompressed_remaining = h.uncompressed_size
         /\ state.uncompressed_len = h.uncompressed_size
         /\ state.padding_after_compressed_data = 0 /\ HasFields(state)
    BY <1>4, StateFields
  <1>13. IsState(state)
    <2>1. HasFields(state)
      BY <1>12
    <2>2. state.compressed_remaining \in Nat /\ state.uncompressed_remaining \in Nat
      BY <1>9, <1>12
    <2>3. state.padding_after_compressed_data \in Nat
      BY <1>12
    <2>4. ASSUME state.decompressor # None
          PROVE  state.decompressor = Some(state.decompressor[1]) /\ IsDecompressor(state.decompressor[1])
      <3>1. state.decompressor = d
        BY <1>12
      <3>. QED  BY <1>11, <2>4, <3>1
    <2>. QED  BY <2>1, <2>2, <2>3, <2>4 DEF IsState
  <1>14. Fresh(file, 1, state, 1000)
    <2>1. state.decompressor = None <=> Header(file, 1).compression = ""
      <3>1. state.decompressor = d
        BY <1>12
      <3>. QED  BY <1>8, <1>11, <3>1
    <2>2. ASSUME state.decompressor # None PROVE state.decompressor[1].held = <<>>
      <3>1. state.decompressor = d
        BY <1>12
      <3>. QED  BY <1>11, <2>2, <3>1
    <2>3. /\ state.uncompressed_len = Header(file, 1).uncompressed_size
          /\ state.compressed_remaining = Header(file, 1).compressed_size
          /\ state.uncompressed_remaining = Header(file, 1).uncompressed_size
      BY <1>8, <1>12
    <2>4. state.padding_after_compressed_data = 0
      BY <1>12
    <2>5. 0 + Header(file, 1).compressed_size + 0 = Ending(file, 1)
      <3>1. Header(file, 1).compressed_size = h.compressed_size
        BY <1>8
      <3>2. PICK c \in Nat : c = h.compressed_size
        BY <1>9
      <3>3. 0 + c + 0 = c
        OBVIOUS
      <3>. QED  BY <1>9, <3>1, <3>2, <3>3
    <2>6. state.padding_after_compressed_data <= 1000
      BY <2>4
    <2>7. DataFrom(file, 1) + Header(file, 1).compressed_size + state.padding_after_compressed_data = Ending(file, 1)
      BY <1>8, <2>4, <2>5
    <2>. QED  BY <2>1, <2>2, <2>3, <2>6, <2>7 DEF Fresh
  <1>15. InChunk(file, 1, 0, state, <<>>, "ChunkRecord", 1000)
    <2>1. 1000 \in Nat /\ "ChunkRecord" \in {"ValidatingChunkCrc", "ChunkRecord"}
      OBVIOUS
    <2>2. Shape /\ 1 \in DOMAIN file.spans /\ DataFrom(file, 1) = 0
      BY <1>6, <1>7, <1>8
    <2>3. InChunk(file, 1, DataFrom(file, 1), state, <<>>, "ChunkRecord", 1000)
      BY <1>10, <1>13, <1>14, <2>1, <2>2, ChunkEntered
    <2>. QED  BY <2>2, <2>3
  <1>16. Placed
    <2>1. chunk_state = Some(chunk_state[1]) /\ chunk_state[1] = state
      BY <1>4 DEF state
    <2>2. currently_reading.at = "ChunkRecord" /\ 1 \in DOMAIN file.spans
      BY <1>2, <1>7
    <2>3. InChunk(file, 1, 0, chunk_state[1], <<>>, currently_reading.at, 1000)
      BY <1>15, <2>1, <2>2
    <2>4. IsAt(file, 0, currently_reading, chunk_state, <<>>, 1000)
      BY <2>1, <2>2, <2>3 DEF IsAt
    <2>5. file_data.start = 0 /\ decompressed_content.unread = <<>> /\ opts.record_length_limit = 1000
      BY <1>1, <1>6
    <2>. QED  BY <2>4, <2>5 DEF Placed
  <1>17. Told
    BY DEF Told, Call
  <1>. QED  BY <1>6, <1>16, <1>17 DEF LinearInv

\* A reader for a file starts before the magic, or after it.
LEMMA NewStarts ==
    ASSUME file \in Files, NEW o \in Options, StartsInFile(o), event = Call
    PROVE  LinearInv
  <1>. DEFINE from == IF o.skip_start_magic THEN 1 ELSE 0
  <1>1. /\ opts \in OptionType /\ opts = o /\ chunk_state = None /\ at_eof = FALSE /\ decompressors = {}
        /\ currently_reading.at = IF o.skip_start_magic THEN "FileRecord" ELSE "StartMagic"
    BY LinearReaderAssumption DEF StartsInFile, New, NewCurrentlyReading, At
  <1>2. file_data = [start |-> from, end |-> from, hasher |-> file_data.hasher]
    BY DEF StartsInFile, New, NewFileData
  <1>3. decompressed_content = [unread |-> <<>>, hasher |-> decompressed_content.hasher]
    BY DEF StartsInFile, New, NewDecompressedContent
  <1>4. Len(file.cells) \in Nat /\ Len(file.cells) >= 1
    BY FilesAssumption DEF StartsInFile, FileOK
  <1>5. from \in {0, 1}
    OBVIOUS
  <1>6. Shape /\ file_data.start = from
    <2>. HIDE DEF from
    <2>1. file_data.start = from /\ file_data.end = from
      BY <1>2
    <2>2. decompressed_content.unread = <<>>
      BY <1>3
    <2>3. file_data = [start |-> file_data.start, end |-> file_data.end, hasher |-> file_data.hasher]
      BY <1>2, <2>1
    <2>4. decompressed_content = [unread |-> decompressed_content.unread, hasher |-> decompressed_content.hasher]
      BY <1>3, <2>2
    <2>5. at_eof \in BOOLEAN /\ \A x \in decompressors : IsDecompressor(x) /\ x.held = <<>>
      BY <1>1
    <2>. QED  BY <1>1, <1>4, <1>5, <2>1, <2>3, <2>4, <2>5 DEF Shape
  <1>7. 1 \in DOMAIN file.spans /\ Ending(file, 1) = 1 /\ Leads(file, 1)
    BY <1>6, FileSpans, FileKinds DEF Leads, StartsInFile
  <1>8. Placed
    <2>1. CASE o.skip_start_magic
      BY <1>1, <1>6, <1>7, <2>1 DEF Placed, IsAt
    <2>2. CASE ~o.skip_start_magic
      BY <1>1, <1>6, <2>2 DEF Placed, IsAt, StartsInFile
    <2>. QED  BY <2>1, <2>2
  <1>9. Told
    BY DEF Told, Call
  <1>. QED  BY <1>6, <1>8, <1>9 DEF LinearInv

\* The inductive invariant, of every reader and every client: the reader is in
\* its place, or it has returned an error and the client has stopped.
THEOREM LinearInvariant == Spec => [](LinearInv \/ Failed)
  <1>1. Init => LinearInv
    BY ForChunkStarts, NewStarts DEF Init, StartsInChunk, StartsInFile
  <1>2. LinearInv /\ [Next]_vars => LinearInv' \/ Failed'
    <2>. SUFFICES ASSUME LinearInv, [Next]_vars PROVE LinearInv' \/ Failed'
      OBVIOUS
    <2>1. CASE NextEvent
      BY <2>1, EofKeeps, StartMagicKeeps, FileRecordKeeps, DataEndKeeps, FooterKeeps, EndMagicKeeps,
         AfterEndMagicKeeps, ChunkHeaderKeeps, ValidatingUncompressedKeeps, ValidatingCompressedKeeps,
         UncompressedRecordKeeps, CompressedRecordKeeps, PaddingAfterChunkKeeps DEF NextEvent
    <2>2. CASE TakeRecord
      BY <2>2, TakeRecordKeeps
    <2>3. ASSUME NEW n \in 0..(Len(file.cells) + 1), Read(n) PROVE LinearInv'
      <3>1. n \in Nat
        OBVIOUS
      <3>. QED  BY <2>3, <3>1, ReadKeeps
    <2>4. CASE UNCHANGED vars
      <3>1. /\ UNCHANGED <<file, opts, reader>> /\ event' = event /\ file_data' = file_data /\ opts' = opts
            /\ file' = file /\ currently_reading' = currently_reading /\ chunk_state' = chunk_state
        BY <2>4 DEF vars, reader
      <3>2. Shape' /\ Placed'
        BY <3>1, ReaderKept DEF LinearInv
      <3>3. Told'
        BY <3>1 DEF LinearInv, Told, Have, Permitted, Compressed, Plain
      <3>. QED  BY <3>2, <3>3 DEF LinearInv
    <2>. QED  BY <2>1, <2>2, <2>3, <2>4 DEF Next
  <1>3. Failed /\ [Next]_vars => Failed'
    <2>. SUFFICES ASSUME Failed, [Next]_vars PROVE Failed'
      OBVIOUS
    <2>1. event.kind = "Err"
      BY DEF Failed
    <2>0. event # Call
      BY <2>1 DEF Call
    <2>2. ~NextEvent
      BY <2>0 DEF NextEvent, Eof, StartMagic, FileRecord, DataEnd, Footer, EndMagic, AfterEndMagic,
         ChunkHeader, ValidatingUncompressed, ValidatingCompressed, UncompressedRecord,
         CompressedRecord, PaddingAfterChunk, Reading
    <2>3. ~TakeRecord /\ \A n : ~Read(n)
      BY <2>1 DEF TakeRecord, Read
    <2>4. UNCHANGED vars
      BY <2>2, <2>3 DEF Next
    <2>5. /\ event' = event /\ file_data' = file_data /\ file' = file /\ at_eof' = at_eof
          /\ currently_reading' = currently_reading /\ chunk_state' = chunk_state
      BY <2>4 DEF vars, reader
    <2>. QED  BY <2>5 DEF Failed, TypeOK
  <1>. QED  BY <1>1, <1>2, <1>3, PTL DEF Spec

\* The end of the chunk at hand is the end of the item the reader is in.
LEMMA ChunkEndIs ==
    ASSUME Shape, NEW i \in DOMAIN file.spans, file.chunk # None \/ Begin(file, i) < file_data.start,
           file_data.start <= Ending(file, i)
    PROVE  ChunkEnd = Ending(file, i)
  <1>. DEFINE Has(j) == \/ file.chunk # None
                        \/ file.spans[j][1] < file_data.start /\ file_data.start <= file.spans[j][2]
  <1>0. /\ \A j \in DOMAIN file.spans : Begin(file, j) \in Nat /\ Ending(file, j) \in Nat
        /\ \A j, k \in DOMAIN file.spans : j < k => Ending(file, j) <= Begin(file, k)
        /\ DOMAIN file.spans = 1..Len(file.items) /\ Len(file.items) \in Nat
        /\ file_data.start \in Nat
    BY FileSpans DEF Shape
  <1>1. Has(i)
    BY DEF Begin, Ending
  <1>2. \A j \in DOMAIN file.spans : Has(j) => j = i
    <2>1. CASE file.chunk # None
      <3>1. DOMAIN file.spans = {1}
        BY <2>1, FileKinds
      <3>. QED  BY <3>1
    <2>2. CASE file.chunk = None
      <3>. SUFFICES ASSUME NEW j \in DOMAIN file.spans, Has(j), j # i PROVE FALSE
        OBVIOUS
      <3>1. Begin(file, j) < file_data.start /\ file_data.start <= Ending(file, j)
        BY <2>2 DEF Begin, Ending
      <3>2. Begin(file, i) < file_data.start
        BY <2>2
      <3>3. CASE j < i
        <4>1. Ending(file, j) <= Begin(file, i)
          BY <1>0, <3>3
        <4>. QED  BY <1>0, <3>1, <3>2, <4>1
      <3>4. CASE i < j
        <4>1. Ending(file, i) <= Begin(file, j)
          BY <1>0, <3>4
        <4>. QED  BY <1>0, <3>1, <4>1
      <3>5. i \in Int /\ j \in Int
        BY <1>0
      <3>. QED  BY <3>3, <3>4, <3>5
    <2>. QED  BY <2>1, <2>2
  <1>3. ChunkEnd = file.spans[CHOOSE j \in DOMAIN file.spans : Has(j)][2]
    BY DEF ChunkEnd
  <1>. HIDE DEF Has
  <1>4. (CHOOSE j \in DOMAIN file.spans : Has(j)) = i
    BY <1>1, <1>2
  <1>. QED  BY <1>3, <1>4 DEF Ending

\* The reader never loses its place: whatever the file, the options and the
\* client's reads, its counters are in range, and in a chunk what it has
\* consumed, what remains and what it will skip make up the chunk (the states
\* ChunkRecord and PaddingAfterChunk of next_event() and decompress_inner() take
\* turns to change them).  After an error only its counters' ranges are claimed.
THEOREM ReaderKeepsItsPlace == Spec => []ChunkConsistent
  <1>1. LinearInv => ChunkConsistent
    <2>. SUFFICES ASSUME LinearInv PROVE ChunkConsistent
      OBVIOUS
    <2>0. /\ Shape /\ file_data.start \in Nat /\ file_data.end \in Nat /\ file_data.start <= file_data.end
          /\ file_data.end <= Len(file.cells) /\ at_eof \in BOOLEAN
      BY DEF LinearInv, Shape
    <2>1. ASSUME chunk_state # None
          PROVE  /\ chunk_state[1].compressed_remaining \in Nat /\ chunk_state[1].uncompressed_remaining \in Nat
                 /\ file_data.start + chunk_state[1].compressed_remaining
                      + chunk_state[1].padding_after_compressed_data = ChunkEnd
      <3>. DEFINE state == chunk_state[1]
      <3>1. currently_reading.at \in {"ValidatingChunkCrc", "ChunkRecord", "PaddingAfterChunk"}
        BY <2>1 DEF LinearInv, Placed, IsAt
      <3>2. PICK i \in DOMAIN file.spans :
                InChunk(file, i, file_data.start, state, decompressed_content.unread,
                        currently_reading.at, opts.record_length_limit)
        BY <3>1, ChunkThere
      <3>. HIDE DEF state
      <3>3. /\ state.compressed_remaining \in Nat /\ state.uncompressed_remaining \in Nat
            /\ state.padding_after_compressed_data \in Nat
            /\ file_data.start + state.compressed_remaining + state.padding_after_compressed_data = Ending(file, i)
        BY <2>0, <3>2, InChunkFacts
      <3>4. file.chunk # None \/ Begin(file, i) < file_data.start
        <4>1. Begin(file, i) < file_data.start \/ file.items[i].k = "Contents"
          BY <3>2 DEF InChunk
        <4>. QED  BY <2>0, <4>1, FileKinds
      <3>5. file_data.start <= Ending(file, i)
        BY <2>0, <3>3
      <3>6. ChunkEnd = Ending(file, i)
        BY <2>0, <3>4, <3>5, ChunkEndIs
      <3>. QED  BY <3>3, <3>6 DEF state
    <2>2. currently_reading.at \in
            {"StartMagic", "FileRecord", "DataEnd", "Footer", "ChunkHeader",
             "ValidatingChunkCrc", "ChunkRecord", "PaddingAfterChunk", "EndMagic", "AfterEndMagic"}
      BY DEF LinearInv, Placed, IsAt
    <2>3. /\ event.kind \in {"Call", "ReadRequest", "Record", "None", "Err"}
          /\ event.kind = "ReadRequest" => event.n \in Nat \ {0}
      BY DEF LinearInv, Told
    <2>4. file_data.start \in 0..file_data.end
      BY <2>0
    <2>5. TypeOK
      BY <2>0, <2>1, <2>2, <2>3, <2>4 DEF TypeOK
    <2>6. ChunkAccounting
      BY <2>1 DEF ChunkAccounting
    <2>. QED  BY <2>5, <2>6 DEF ChunkConsistent
  <1>2. Failed => ChunkConsistent
    BY DEF Failed, ChunkConsistent, ChunkAccounting
  <1>. QED  BY <1>1, <1>2, LinearInvariant, PTL

\* Whatever the file says, a request of next_event() makes the buffer grow to no
\* more than the record_length_limit allows, but for two: the whole of a chunk's
\* compression string, whose length no check_len looks at, and what a decompressor
\* says that it would like to have.
THEOREM RequestsStayBounded == Spec => []RequestsBounded
  <1>1. LinearInv => RequestsBounded
    BY DEF LinearInv, Told, RequestsBounded
  <1>2. Failed => RequestsBounded
    BY DEF Failed, RequestsBounded
  <1>. QED  BY <1>1, <1>2, LinearInvariant, PTL
===============================================================================
