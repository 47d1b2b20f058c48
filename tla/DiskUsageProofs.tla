---------------------------- MODULE DiskUsageProofs ----------------------------
(***************************************************************************)
(* Whatever the worker threads of `mcap du` do and in whatever order, no   *)
(* chunk is lost, none is counted twice, and the figures are those of one  *)
(* thread: for every file, any number of chunks and of threads.            *)
(***************************************************************************)
EXTENDS DiskUsageProperties, SequenceFacts

AnyOf(c, n) == TRUE

Adding == INSTANCE Induction WITH Holds <- AnyOf, Step <- Add
Summing == INSTANCE Induction WITH Holds <- AnyOf, Step <- AddSizes
Scanning == INSTANCE Induction WITH Holds <- AnyOf, Step <- ScanRecord
ScanningFile == INSTANCE Induction WITH Holds <- AnyOf, Step <- ScanTopLevel
Listing == INSTANCE Induction WITH Holds <- AnyOf, Step <- EntriesOf

-------------------------------------------------------------------------------
(* Loops.                                                                  *)

\* The turns of the loop of Sum.
LEMMA SumTurns ==
    ASSUME NEW s, Len(s) \in Nat
    PROVE  \E f : /\ Sum(s) = f[Len(s)] /\ f[0] = 0
                  /\ \A i \in 1..Len(s) : f[i] = f[i - 1] + s[i]
  <1>1. Sum(s) = Adding!Loop(0, s)
    BY DEF Sum, Through, Adding!Loop
  <1>2. PICK f : Adding!Turns(f, 0, s)
    BY Adding!LoopTurns
  <1>. QED  BY <1>1, <1>2 DEF Adding!Turns, Add

\* The turns of the loop over the sizes of the chunks or of the threads.
LEMMA AddSizesTurns ==
    ASSUME NEW s, Len(s) \in Nat
    PROVE  \E f : /\ Through(AddSizes, NoSizes, s) = f[Len(s)] /\ f[0] = NoSizes
                  /\ \A i \in 1..Len(s) : f[i] = AddSizes(f[i - 1], s[i])
  <1>1. Through(AddSizes, NoSizes, s) = Summing!Loop(NoSizes, s)
    BY DEF Through, Summing!Loop
  <1>2. PICK f : Summing!Turns(f, NoSizes, s)
    BY Summing!LoopTurns
  <1>. QED  BY <1>1, <1>2 DEF Summing!Turns

-------------------------------------------------------------------------------
(* Sums.                                                                   *)

\* A function on 1..n, which is a sequence.
OfLength(s, n) == n \in Nat /\ s = [i \in 1..n |-> s[i]]

\* Such a function has that length and that domain.
LEMMA OfLengthFacts ==
    ASSUME NEW s, NEW n, OfLength(s, n)
    PROVE  IsSeq(s) /\ Len(s) = n /\ DOMAIN s = 1..n
  <1>1. DOMAIN s = 1..n
    BY DEF OfLength
  <1>. QED  BY <1>1, FunctionIsSeq DEF OfLength

\* Every sequence is a function on 1..Len.
LEMMA SeqOfLength ==
    ASSUME NEW s, IsSeq(s)
    PROVE  OfLength(s, Len(s))
  BY DEF OfLength, IsSeq

\* A sum of naturals is a natural, and at most the length if no element is above 1.
LEMMA SumType ==
    ASSUME NEW s, NEW n, OfLength(s, n), \A i \in 1..n : s[i] \in Nat
    PROVE  Sum(s) \in Nat /\ ((\A i \in 1..n : s[i] <= 1) => Sum(s) <= n)
  <1>0. Len(s) = n /\ n \in Nat
    BY OfLengthFacts DEF OfLength
  <1>1. PICK f : Sum(s) = f[n] /\ f[0] = 0 /\ \A i \in 1..n : f[i] = f[i - 1] + s[i]
    BY <1>0, SumTurns
  <1>. DEFINE T == {m \in Nat : m <= n => /\ f[m] \in Nat
                                          /\ (\A i \in 1..n : s[i] <= 1) => f[m] <= m}
  <1>2. 0 \in T
    BY <1>1
  <1>3. ASSUME NEW m \in Nat, m \in T PROVE m + 1 \in T
    <2>. SUFFICES ASSUME m + 1 <= n
                  PROVE  f[m + 1] \in Nat /\ ((\A i \in 1..n : s[i] <= 1) => f[m + 1] <= m + 1)
      OBVIOUS
    <2>1. m + 1 \in 1..n /\ (m + 1) - 1 = m /\ m <= n
      BY <1>0
    <2>2. f[m + 1] = f[m] + s[m + 1] /\ s[m + 1] \in Nat
      BY <1>1, <2>1
    <2>3. f[m] \in Nat /\ ((\A i \in 1..n : s[i] <= 1) => f[m] <= m)
      BY <1>3, <2>1
    <2>. QED  BY <2>1, <2>2, <2>3
  <1>. HIDE DEF T
  <1>4. n \in T
    BY <1>0, <1>2, <1>3, SetInduction
  <1>. QED  BY <1>0, <1>1, <1>4 DEF T

\* Changing one element changes the sum by as much.
LEMMA SumChange ==
    ASSUME NEW s, NEW t, NEW n, OfLength(s, n), OfLength(t, n), NEW k \in 1..n,
           \A i \in 1..n : s[i] \in Int /\ t[i] \in Int,
           \A i \in 1..n : i # k => t[i] = s[i]
    PROVE  Sum(t) = Sum(s) + t[k] - s[k] /\ Sum(s) \in Int
  <1>0. Len(s) = n /\ Len(t) = n /\ n \in Nat /\ Len(s) \in Nat /\ Len(t) \in Nat
    BY OfLengthFacts DEF OfLength
  <1>1. PICK f : Sum(s) = f[Len(s)] /\ f[0] = 0 /\ \A i \in 1..Len(s) : f[i] = f[i - 1] + s[i]
    BY <1>0, SumTurns
  <1>2. PICK g : Sum(t) = g[Len(t)] /\ g[0] = 0 /\ \A i \in 1..Len(t) : g[i] = g[i - 1] + t[i]
    BY <1>0, SumTurns
  <1>. DEFINE T == {m \in Nat : m <= n => /\ f[m] \in Int
                                          /\ g[m] = f[m] + (IF m < k THEN 0 ELSE t[k] - s[k])}
  <1>3. 0 \in T
    BY <1>1, <1>2
  <1>4. ASSUME NEW m \in Nat, m \in T PROVE m + 1 \in T
    <2>. SUFFICES ASSUME m + 1 <= n
                  PROVE  /\ f[m + 1] \in Int
                         /\ g[m + 1] = f[m + 1] + (IF m + 1 < k THEN 0 ELSE t[k] - s[k])
      OBVIOUS
    <2>1. m + 1 \in 1..n /\ (m + 1) - 1 = m /\ m <= n
      BY <1>0
    <2>2. f[m + 1] = f[m] + s[m + 1] /\ g[m + 1] = g[m] + t[m + 1] /\ s[m + 1] \in Int /\ t[m + 1] \in Int
      BY <1>0, <1>1, <1>2, <2>1
    <2>3. f[m] \in Int /\ g[m] = f[m] + (IF m < k THEN 0 ELSE t[k] - s[k]) /\ t[k] \in Int /\ s[k] \in Int
      BY <1>4, <2>1
    <2>4. CASE m + 1 = k
      BY <2>2, <2>3, <2>4
    <2>5. CASE m + 1 # k
      <3>1. t[m + 1] = s[m + 1]
        BY <2>1, <2>5
      <3>2. m < k <=> m + 1 < k
        BY <2>5
      <3>. QED  BY <2>2, <2>3, <3>1, <3>2
    <2>. QED  BY <2>4, <2>5
  <1>. HIDE DEF T
  <1>5. n \in T
    BY <1>0, <1>3, <1>4, SetInduction
  <1>6. ~(n < k) /\ t[k] \in Int /\ s[k] \in Int
    BY <1>0
  <1>. QED  BY <1>0, <1>1, <1>2, <1>5, <1>6 DEF T

\* The sum of a sequence with one element more.
LEMMA SumAppend ==
    ASSUME NEW s, NEW t, NEW n, OfLength(s, n), OfLength(t, n + 1),
           \A i \in 1..n : t[i] = s[i]
    PROVE  Sum(t) = Sum(s) + t[n + 1]
  <1>0. Len(s) = n /\ Len(t) = n + 1 /\ n \in Nat
    BY OfLengthFacts DEF OfLength
  <1>1. PICK f : Sum(s) = f[n] /\ f[0] = 0 /\ \A i \in 1..n : f[i] = f[i - 1] + s[i]
    BY <1>0, SumTurns
  <1>2. PICK g : Sum(t) = g[n + 1] /\ g[0] = 0 /\ \A i \in 1..(n + 1) : g[i] = g[i - 1] + t[i]
    BY <1>0, SumTurns
  <1>. DEFINE T == {m \in Nat : m <= n => g[m] = f[m]}
  <1>3. 0 \in T
    BY <1>1, <1>2
  <1>4. ASSUME NEW m \in Nat, m \in T PROVE m + 1 \in T
    <2>. SUFFICES ASSUME m + 1 <= n PROVE g[m + 1] = f[m + 1]
      OBVIOUS
    <2>1. m + 1 \in 1..n /\ m + 1 \in 1..(n + 1) /\ (m + 1) - 1 = m /\ m <= n
      BY <1>0
    <2>2. f[m + 1] = f[m] + s[m + 1] /\ g[m + 1] = g[m] + t[m + 1] /\ t[m + 1] = s[m + 1]
      BY <1>1, <1>2, <2>1
    <2>3. g[m] = f[m]
      BY <1>4, <2>1
    <2>. QED  BY <2>2, <2>3
  <1>. HIDE DEF T
  <1>5. n \in T
    BY <1>0, <1>3, <1>4, SetInduction
  <1>6. g[n] = f[n] /\ n + 1 \in 1..(n + 1) /\ (n + 1) - 1 = n
    BY <1>0, <1>5 DEF T
  <1>. QED  BY <1>1, <1>2, <1>6

\* A sum of zeros.
LEMMA SumZeros ==
    ASSUME NEW s, NEW n, OfLength(s, n), \A i \in 1..n : s[i] = 0
    PROVE  Sum(s) = 0
  <1>0. Len(s) = n /\ n \in Nat
    BY OfLengthFacts DEF OfLength
  <1>1. PICK f : Sum(s) = f[n] /\ f[0] = 0 /\ \A i \in 1..n : f[i] = f[i - 1] + s[i]
    BY <1>0, SumTurns
  <1>. DEFINE T == {m \in Nat : m <= n => f[m] = 0}
  <1>2. 0 \in T
    BY <1>1
  <1>3. ASSUME NEW m \in Nat, m \in T PROVE m + 1 \in T
    <2>. SUFFICES ASSUME m + 1 <= n PROVE f[m + 1] = 0
      OBVIOUS
    <2>1. m + 1 \in 1..n /\ (m + 1) - 1 = m /\ m <= n
      BY <1>0
    <2>. QED  BY <1>1, <1>3, <2>1
  <1>. HIDE DEF T
  <1>4. n \in T
    BY <1>0, <1>2, <1>3, SetInduction
  <1>. QED  BY <1>0, <1>1, <1>4 DEF T

-------------------------------------------------------------------------------
(* Sizes by topic.                                                         *)

SizeMap(m) == m = [k \in DOMAIN m |-> m[k]] /\ \A k \in DOMAIN m : m[k] \in Nat

SizesOK(x) == x = Sizes(x.topics, x.total, x.error) /\ SizeMap(x.topics) /\ x.total \in Nat

\* A size is a natural number, and 0 for a topic not seen.
LEMMA AtType ==
    ASSUME NEW m, SizeMap(m), NEW t
    PROVE  At(m, t) \in Nat
  BY DEF SizeMap, At, Known

\* No sizes at all.
LEMMA EmptySizes ==
    SizeMap(<<>>) /\ DOMAIN <<>> = {} /\ SizesOK(NoSizes) /\ NoSizes.error = "none"
    /\ NoSizes.topics = <<>> /\ NoSizes.total = 0
  <1>1. <<>> = [k \in {} |-> <<>>[k]] /\ DOMAIN <<>> = {}
    OBVIOUS
  <1>2. SizeMap(<<>>)
    BY <1>1 DEF SizeMap
  <1>3. NoSizes = [topics |-> <<>>, total |-> 0, error |-> "none"]
    BY DEF NoSizes, Sizes
  <1>. QED  BY <1>1, <1>2, <1>3 DEF SizesOK, Sizes

\* Merging adds up the sizes topic by topic.
LEMMA MergedFacts ==
    ASSUME NEW a, NEW b, SizeMap(a), SizeMap(b)
    PROVE  /\ SizeMap(Merged(a, b)) /\ DOMAIN Merged(a, b) = DOMAIN a \cup DOMAIN b
           /\ \A t : At(Merged(a, b), t) = At(a, t) + At(b, t)
  <1>1. \A t : At(a, t) \in Nat /\ At(b, t) \in Nat
    BY AtType
  <1>. DEFINE D == DOMAIN a \cup DOMAIN b
              m == [key \in D |-> At(a, key) + At(b, key)]
  <1>2. Merged(a, b) = m
    BY DEF Merged
  <1>3. DOMAIN m = D /\ \A key \in D : m[key] = At(a, key) + At(b, key)
    OBVIOUS
  <1>4. m = [k \in DOMAIN m |-> m[k]]
    OBVIOUS
  <1>. HIDE DEF m
  <1>5. SizeMap(m)
    BY <1>1, <1>3, <1>4 DEF SizeMap
  <1>6. ASSUME NEW t PROVE At(m, t) = At(a, t) + At(b, t)
    <2>1. CASE t \in D
      BY <2>1, <1>3 DEF At, Known
    <2>2. CASE t \notin D
      BY <2>2, <1>3 DEF At, Known
    <2>. QED  BY <2>1, <2>2
  <1>. QED  BY <1>2, <1>3, <1>5, <1>6

\* The same without the sizes, and for one topic.
LEMMA MergedType ==
    ASSUME NEW a, NEW b, SizeMap(a), SizeMap(b)
    PROVE  SizeMap(Merged(a, b)) /\ DOMAIN Merged(a, b) = DOMAIN a \cup DOMAIN b
  BY MergedFacts

\* Merging adds what the two maps hold of a topic.
LEMMA MergedAt ==
    ASSUME NEW a, NEW b, SizeMap(a), SizeMap(b), NEW t
    PROVE  At(Merged(a, b), t) = At(a, t) + At(b, t) /\ At(a, t) \in Nat /\ At(b, t) \in Nat
  BY MergedFacts, AtType

\* Adding the size of one message.
LEMMA PlusFacts ==
    ASSUME NEW m, SizeMap(m), NEW key, NEW n \in Nat
    PROVE  SizeMap(Plus(m, key, n))
  <1>. DEFINE D == DOMAIN m \cup {key}
              p == [k \in D |-> IF k = key THEN At(m, key) + n ELSE m[k]]
  <1>1. Plus(m, key, n) = p
    BY DEF Plus, With
  <1>2. DOMAIN p = D /\ p = [k \in DOMAIN p |-> p[k]] /\ \A k \in D : p[k] = IF k = key THEN At(m, key) + n ELSE m[k]
    OBVIOUS
  <1>. HIDE DEF p
  <1>3. At(m, key) \in Nat
    BY AtType
  <1>4. ASSUME NEW k \in D PROVE p[k] \in Nat
    BY <1>2, <1>3 DEF SizeMap
  <1>. QED  BY <1>1, <1>2, <1>4 DEF SizeMap

\* One turn of adding up.
LEMMA AddSizesFacts ==
    ASSUME NEW s, NEW x, SizesOK(s), SizesOK(x)
    PROVE  /\ SizesOK(AddSizes(s, x))
           /\ s.error = "none" =>
                /\ AddSizes(s, x).topics = Merged(s.topics, x.topics)
                /\ AddSizes(s, x).total = s.total + x.total
                /\ AddSizes(s, x).error = x.error
  <1>1. CASE s.error # "none"
    BY <1>1 DEF AddSizes
  <1>2. CASE s.error = "none"
    <2>1. AddSizes(s, x) = [topics |-> Merged(s.topics, x.topics), total |-> s.total + x.total, error |-> x.error]
      BY <1>2 DEF AddSizes, Sizes
    <2>0. SizeMap(s.topics) /\ SizeMap(x.topics) /\ s.total \in Nat /\ x.total \in Nat
      BY DEF SizesOK
    <2>2. SizeMap(Merged(s.topics, x.topics))
      BY <2>0, MergedType
    <2>3. s.total + x.total \in Nat
      BY <2>0
    <2>. QED  BY <2>1, <2>2, <2>3 DEF SizesOK, Sizes
  <1>. QED  BY <1>1, <1>2

\* The sizes of one topic, and the totals, of a sequence of sizes.
TopicSizes(s, t) == [i \in DOMAIN s |-> At(s[i].topics, t)]
Totals(s) == [i \in DOMAIN s |-> s[i].total]

\* What adding up a sequence of sizes without errors gives.
LEMMA AddedUp ==
    ASSUME NEW s, NEW n, OfLength(s, n), \A i \in 1..n : SizesOK(s[i])
    PROVE  LET r == Through(AddSizes, NoSizes, s) IN
           /\ SizesOK(r)
           /\ (\A i \in 1..n : s[i].error = "none") =>
                /\ DOMAIN r.topics = UNION {DOMAIN s[i].topics : i \in 1..n}
                /\ r.total = Sum(Totals(s))
                /\ \A t : At(r.topics, t) = Sum(TopicSizes(s, t))
  <1>0. Len(s) = n /\ n \in Nat /\ DOMAIN s = 1..n
    BY OfLengthFacts DEF OfLength
  <1>1. PICK f : /\ Through(AddSizes, NoSizes, s) = f[Len(s)] /\ f[0] = NoSizes
                 /\ \A i \in 1..Len(s) : f[i] = AddSizes(f[i - 1], s[i])
    BY <1>0, AddSizesTurns
  <1>. DEFINE T == {m \in Nat : m <= n => SizesOK(f[m])}
  <1>2. 0 \in T
    BY <1>1, EmptySizes
  <1>3. ASSUME NEW m \in Nat, m \in T PROVE m + 1 \in T
    <2>. SUFFICES ASSUME m + 1 <= n PROVE SizesOK(f[m + 1])
      OBVIOUS
    <2>1. m + 1 \in 1..n /\ (m + 1) - 1 = m /\ m <= n
      BY <1>0
    <2>2. f[m + 1] = AddSizes(f[m], s[m + 1]) /\ SizesOK(s[m + 1]) /\ SizesOK(f[m])
      BY <1>0, <1>1, <1>3, <2>1
    <2>. QED  BY <2>2, AddSizesFacts
  <1>4. Nat \subseteq T
    <2>. HIDE DEF T
    <2>. QED  BY <1>2, <1>3, SetInduction
  <1>5. \A m \in 0..n : SizesOK(f[m])
    BY <1>0, <1>4
  <1>. HIDE DEF T
  <1>6. ASSUME \A i \in 1..n : s[i].error = "none"
        PROVE  /\ DOMAIN f[n].topics = UNION {DOMAIN s[i].topics : i \in 1..n}
               /\ f[n].total = Sum(Totals(s))
               /\ \A t : At(f[n].topics, t) = Sum(TopicSizes(s, t))
    <2>. DEFINE U == {m \in Nat : m <= n =>
                        /\ f[m].error = "none"
                        /\ DOMAIN f[m].topics = UNION {DOMAIN s[i].topics : i \in 1..m}}
    <2>1. 0 \in U
      <3>1. UNION {DOMAIN s[i].topics : i \in 1..0} = {}
        OBVIOUS
      <3>. QED  BY <1>1, <3>1, EmptySizes
    <2>2. ASSUME NEW m \in Nat, m + 1 <= n, f[m].error = "none"
          PROVE  /\ f[m + 1].topics = Merged(f[m].topics, s[m + 1].topics)
                 /\ f[m + 1].total = f[m].total + s[m + 1].total
                 /\ f[m + 1].error = "none"
                 /\ SizeMap(f[m].topics) /\ SizeMap(s[m + 1].topics) /\ m <= n /\ m + 1 \in 1..n
      <3>1. m + 1 \in 1..n /\ (m + 1) - 1 = m /\ m <= n /\ m \in 0..n
        BY <1>0, <2>2
      <3>2. f[m + 1] = AddSizes(f[m], s[m + 1]) /\ SizesOK(s[m + 1]) /\ SizesOK(f[m])
        BY <1>0, <1>1, <1>5, <3>1
      <3>3. s[m + 1].error = "none"
        BY <1>6, <3>1
      <3>. QED  BY <2>2, <3>1, <3>2, <3>3, AddSizesFacts DEF SizesOK
    <2>3. ASSUME NEW m \in Nat, m \in U PROVE m + 1 \in U
      <3>. SUFFICES ASSUME m + 1 <= n
                    PROVE  /\ f[m + 1].error = "none"
                           /\ DOMAIN f[m + 1].topics = UNION {DOMAIN s[i].topics : i \in 1..(m + 1)}
        OBVIOUS
      <3>1. m <= n /\ f[m].error = "none" /\ DOMAIN f[m].topics = UNION {DOMAIN s[i].topics : i \in 1..m}
        BY <1>0, <2>3
      <3>2. /\ f[m + 1].topics = Merged(f[m].topics, s[m + 1].topics) /\ f[m + 1].error = "none"
            /\ SizeMap(f[m].topics) /\ SizeMap(s[m + 1].topics)
        BY <2>2, <3>1
      <3>3. DOMAIN f[m + 1].topics = DOMAIN f[m].topics \cup DOMAIN s[m + 1].topics
        BY <3>2, MergedType
      <3>4. 1..(m + 1) = (1..m) \cup {m + 1}
        OBVIOUS
      <3>. QED  BY <3>1, <3>2, <3>3, <3>4
    <2>4. Nat \subseteq U
      <3>. HIDE DEF U
      <3>. QED  BY <2>1, <2>3, SetInduction
    <2>5. /\ \A m \in 0..n : f[m].error = "none"
          /\ DOMAIN f[n].topics = UNION {DOMAIN s[i].topics : i \in 1..n}
      BY <1>0, <2>4
    <2>. HIDE DEF U
    <2>6. f[n].total = Sum(Totals(s))
      <3>. DEFINE q == Totals(s)
      <3>1. q = [i \in 1..n |-> s[i].total]
        BY <1>0 DEF Totals
      <3>2. OfLength(q, n) /\ \A i \in 1..n : q[i] = s[i].total
        BY <1>0, <3>1 DEF OfLength
      <3>. HIDE DEF q
      <3>3. Len(q) = n /\ Len(q) \in Nat
        BY <1>0, <3>2, OfLengthFacts
      <3>4. PICK g : Sum(q) = g[Len(q)] /\ g[0] = 0 /\ \A i \in 1..Len(q) : g[i] = g[i - 1] + q[i]
        BY <3>3, SumTurns
      <3>. DEFINE V == {m \in Nat : m <= n => f[m].total = g[m]}
      <3>5. 0 \in V
        BY <1>1, <3>4, EmptySizes
      <3>6. ASSUME NEW m \in Nat, m \in V PROVE m + 1 \in V
        <4>. SUFFICES ASSUME m + 1 <= n PROVE f[m + 1].total = g[m + 1]
          OBVIOUS
        <4>1. m \in 0..n /\ m <= n /\ (m + 1) - 1 = m
          BY <1>0
        <4>2. f[m + 1].total = f[m].total + s[m + 1].total /\ m + 1 \in 1..n
          BY <2>2, <2>5, <4>1
        <4>3. g[m + 1] = g[m] + q[m + 1] /\ q[m + 1] = s[m + 1].total
          BY <3>2, <3>3, <3>4, <4>1, <4>2
        <4>. QED  BY <3>6, <4>1, <4>2, <4>3
      <3>. HIDE DEF V
      <3>7. n \in V
        BY <1>0, <3>5, <3>6, SetInduction
      <3>. QED  BY <1>0, <3>3, <3>4, <3>7 DEF V, q
    <2>7. ASSUME NEW t PROVE At(f[n].topics, t) = Sum(TopicSizes(s, t))
      <3>. DEFINE q == TopicSizes(s, t)
      <3>1. q = [i \in 1..n |-> At(s[i].topics, t)]
        BY <1>0 DEF TopicSizes
      <3>2. OfLength(q, n) /\ \A i \in 1..n : q[i] = At(s[i].topics, t)
        BY <1>0, <3>1 DEF OfLength
      <3>. HIDE DEF q
      <3>3. Len(q) = n /\ Len(q) \in Nat
        BY <1>0, <3>2, OfLengthFacts
      <3>4. PICK g : Sum(q) = g[Len(q)] /\ g[0] = 0 /\ \A i \in 1..Len(q) : g[i] = g[i - 1] + q[i]
        BY <3>3, SumTurns
      <3>. DEFINE V == {m \in Nat : m <= n => At(f[m].topics, t) = g[m]}
      <3>5. 0 \in V
        <4>1. At(NoSizes.topics, t) = 0
          BY EmptySizes DEF At, Known
        <4>. QED  BY <1>1, <3>4, <4>1
      <3>6. ASSUME NEW m \in Nat, m \in V PROVE m + 1 \in V
        <4>. SUFFICES ASSUME m + 1 <= n PROVE At(f[m + 1].topics, t) = g[m + 1]
          OBVIOUS
        <4>1. m \in 0..n /\ m <= n /\ (m + 1) - 1 = m
          BY <1>0
        <4>2. /\ f[m + 1].topics = Merged(f[m].topics, s[m + 1].topics) /\ m + 1 \in 1..n
              /\ SizeMap(f[m].topics) /\ SizeMap(s[m + 1].topics)
          BY <2>2, <2>5, <4>1
        <4>3. g[m + 1] = g[m] + q[m + 1] /\ q[m + 1] = At(s[m + 1].topics, t)
          BY <3>2, <3>3, <3>4, <4>1, <4>2
        <4>4. At(f[m + 1].topics, t) = At(f[m].topics, t) + At(s[m + 1].topics, t)
          BY <4>2, MergedAt
        <4>. QED  BY <3>6, <4>1, <4>3, <4>4
      <3>. HIDE DEF V
      <3>7. n \in V
        BY <1>0, <3>5, <3>6, SetInduction
      <3>. QED  BY <1>0, <3>3, <3>4, <3>7 DEF V, q
    <2>. QED  BY <2>5, <2>6, <2>7
  <1>7. SizesOK(f[n]) /\ Through(AddSizes, NoSizes, s) = f[n]
    BY <1>0, <1>1, <1>5
  <1>. QED  BY <1>6, <1>7

-------------------------------------------------------------------------------
(* What is found in a chunk.                                               *)

EntryOK(e) == e.offset \in Nat

\* The entries of a sequence of message indexes.
LEMMA EntriesType ==
    ASSUME NEW s, IsSeq(s), \A i \in 1..Len(s) : s[i].v.offsets \in Seq(Nat)
    PROVE  IsSeq(Entries(s)) /\ \A i \in 1..Len(Entries(s)) : EntryOK(Entries(s)[i])
  <1>. DEFINE OK(q) == IsSeq(q) /\ \A x \in ToSet(q) : EntryOK(x)
  <1>0. Len(s) \in Nat
    BY IsSeqFacts
  <1>1. Entries(s) = Listing!Loop(<<>>, s)
    BY DEF Entries, Through, Listing!Loop
  <1>2. PICK f : /\ Entries(s) = f[Len(s)] /\ f[0] = <<>>
                 /\ \A i \in 1..Len(s) : f[i] = EntriesOf(f[i - 1], s[i])
    <2>1. PICK f : Listing!Turns(f, <<>>, s)
      BY <1>0, Listing!LoopTurns
    <2>. QED  BY <1>1, <2>1 DEF Listing!Turns
  <1>3. ASSUME NEW q, OK(q), NEW r, r.v.offsets \in Seq(Nat) PROVE OK(EntriesOf(q, r))
    <2>. DEFINE n == Len(r.v.offsets)
                t == [j \in DOMAIN r.v.offsets |-> [offset |-> r.v.offsets[j], channel_id |-> r.v.channel_id]]
    <2>0. n \in Nat /\ DOMAIN r.v.offsets = 1..n /\ \A j \in 1..n : r.v.offsets[j] \in Nat
      BY <1>3
    <2>1. t = [j \in 1..n |-> t[j]] /\ DOMAIN t = 1..n /\ \A j \in 1..n : t[j].offset \in Nat
      BY <2>0
    <2>2. EntriesOf(q, r) = q \o t
      BY DEF EntriesOf
    <2>. HIDE DEF t, n
    <2>3. IsSeq(t) /\ Len(t) = n
      BY <2>0, <2>1, FunctionIsSeq
    <2>4. \A x \in ToSet(t) : EntryOK(x)
      BY <2>1 DEF ToSet, EntryOK
    <2>5. IsSeq(q \o t) /\ ToSet(q \o t) = ToSet(q) \cup ToSet(t)
      BY <1>3, <2>3, ConcatFacts, ConcatElements
    <2>. QED  BY <1>3, <2>2, <2>4, <2>5
  <1>. DEFINE T == {m \in Nat : m <= Len(s) => OK(f[m])}
  <1>4. 0 \in T
    BY <1>2, EmptyFacts
  <1>5. ASSUME NEW m \in Nat, m \in T PROVE m + 1 \in T
    <2>. HIDE DEF OK
    <2>. SUFFICES ASSUME m + 1 <= Len(s) PROVE OK(f[m + 1])
      OBVIOUS
    <2>1. m + 1 \in 1..Len(s) /\ (m + 1) - 1 = m /\ m <= Len(s)
      BY <1>0
    <2>2. f[m + 1] = EntriesOf(f[m], s[m + 1]) /\ OK(f[m]) /\ s[m + 1].v.offsets \in Seq(Nat)
      BY <1>2, <1>5, <2>1
    <2>. QED  BY <2>2, <1>3
  <1>6. OK(Entries(s))
    <2>. HIDE DEF T, OK
    <2>1. Len(s) \in T
      BY <1>0, <1>4, <1>5, SetInduction
    <2>. QED  BY <1>0, <1>2, <2>1 DEF T
  <1>. QED  BY <1>6, IsSeqFacts

\* Sorting by offset moves the entries around.
LEMMA ByOffsetFacts ==
    ASSUME NEW s, IsSeq(s), \A i \in 1..Len(s) : EntryOK(s[i])
    PROVE  /\ OfLength(ByOffset(s), Len(s))
           /\ \A i \in 1..Len(s) : EntryOK(ByOffset(s)[i])
  <1>. DEFINE D == DOMAIN s
              Before(i, j) == s[i].offset < s[j].offset
              First(i, j) == IF i < j THEN ~Before(j, i) ELSE Before(i, j)
              r == {p \in D \X D : First(p[1], p[2])}
              rank == [i \in D |-> Cardinality({j \in D : First(j, i)})]
              t == ByOffset(s)
  <1>0. Len(s) \in Nat /\ D = 1..Len(s)
    BY IsSeqFacts
  <1>1. /\ \A i \in D : ~Before(i, i)
        /\ \A i, j, k \in D : Before(i, j) /\ Before(j, k) => Before(i, k)
        /\ \A i, j, k \in D : ~Before(i, j) /\ ~Before(j, k) => ~Before(i, k)
    BY <1>0 DEF EntryOK
  <1>2. IsFiniteSet(D) /\ Cardinality(D) = Len(s)
    BY <1>0, FinitePlaces
  <1>3. t = [n \in D |-> s[CHOOSE i \in D : (rank \o <<>>)[i] = n - 1]]
    BY DEF ByOffset, StableSort
  <1>4. \A i, j \in D : <<i, j>> \in r <=> First(i, j)
    OBVIOUS
  <1>. HIDE DEF Before, t
  <1>5. StrictTotal(D, r)
    <2>0. D \subseteq Nat
      BY <1>0
    <2>. HIDE DEF D, r
    <2>1. \A x \in D : <<x, x>> \notin r
      BY <1>1, <1>4, <2>0
    <2>2. \A x, y, z \in D : <<x, y>> \in r /\ <<y, z>> \in r => <<x, z>> \in r
      <3>. SUFFICES ASSUME NEW x \in D, NEW y \in D, NEW z \in D, First(x, y), First(y, z)
                    PROVE  First(x, z)
        BY <1>4
      <3>1. x \in Nat /\ y \in Nat /\ z \in Nat
        BY <2>0
      <3>2. CASE x < y /\ y < z
        BY <3>1, <3>2, <1>1
      <3>3. CASE x < y /\ ~ (y < z)
        BY <3>1, <3>3, <1>1
      <3>4. CASE ~ (x < y) /\ y < z
        BY <3>1, <3>4, <1>1
      <3>5. CASE ~ (x < y) /\ ~ (y < z)
        BY <3>1, <3>5, <1>1
      <3>. QED  BY <3>2, <3>3, <3>4, <3>5
    <2>3. ASSUME NEW x \in D, NEW y \in D, x # y PROVE <<x, y>> \in r \/ <<y, x>> \in r
      <3>1. x \in Nat /\ y \in Nat
        BY <2>0
      <3>2. CASE x < y
        BY <3>1, <3>2, <1>4
      <3>3. CASE y < x
        BY <3>1, <3>3, <1>4
      <3>. QED  BY <3>1, <3>2, <3>3, <2>3
    <2>. QED  BY <2>1, <2>2, <2>3 DEF StrictTotal
  <1>6. \A i \in D : rank[i] = Cardinality(Below(D, r, i))
    <2>1. \A i \in D : {j \in D : First(j, i)} = Below(D, r, i)
      <3>. HIDE DEF D, r, First
      <3>. QED  BY <1>4 DEF Below
    <2>. QED  BY <2>1
  <1>7. rank \o <<>> = rank
    <2>1. DOMAIN rank = 1..Len(s) /\ rank = [i \in 1..Len(s) |-> rank[i]]
      BY <1>0
    <2>. HIDE DEF rank
    <2>. QED  BY <2>1, <1>0, FunctionIsSeq, ConcatEmpty
  <1>8. ASSUME NEW n \in 1..Len(s) PROVE EntryOK(t[n])
    <2>1. \E i \in D : rank[i] = n - 1
      <3>1. PICK i \in D : Cardinality(Below(D, r, i)) = n - 1
        <4>. HIDE DEF D, r, rank
        <4>. QED  BY <1>2, <1>5, RankUnique
      <3>. HIDE DEF D, r, rank
      <3>. QED  BY <3>1, <1>6
    <2>. HIDE DEF rank
    <2>2. t[n] = s[CHOOSE i \in D : rank[i] = n - 1]
      BY <1>0, <1>3, <1>7
    <2>. HIDE DEF D
    <2>3. (CHOOSE i \in D : rank[i] = n - 1) \in D
      BY <2>1
    <2>. QED  BY <1>0, <2>2, <2>3
  <1>9. OfLength(t, Len(s))
    <2>. DEFINE where(n) == s[CHOOSE i \in D : (rank \o <<>>)[i] = n - 1]
    <2>1. t = [n \in D |-> where(n)]
      BY <1>3
    <2>. HIDE DEF where
    <2>. QED  BY <2>1, <1>0 DEF OfLength
  <1>. QED  BY <1>8, <1>9 DEF t

\* What one entry adds is a size.
LEMMA AddEntryType ==
    ASSUME NEW topics, NEW u \in Nat, NEW s, SizesOK(s), NEW e, EntryOK(e.entry), e.size \in Int
    PROVE  SizesOK(AddEntry(topics, u, s, e))
  <1>. DEFINE n == e.size - MessageOverhead
              t == AddEntry(topics, u, s, e)
              more == Sizes(Plus(s.topics, topics[e.entry.channel_id], n), s.total + n, "none")
  <1>0. s = [topics |-> s.topics, total |-> s.total, error |-> s.error] /\ SizeMap(s.topics) /\ s.total \in Nat
    BY DEF SizesOK, Sizes
  <1>1. \/ t = s
        \/ \E why : t = [topics |-> s.topics, total |-> s.total, error |-> why]
        \/ t = more /\ ~(e.size <= MessageOverhead)
    <2>1. \A why : Failed(s, why) = [topics |-> s.topics, total |-> s.total, error |-> why]
      BY <1>0 DEF Failed
    <2>3. e.entry.offset > u \/ e.entry.offset <= u
      BY DEF EntryOK
    <2>. DEFINE known == IF ~Known(topics, e.entry.channel_id) THEN Failed(s, "UnknownChannel") ELSE more
    <2>4. \/ t = s \/ t = Failed(s, "OffsetBeyondChunk")
          \/ t = known /\ ~(e.size <= MessageOverhead)
      <3>. HIDE DEF more
      <3>1. CASE s.error # "none"
        BY <3>1 DEF AddEntry
      <3>2. CASE s.error = "none" /\ e.entry.offset > u
        BY <3>2, <2>3 DEF AddEntry, EntryOK
      <3>3. CASE s.error = "none" /\ e.entry.offset <= u /\ e.size <= MessageOverhead
        BY <3>3, <2>3 DEF AddEntry, EntryOK
      <3>4. CASE s.error = "none" /\ e.entry.offset <= u /\ ~(e.size <= MessageOverhead)
        BY <3>4, <2>3 DEF AddEntry, EntryOK, more
      <3>. QED  BY <3>1, <3>2, <3>3, <3>4, <2>3
    <2>. HIDE DEF more, t
    <2>5. known = more \/ known = Failed(s, "UnknownChannel")
      OBVIOUS
    <2>. HIDE DEF known
    <2>. QED  BY <2>1, <2>4, <2>5
  <1>2. CASE t = s
    BY <1>2
  <1>3. CASE \E why : t = [topics |-> s.topics, total |-> s.total, error |-> why]
    BY <1>0, <1>3 DEF SizesOK, Sizes
  <1>4. CASE t = more /\ ~(e.size <= MessageOverhead)
    <2>1. n \in Nat
      BY <1>4 DEF MessageOverhead
    <2>2. SizeMap(Plus(s.topics, topics[e.entry.channel_id], n))
      BY <1>0, <2>1, PlusFacts
    <2>3. s.total + n \in Nat
      BY <1>0, <2>1
    <2>. HIDE DEF n
    <2>4. SizesOK(more)
      BY <2>2, <2>3 DEF SizesOK, Sizes
    <2>. QED  BY <1>4, <2>4
  <1>. QED  BY <1>1, <1>2, <1>3, <1>4

\* The sizes found in message indexes.
LEMMA ParseType ==
    ASSUME NEW s, IsSeq(s), \A i \in 1..Len(s) : RecordOK(s[i]), NEW u \in Nat, NEW topics
    PROVE  SizesOK(ParseChunkMessageIndexes(s, u, topics))
  <1>0. Len(s) \in Nat /\ DOMAIN s = 1..Len(s)
    BY IsSeqFacts
  <1>1. CASE \E i \in DOMAIN s : s[i].op # "MessageIndex"
    <2>1. ParseChunkMessageIndexes(s, u, topics) = [topics |-> <<>>, total |-> 0, error |-> "BadMessageIndex"]
      BY <1>1 DEF ParseChunkMessageIndexes, Sizes
    <2>. QED  BY <2>1, EmptySizes DEF SizesOK, Sizes
  <1>2. CASE ~ \E i \in DOMAIN s : s[i].op # "MessageIndex"
    <2>. DEFINE es == Entries(s)
                b == ByOffset(es)
                z == Sized(b, u)
                n == Len(es)
                Turn(v, e) == AddEntry(topics, u, v, e)
                Is(f, m) == /\ f = [i \in 0..m |-> f[i]]
                            /\ \A i \in 0..m : f[i] = IF i = 0 THEN NoSizes ELSE Turn(f[i - 1], z[i])
    <2>1. \A i \in 1..Len(s) : s[i].v.offsets \in Seq(Nat)
      BY <1>0, <1>2 DEF RecordOK
    <2>2. IsSeq(es) /\ n \in Nat /\ \A i \in 1..n : EntryOK(es[i])
      BY <2>1, EntriesType, IsSeqFacts
    <2>. HIDE DEF es
    <2>3. OfLength(b, n) /\ \A i \in 1..n : EntryOK(b[i])
      BY <2>2, ByOffsetFacts
    <2>. HIDE DEF b, n
    <2>4. Len(b) = n /\ DOMAIN b = 1..n
      BY <2>3, OfLengthFacts
    <2>5. OfLength(z, n) /\ \A i \in 1..n : z[i].entry = b[i] /\ z[i].size = SizeOfEntry(b, i, u)
      BY <2>2, <2>4 DEF OfLength, Sized
    <2>6. ASSUME NEW i \in 1..n PROVE EntryOK(z[i].entry) /\ z[i].size \in Int
      <3>1. b[i].offset \in Nat /\ (i < n => b[i + 1].offset \in Nat)
        <4>1. i < n => i + 1 \in 1..n
          BY <2>2
        <4>. QED  BY <2>3, <4>1 DEF EntryOK
      <3>2. SizeOfEntry(b, i, u) \in Int
        BY <2>4, <3>1 DEF SizeOfEntry
      <3>. QED  BY <2>3, <2>5, <3>2
    <2>. HIDE DEF z
    <2>. DEFINE T == {m \in Nat : \E f : Is(f, m)}
    <2>7. 0 \in T
      <3>. DEFINE f == [i \in 0..0 |-> NoSizes]
      <3>1. Is(f, 0)
        OBVIOUS
      <3>. QED  BY <3>1
    <2>8. ASSUME NEW m \in Nat, m \in T PROVE m + 1 \in T
      <3>. HIDE DEF Turn
      <3>1. PICK f : Is(f, m)
        BY <2>8
      <3>. DEFINE g == [i \in 0..(m + 1) |-> IF i <= m THEN f[i] ELSE Turn(f[m], z[m + 1])]
      <3>2. ASSUME NEW i \in 0..(m + 1)
            PROVE  g[i] = IF i = 0 THEN NoSizes ELSE Turn(g[i - 1], z[i])
        <4>1. CASE i = 0
          BY <3>1, <4>1, g[0] = f[0]
        <4>2. CASE i # 0 /\ i <= m
          <5>1. g[i] = f[i] /\ g[i - 1] = f[i - 1] /\ i \in 0..m
            BY <4>2
          <5>. QED  BY <3>1, <4>2, <5>1
        <4>3. CASE i = m + 1
          <5>1. g[i] = Turn(f[m], z[m + 1]) /\ g[i - 1] = f[m] /\ i # 0
            BY <4>3
          <5>. QED  BY <4>3, <5>1
        <4>. QED  BY <4>1, <4>2, <4>3
      <3>3. Is(g, m + 1)
        BY <3>2
      <3>. HIDE DEF g, Is
      <3>. QED  BY <3>3
    <2>9. \E f : Is(f, n)
      <3>. HIDE DEF T
      <3>1. Nat \subseteq T
        BY <2>7, <2>8, SetInduction
      <3>. QED  BY <3>1, <2>2 DEF T
    <2>. HIDE DEF T
    <2>. DEFINE Once(v, i) == CHOOSE y \in {Turn(x, z[i]) : x \in {v}} : TRUE
                Chosen(f) == f = [i \in 0..n |-> IF i = 0 THEN NoSizes ELSE Once(f[i - 1], i)]
                g == CHOOSE f : Chosen(f)
    <2>10. Len(z) = n
      BY <2>5, OfLengthFacts
    <2>11. ParseChunkMessageIndexes(s, u, topics) = g[n]
      <3>1. ParseChunkMessageIndexes(s, u, topics)
              = Through(LAMBDA v, e : AddEntry(topics, u, v, e), NoSizes, z)
        BY <1>2 DEF ParseChunkMessageIndexes, z, b, es
      <3>. QED  BY <3>1, <2>10 DEF Through
    <2>12. ASSUME NEW v, NEW i PROVE Once(v, i) = Turn(v, z[i])
      <3>. HIDE DEF Turn
      <3>1. {Turn(x, z[i]) : x \in {v}} = {Turn(v, z[i])}
        OBVIOUS
      <3>. QED  BY <3>1
    <2>. HIDE DEF Turn, Once
    <2>13. \E f : Chosen(f)
      <3>1. PICK f : Is(f, n)
        BY <2>9
      <3>2. \A i \in 0..n : f[i] = IF i = 0 THEN NoSizes ELSE Once(f[i - 1], i)
        BY <3>1, <2>12
      <3>3. Chosen(f)
        BY <3>1, <3>2
      <3>. QED  BY <3>3
    <2>14. Chosen(g)
      <3>. HIDE DEF Chosen
      <3>. QED  BY <2>13
    <2>. HIDE DEF g
    <2>15. g[0] = NoSizes /\ \A i \in 1..n : g[i] = Turn(g[i - 1], z[i])
      <3>1. g[0] = NoSizes
        BY <2>2, <2>14
      <3>2. ASSUME NEW i \in 1..n PROVE g[i] = Turn(g[i - 1], z[i])
        <4>1. i \in 0..n /\ i # 0
          BY <2>2
        <4>. QED  BY <2>14, <2>12, <4>1
      <3>. QED  BY <3>1, <3>2
    <2>. DEFINE V == {m \in Nat : m <= n => SizesOK(g[m])}
    <2>16. 0 \in V
      BY <2>15, EmptySizes
    <2>17. ASSUME NEW m \in Nat, m \in V PROVE m + 1 \in V
      <3>. SUFFICES ASSUME m + 1 <= n PROVE SizesOK(g[m + 1])
        OBVIOUS
      <3>1. m + 1 \in 1..n /\ (m + 1) - 1 = m /\ m <= n
        BY <2>2
      <3>2. g[m + 1] = AddEntry(topics, u, g[m], z[m + 1])
        BY <2>15, <3>1 DEF Turn
      <3>3. SizesOK(g[m]) /\ EntryOK(z[m + 1].entry) /\ z[m + 1].size \in Int
        BY <2>6, <2>17, <3>1
      <3>. QED  BY <3>2, <3>3, AddEntryType
    <2>18. n \in V
      <3>. HIDE DEF V
      <3>. QED  BY <2>2, <2>16, <2>17, SetInduction
    <2>. QED  BY <2>2, <2>11, <2>18
  <1>. QED  BY <1>1, <1>2

\* The records of a file, and a part of it.
LEMMA FileFacts ==
    ASSUME NEW f \in Files
    PROVE  IsSeq(f) /\ Len(f) \in Nat /\ DOMAIN f = 1..Len(f) /\ \A i \in 1..Len(f) : RecordOK(f[i])
  <1>1. RecordsOK(f)
    BY FilesAssumption
  <1>2. IsSeq(f)
    BY <1>1 DEF RecordsOK, IsSeq
  <1>3. Len(f) \in Nat /\ DOMAIN f = 1..Len(f)
    BY <1>2, IsSeqFacts
  <1>. QED  BY <1>1, <1>2, <1>3 DEF RecordsOK

\* A part of a file is records again.
LEMMA PartOfFile ==
    ASSUME NEW f \in Files, NEW m \in Nat, NEW n \in Nat, 1 <= m, m <= n + 1, n <= Len(f)
    PROVE  LET s == SubSeq(f, m, n) IN IsSeq(s) /\ \A i \in 1..Len(s) : RecordOK(s[i])
  <1>. DEFINE s == SubSeq(f, m, n)
  <1>1. IsSeq(f) /\ Len(f) \in Nat /\ \A i \in 1..Len(f) : RecordOK(f[i])
    BY FileFacts
  <1>2. IsSeq(s) /\ Len(s) = n - m + 1 /\ \A i \in 1..(n - m + 1) : s[i] = f[m + i - 1]
    BY <1>1, SubSeqFacts
  <1>. HIDE DEF s
  <1>3. ASSUME NEW i \in 1..Len(s) PROVE RecordOK(s[i])
    <2>1. m + i - 1 \in 1..Len(f) /\ i \in 1..(n - m + 1)
      BY <1>1, <1>2
    <2>. QED  BY <1>1, <1>2, <2>1
  <1>. QED  BY <1>2, <1>3 DEF s

\* The smallest and the largest of a set of places.
LEMMA PlaceBounds ==
    ASSUME NEW n \in Nat, NEW S, S \subseteq 1..n, S # {}
    PROVE  Min(S) \in S /\ Max(S) \in S /\ Min(S) <= Max(S)
  <1>0. IsFiniteSet(1..n)
    BY FS_Interval
  <1>1. IsFiniteSet(S) /\ S \subseteq Nat
    <2>1. IsFiniteSet(S)
      BY <1>0, FS_Subset
    <2>. QED  BY <2>1
  <1>2. \E x \in S : \A y \in S : x <= y
    BY <1>1, LeastNatural
  <1>3. \E x \in S : \A y \in S : x >= y
    BY <1>1, GreatestNatural
  <1>4. Min(S) \in S /\ \A y \in S : Min(S) <= y
    BY <1>2 DEF Min
  <1>5. Max(S) \in S
    BY <1>3 DEF Max
  <1>. QED  BY <1>4, <1>5

\* The records between two offsets are records of the file.
LEMMA BetweenType ==
    ASSUME NEW f \in Files, NEW start, NEW end
    PROVE  LET s == Between(f, start, end).records IN IsSeq(s) /\ \A i \in 1..Len(s) : RecordOK(s[i])
  <1>. DEFINE inside == {i \in DOMAIN f : f[i].offset >= start /\ f[i].offset + f[i].size <= end}
              s == Between(f, start, end).records
  <1>0. Len(f) \in Nat /\ DOMAIN f = 1..Len(f)
    BY FileFacts
  <1>1. s = IF inside = {} THEN <<>> ELSE SubSeq(f, Min(inside), Max(inside))
    BY DEF Between
  <1>2. inside \subseteq 1..Len(f)
    BY <1>0
  <1>. SUFFICES IsSeq(s) /\ \A i \in 1..Len(s) : RecordOK(s[i])
    OBVIOUS
  <1>. HIDE DEF inside, s
  <1>3. CASE inside = {}
    BY <1>1, <1>3, EmptyFacts DEF IsSeq
  <1>4. CASE inside # {}
    <2>1. /\ Min(inside) \in Nat /\ Max(inside) \in Nat /\ 1 <= Min(inside)
          /\ Min(inside) <= Max(inside) + 1 /\ Max(inside) <= Len(f)
      <3>1. Min(inside) \in inside /\ Max(inside) \in inside /\ Min(inside) <= Max(inside)
        BY <1>0, <1>2, <1>4, PlaceBounds
      <3>2. Min(inside) \in 1..Len(f) /\ Max(inside) \in 1..Len(f)
        BY <1>2, <3>1
      <3>. QED  BY <1>0, <3>1, <3>2
    <2>2. LET p == SubSeq(f, Min(inside), Max(inside)) IN IsSeq(p) /\ \A i \in 1..Len(p) : RecordOK(p[i])
      BY <2>1, PartOfFile
    <2>. QED  BY <1>1, <1>4, <2>2
  <1>. QED  BY <1>3, <1>4

\* What is found in a chunk.
LEMMA ComputeType ==
    ASSUME NEW f \in Files, NEW chunk, chunk.uncompressed_size \in Nat, NEW topics
    PROVE  SizesOK(ComputeTopicSizesForChunk(f, chunk, topics))
  <1>. DEFINE x == ComputeTopicSizesForChunk(f, chunk, topics)
              start == chunk.start + chunk.length
              records == Between(f, start, start + chunk.index_length).records
  <1>1. \/ x = NoSizes \/ \E why : x = Sizes(<<>>, 0, why)
        \/ x = ParseChunkMessageIndexes(records, chunk.uncompressed_size, topics)
    BY DEF ComputeTopicSizesForChunk
  <1>. SUFFICES SizesOK(x)
    OBVIOUS
  <1>. HIDE DEF x
  <1>2. CASE x = NoSizes
    BY <1>2, EmptySizes
  <1>3. CASE \E why : x = Sizes(<<>>, 0, why)
    BY <1>3, EmptySizes DEF SizesOK, Sizes
  <1>4. CASE x = ParseChunkMessageIndexes(records, chunk.uncompressed_size, topics)
    <2>1. IsSeq(records) /\ \A i \in 1..Len(records) : RecordOK(records[i])
      BY BetweenType
    <2>. HIDE DEF records
    <2>. QED  BY <1>4, <2>1, ParseType
  <1>. QED  BY <1>1, <1>2, <1>3, <1>4

IndexesOK(s) == IsSeq(s) /\ \A i \in 1..Len(s) : s[i].uncompressed_size \in Nat

SummaryOK(s) ==
    /\ s = [chunk_indexes |-> s.chunk_indexes, topics |-> s.topics, sizes |-> s.sizes]
    /\ IndexesOK(s.chunk_indexes)

\* No summary.
LEMMA NoSummary == SummaryOK([chunk_indexes |-> <<>>, topics |-> <<>>, sizes |-> <<>>])
  BY EmptyFacts DEF SummaryOK, IndexesOK

\* The chunk indexes of the summary are those of the file.
LEMMA ReadSummaryType ==
    ASSUME NEW f \in Files
    PROVE  SummaryOK(ReadSummary(f))
  <1>. DEFINE start == {i \in DOMAIN f : f[i].offset = Last(f).v.summary_start}
              tail == SubSeq(f, Max(start), Len(f))
              read == Through(AccumulateDefinition, [acc |-> NoChannels, error |-> "none"], tail)
              lists == [i \in DOMAIN tail |-> IF tail[i].op = "ChunkIndex" THEN <<tail[i].v>> ELSE <<>>]
              indexes == FlattenSeq(lists)
              topics == [id \in DOMAIN read.acc.channels |-> read.acc.channels[id].topic]
              none == [chunk_indexes |-> <<>>, topics |-> <<>>, sizes |-> <<>>]
  <1>0. Len(f) \in Nat /\ DOMAIN f = 1..Len(f)
    BY FileFacts
  <1>1. \/ ReadSummary(f) = none
        \/ start # {} /\ ReadSummary(f) = [chunk_indexes |-> indexes, topics |-> topics, sizes |-> <<>>]
    BY DEF ReadSummary
  <1>2. CASE start # {}
    <2>1. Max(start) \in 1..Len(f)
      BY <1>0, <1>2, PlaceBounds
    <2>2. IsSeq(tail) /\ \A i \in 1..Len(tail) : RecordOK(tail[i])
      <3>. DEFINE m == Max(start)
      <3>1. m \in Nat /\ 1 <= m /\ m <= Len(f) + 1 /\ Len(f) <= Len(f)
        BY <1>0, <2>1
      <3>. HIDE DEF m
      <3>2. LET p == SubSeq(f, m, Len(f)) IN IsSeq(p) /\ \A i \in 1..Len(p) : RecordOK(p[i])
        BY <1>0, <3>1, PartOfFile
      <3>. QED  BY <3>2 DEF m
    <2>. HIDE DEF tail
    <2>3. Len(tail) \in Nat /\ DOMAIN tail = 1..Len(tail)
      BY <2>2, IsSeqFacts
    <2>4. /\ DOMAIN lists = 1..Len(tail) /\ lists = [i \in 1..Len(tail) |-> lists[i]]
          /\ \A i \in 1..Len(tail) : lists[i] = IF tail[i].op = "ChunkIndex" THEN <<tail[i].v>> ELSE <<>>
      BY <2>3
    <2>. HIDE DEF lists
    <2>5. IsSeq(lists) /\ Len(lists) = Len(tail)
      BY <2>3, <2>4, FunctionIsSeq
    <2>6. ASSUME NEW i \in 1..Len(tail)
          PROVE  IsSeq(lists[i]) /\ \A x \in ToSet(lists[i]) : x.uncompressed_size \in Nat
      <3>1. CASE tail[i].op = "ChunkIndex"
        <4>1. tail[i].v.uncompressed_size \in Nat
          BY <2>2, <3>1 DEF RecordOK
        <4>2. lists[i] = <<tail[i].v>>
          BY <2>4, <3>1
        <4>. QED  BY <4>1, <4>2, SingletonFacts
      <3>2. CASE tail[i].op # "ChunkIndex"
        BY <2>4, <3>2, EmptyFacts
      <3>. QED  BY <3>1, <3>2
    <2>7. /\ IsSeq(indexes)
          /\ \A x \in ToSet(indexes) : \E i \in 1..Len(lists) : x \in ToSet(lists[i])
      BY <2>5, <2>6, FlattenFacts
    <2>. HIDE DEF indexes
    <2>8. \A i \in 1..Len(indexes) : indexes[i].uncompressed_size \in Nat
      BY <2>5, <2>6, <2>7, IsSeqFacts
    <2>. HIDE DEF topics, start
    <2>. QED  BY <1>1, <2>7, <2>8, NoSummary DEF SummaryOK, IndexesOK
  <1>. QED  BY <1>1, <1>2, NoSummary

-------------------------------------------------------------------------------
(* The exact scan.                                                         *)

UsageOK(u) ==
    /\ u = [total_size |-> u.total_size, total_message_size |-> u.total_message_size,
            record_kind_size |-> u.record_kind_size, topic_message_size |-> u.topic_message_size]
    /\ u.total_message_size \in Nat

ScanOK(s) ==
    /\ s = [usage |-> s.usage, channels |-> s.channels, error |-> s.error]
    /\ UsageOK(s.usage)

\* A record is counted without losing the shape of the figures.
LEMMA ScanRecordType ==
    ASSUME NEW s, ScanOK(s), NEW r, RecordOK(r)
    PROVE  ScanOK(ScanRecord(s, r))
  <1>. DEFINE u == s.usage
              named == [s EXCEPT !.channels = With(@, r.v.id, r.v.topic)]
              sizes == Plus(u.topic_message_size, s.channels[r.v.channel_id], r.v.data)
              added == [s EXCEPT !.usage.total_message_size = @ + r.v.data,
                                 !.usage.topic_message_size = Plus(@, s.channels[r.v.channel_id], r.v.data)]
  <1>0. /\ s = [usage |-> u, channels |-> s.channels, error |-> s.error] /\ u.total_message_size \in Nat
        /\ u = [total_size |-> u.total_size, total_message_size |-> u.total_message_size,
                record_kind_size |-> u.record_kind_size, topic_message_size |-> u.topic_message_size]
    BY DEF ScanOK, UsageOK
  <1>1. ScanRecord(s, r) \in {s, Failed(s, "Unreadable"), named} \/ (r.op = "Message" /\ ScanRecord(s, r) = ProcessMessage(s, r.v))
    <2>. HIDE DEF named
    <2>1. CASE s.error # "none"
      BY <2>1 DEF ScanRecord
    <2>2. CASE s.error = "none" /\ r.op = "Broken"
      BY <2>2 DEF ScanRecord
    <2>3. CASE s.error = "none" /\ r.op = "Channel"
      BY <2>3 DEF ScanRecord, named
    <2>4. CASE s.error = "none" /\ r.op = "Message"
      BY <2>4 DEF ScanRecord
    <2>5. CASE s.error = "none" /\ r.op \notin {"Broken", "Channel", "Message"}
      BY <2>5 DEF ScanRecord
    <2>. QED  BY <2>1, <2>2, <2>3, <2>4, <2>5
  <1>2. \A why : Failed(s, why) = [usage |-> u, channels |-> s.channels, error |-> why]
    BY <1>0 DEF Failed
  <1>3. named = [usage |-> u, channels |-> With(s.channels, r.v.id, r.v.topic), error |-> s.error]
    BY <1>0
  <1>4. r.op = "Message" => \/ ProcessMessage(s, r.v) = Failed(s, "UnknownChannel")
                            \/ ProcessMessage(s, r.v) = added
    BY DEF ProcessMessage
  <1>5. added = [usage |-> [total_size |-> u.total_size, total_message_size |-> u.total_message_size + r.v.data,
                            record_kind_size |-> u.record_kind_size, topic_message_size |-> sizes],
                 channels |-> s.channels, error |-> s.error]
    <2>. DEFINE n == u.total_message_size + r.v.data
                first == [u EXCEPT !.total_message_size = n]
                one == [s EXCEPT !.usage = first]
    <2>1. one = [usage |-> first, channels |-> s.channels, error |-> s.error] /\ one.usage = first
      <3>. HIDE DEF first, u
      <3>. QED  BY <1>0
    <2>2. [first EXCEPT !.topic_message_size = sizes]
            = [total_size |-> u.total_size, total_message_size |-> n,
               record_kind_size |-> u.record_kind_size, topic_message_size |-> sizes]
      <3>. HIDE DEF n, sizes, u
      <3>1. first = [total_size |-> u.total_size, total_message_size |-> n,
                     record_kind_size |-> u.record_kind_size, topic_message_size |-> u.topic_message_size]
        BY <1>0
      <3>. HIDE DEF first
      <3>. QED  BY <3>1
    <2>3. [one EXCEPT !.usage = [first EXCEPT !.topic_message_size = sizes]]
            = [usage |-> [first EXCEPT !.topic_message_size = sizes], channels |-> s.channels, error |-> s.error]
      <3>. HIDE DEF one, first, sizes
      <3>. QED  BY <2>1
    <2>4. added = [one EXCEPT !.usage = [one.usage EXCEPT !.topic_message_size = sizes]]
      OBVIOUS
    <2>. HIDE DEF one, first, added, sizes, u, n
    <2>. QED  BY <2>1, <2>2, <2>3, <2>4 DEF n
  <1>6. r.op = "Message" => r.v.data \in Nat
    BY DEF RecordOK
  <1>7. \A channels, why : ScanOK([usage |-> u, channels |-> channels, error |-> why])
    BY <1>0 DEF ScanOK, UsageOK
  <1>8. r.op = "Message" => ScanOK(added)
    <2>. HIDE DEF added, sizes
    <2>. DEFINE n == u.total_message_size + r.v.data
    <2>1. r.op = "Message" => n \in Nat
      BY <1>0, <1>6
    <2>. HIDE DEF n
    <2>. QED  BY <1>5, <2>1 DEF ScanOK, UsageOK, n
  <1>. HIDE DEF named, added, u
  <1>9. ScanOK(Failed(s, "Unreadable")) /\ ScanOK(Failed(s, "UnknownChannel")) /\ ScanOK(named)
    BY <1>2, <1>3, <1>7
  <1>. QED  BY <1>1, <1>4, <1>8, <1>9

\* So are the records of a chunk.
LEMMA ScanChunkType ==
    ASSUME NEW s, ScanOK(s), NEW rs, RecordsOK(rs)
    PROVE  ScanOK(Through(ScanRecord, s, rs))
  <1>0. Len(rs) \in Nat /\ \A i \in 1..Len(rs) : RecordOK(rs[i])
    <2>1. IsSeq(rs)
      BY DEF RecordsOK, IsSeq
    <2>. QED  BY <2>1, IsSeqFacts DEF RecordsOK
  <1>. DEFINE n == Len(rs)
  <1>1. Through(ScanRecord, s, rs) = Scanning!Loop(s, rs)
    BY DEF Through, Scanning!Loop
  <1>2. PICK f : /\ Through(ScanRecord, s, rs) = f[Len(rs)] /\ f[0] = s
                 /\ \A i \in 1..Len(rs) : f[i] = ScanRecord(f[i - 1], rs[i])
    <2>1. Len(rs) \in Nat
      BY <1>0
    <2>2. PICK f : Scanning!Turns(f, s, rs)
      BY <2>1, Scanning!LoopTurns
    <2>. QED  BY <1>1, <2>2 DEF Scanning!Turns
  <1>. DEFINE T == {m \in Nat : m <= n => ScanOK(f[m])}
  <1>3. 0 \in T
    BY <1>2
  <1>4. ASSUME NEW m \in Nat, m \in T PROVE m + 1 \in T
    <2>. SUFFICES ASSUME m + 1 <= n PROVE ScanOK(f[m + 1])
      OBVIOUS
    <2>1. m + 1 \in 1..n /\ (m + 1) - 1 = m /\ m <= n
      BY <1>0
    <2>2. f[m + 1] = ScanRecord(f[m], rs[m + 1]) /\ RecordOK(rs[m + 1]) /\ ScanOK(f[m])
      BY <1>0, <1>2, <1>4, <2>1
    <2>. QED  BY <2>2, ScanRecordType
  <1>. HIDE DEF T
  <1>5. n \in T
    BY <1>0, <1>3, <1>4, SetInduction
  <1>. QED  BY <1>0, <1>2, <1>5 DEF T

\* A record at the top level, a chunk or not.
LEMMA ScanTopLevelType ==
    ASSUME NEW s, ScanOK(s), NEW r, RecordOK(r), r.op = "Chunk" => RecordsOK(r.v.records)
    PROVE  ScanOK(ScanTopLevel(s, r))
  <1>. DEFINE u == s.usage
              sized == [s EXCEPT !.usage.total_size = @ + r.size,
                                 !.usage.record_kind_size = Plus(@, r.op, r.size)]
  <1>0. /\ s = [usage |-> u, channels |-> s.channels, error |-> s.error] /\ u.total_message_size \in Nat
        /\ u = [total_size |-> u.total_size, total_message_size |-> u.total_message_size,
                record_kind_size |-> u.record_kind_size, topic_message_size |-> u.topic_message_size]
    BY DEF ScanOK, UsageOK
  <1>1. \/ ScanTopLevel(s, r) = s \/ ScanTopLevel(s, r) = Failed(s, "Unreadable")
        \/ r.op = "Chunk" /\ ScanTopLevel(s, r) = Through(ScanRecord, sized, r.v.records)
        \/ ScanTopLevel(s, r) = ScanRecord(sized, r)
    <2>1. CASE s.error # "none"
      BY <2>1 DEF ScanTopLevel
    <2>2. CASE s.error = "none" /\ r.op = "Broken"
      BY <2>2 DEF ScanTopLevel
    <2>3. CASE s.error = "none" /\ r.op = "Chunk"
      BY <2>3 DEF ScanTopLevel
    <2>5. CASE s.error = "none" /\ r.op \notin {"Broken", "Chunk"}
      BY <2>5 DEF ScanTopLevel
    <2>. QED  BY <2>1, <2>2, <2>3, <2>5
  <1>2. Failed(s, "Unreadable") = [usage |-> u, channels |-> s.channels, error |-> "Unreadable"]
    BY <1>0 DEF Failed
  <1>3. ScanOK(Failed(s, "Unreadable"))
    BY <1>0, <1>2 DEF ScanOK, UsageOK
  <1>4. sized = [usage |-> [total_size |-> u.total_size + r.size, total_message_size |-> u.total_message_size,
                            record_kind_size |-> Plus(u.record_kind_size, r.op, r.size),
                            topic_message_size |-> u.topic_message_size],
                 channels |-> s.channels, error |-> s.error]
    <2>. DEFINE kinds == Plus(u.record_kind_size, r.op, r.size)
                n == u.total_size + r.size
                first == [u EXCEPT !.total_size = n]
                one == [s EXCEPT !.usage = first]
    <2>1. one = [usage |-> first, channels |-> s.channels, error |-> s.error] /\ one.usage = first
      <3>. HIDE DEF first, u
      <3>. QED  BY <1>0
    <2>2. [first EXCEPT !.record_kind_size = kinds]
            = [total_size |-> n, total_message_size |-> u.total_message_size,
               record_kind_size |-> kinds, topic_message_size |-> u.topic_message_size]
      <3>. HIDE DEF n, kinds, u
      <3>1. first = [total_size |-> n, total_message_size |-> u.total_message_size,
                     record_kind_size |-> u.record_kind_size, topic_message_size |-> u.topic_message_size]
        BY <1>0
      <3>. HIDE DEF first
      <3>. QED  BY <3>1
    <2>3. [one EXCEPT !.usage = [first EXCEPT !.record_kind_size = kinds]]
            = [usage |-> [first EXCEPT !.record_kind_size = kinds], channels |-> s.channels, error |-> s.error]
      <3>. HIDE DEF one, first, kinds
      <3>. QED  BY <2>1
    <2>4. sized = [one EXCEPT !.usage = [one.usage EXCEPT !.record_kind_size = kinds]]
      OBVIOUS
    <2>. HIDE DEF one, first, sized, kinds, u, n
    <2>. QED  BY <2>1, <2>2, <2>3, <2>4 DEF n, kinds
  <1>. HIDE DEF sized
  <1>5. ScanOK(sized)
    BY <1>0, <1>4 DEF ScanOK, UsageOK
  <1>. QED  BY <1>1, <1>3, <1>5, ScanRecordType, ScanChunkType

\* The figures of the exact scan.
LEMMA ExactType ==
    ASSUME NEW f \in Files
    PROVE  UsageOK(CollectUsageExact(f).usage)
  <1>0. /\ Len(f) \in Nat /\ \A i \in 1..Len(f) : RecordOK(f[i])
        /\ \A i \in 1..Len(f) : f[i].op = "Chunk" => RecordsOK(f[i].v.records)
    <2>1. Len(f) \in Nat /\ DOMAIN f = 1..Len(f) /\ \A i \in 1..Len(f) : RecordOK(f[i])
      BY FileFacts
    <2>. QED  BY <2>1, FilesAssumption
  <1>. DEFINE base == [usage |-> [NoUsage EXCEPT !.total_size = 2 * MagicSize], channels |-> <<>>, error |-> "none"]
              n == Len(f)
  <1>1. ScanOK(base)
    <2>1. [NoUsage EXCEPT !.total_size = 2 * MagicSize]
            = [total_size |-> 2 * MagicSize, total_message_size |-> 0,
               record_kind_size |-> <<>>, topic_message_size |-> <<>>]
      BY DEF NoUsage
    <2>. QED  BY <2>1 DEF ScanOK, UsageOK
  <1>2. CollectUsageExact(f) = ScanningFile!Loop(base, f)
    BY DEF CollectUsageExact, Through, ScanningFile!Loop
  <1>. HIDE DEF base
  <1>3. PICK g : /\ CollectUsageExact(f) = g[Len(f)] /\ g[0] = base
                 /\ \A i \in 1..Len(f) : g[i] = ScanTopLevel(g[i - 1], f[i])
    <2>1. Len(f) \in Nat
      BY <1>0
    <2>2. PICK g : ScanningFile!Turns(g, base, f)
      BY <2>1, ScanningFile!LoopTurns
    <2>. QED  BY <1>2, <2>2 DEF ScanningFile!Turns
  <1>. DEFINE T == {m \in Nat : m <= n => ScanOK(g[m])}
  <1>4. 0 \in T
    BY <1>1, <1>3
  <1>5. ASSUME NEW m \in Nat, m \in T PROVE m + 1 \in T
    <2>. SUFFICES ASSUME m + 1 <= n PROVE ScanOK(g[m + 1])
      OBVIOUS
    <2>1. m + 1 \in 1..n /\ (m + 1) - 1 = m /\ m <= n
      BY <1>0
    <2>2. /\ g[m + 1] = ScanTopLevel(g[m], f[m + 1]) /\ RecordOK(f[m + 1]) /\ ScanOK(g[m])
          /\ f[m + 1].op = "Chunk" => RecordsOK(f[m + 1].v.records)
      BY <1>0, <1>3, <1>5, <2>1
    <2>. QED  BY <2>2, ScanTopLevelType
  <1>. HIDE DEF T
  <1>6. n \in T
    BY <1>0, <1>4, <1>5, SetInduction
  <1>. QED  BY <1>0, <1>3, <1>6 DEF T, ScanOK

\* How many threads there are.
LEMMA WorkerCountType ==
    ASSUME NEW s, IsSeq(s)
    PROVE  WorkerCount(s) \in Nat
  <1>. DEFINE S == {Parallelism, MaxApproxWorkers, Len(s)}
  <1>1. S \subseteq Nat /\ S # {}
    BY ParallelismAssumption, IsSeqFacts DEF MaxApproxWorkers
  <1>2. \E x \in S : \A y \in S : x <= y
    BY <1>1, LeastNatural
  <1>3. Min(S) \in S
    BY <1>2 DEF Min
  <1>. QED  BY <1>1, <1>3 DEF WorkerCount

-------------------------------------------------------------------------------
(* The threads.                                                            *)

Places == {"load", "claim", "compute", "report", "push", "exited"}

WorkerOK(x) ==
    /\ x = [at |-> x.at, index |-> x.index, sizes |-> x.sizes, total |-> x.total, error |-> x.error]
    /\ x.at \in Places /\ x.index \in Nat /\ SizeMap(x.sizes) /\ x.total \in Nat

WorkersOK(ws) == IsSeq(ws) /\ \A w \in 1..Len(ws) : WorkerOK(ws[w])
AllSizesOK(s) == IsSeq(s) /\ \A i \in 1..Len(s) : SizesOK(s[i])

\* What each thread holds of a topic, and of all topics; whether it has left
\* the loop, and whether it has ended.
Hands(ws, t) == [v \in DOMAIN ws |-> IF ws[v].at = "exited" THEN 0 ELSE At(ws[v].sizes, t)]
HandTotals(ws) == [v \in DOMAIN ws |-> IF ws[v].at = "exited" THEN 0 ELSE ws[v].total]
Past(ws) == [v \in DOMAIN ws |-> IF ws[v].at \in {"push", "exited"} THEN 1 ELSE 0]
Exits(ws) == [v \in DOMAIN ws |-> IF ws[v].at = "exited" THEN 1 ELSE 0]

\* The chunks gone through without an error, when n have been claimed.
Counted(ws, sizes, n) ==
    {i \in DOMAIN sizes : /\ i <= n /\ sizes[i].error = "none"
                          /\ \A v \in DOMAIN ws : ws[v].at = "compute" => ws[v].index # i}

\* What the chunks of a set hold of a topic, and of all topics.
Due(sizes, is, t) == [i \in DOMAIN sizes |-> IF i \in is THEN At(sizes[i].topics, t) ELSE 0]
DueTotals(sizes, is) == [i \in DOMAIN sizes |-> IF i \in is THEN sizes[i].total ELSE 0]

HeldTopics(ws, ps) ==
    (UNION {DOMAIN ws[v].sizes : v \in {u \in DOMAIN ws : ws[u].at # "exited"}})
    \cup (UNION {DOMAIN ps[p].topics : p \in DOMAIN ps})

\* What the threads hold and have handed in is what the chunks in is hold.
Balanced(ws, ps, sizes, is, T) ==
    /\ \A t \in T : Sum(Hands(ws, t)) + Sum(TopicSizes(ps, t)) = Sum(Due(sizes, is, t))
    /\ Sum(HandTotals(ws)) + Sum(Totals(ps)) = Sum(DueTotals(sizes, is))
    /\ HeldTopics(ws, ps) = UNION {DOMAIN sizes[i].topics : i \in is}

AllTopics == Range(summary.topics) \cup UNION {DOMAIN summary.sizes[i].topics : i \in DOMAIN summary.sizes}

SizesKnown == AllSizesOK(summary.sizes) /\ Len(summary.sizes) = Len(summary.chunk_indexes)

Shape ==
    /\ file \in Files /\ main \in {"start", "approximate", "exact", "topics", "scope", "done"}
    /\ stop \in BOOLEAN /\ next_index \in Nat /\ UsageOK(usage) /\ SummaryOK(summary)
    /\ WorkersOK(worker) /\ AllSizesOK(partials)
    /\ \A p \in 1..Len(partials) : partials[p].error = "none"
    /\ main \notin {"scope", "done"} => worker = <<>>
    /\ worker = <<>> => partials = <<>> /\ next_index = 0 /\ ~stop /\ first_error = "none"
    /\ main = "topics" \/ ByThreads => SizesKnown
    /\ main = "scope" => ByThreads
    /\ main = "done" => \A w \in 1..Len(worker) : worker[w].at = "exited"

\* Each chunk is claimed by one thread, and a thread claims at most once too often.
ClaimsOK ==
    /\ \A w \in 1..Len(worker) : /\ worker[w].index \in 0..Len(summary.chunk_indexes)
                                 /\ worker[w].at = "compute" => worker[w].index \in 1..next_index
    /\ \A v, w \in 1..Len(worker) :
         worker[v].at = "compute" /\ worker[w].at = "compute" /\ worker[v].index = worker[w].index => v = w
    /\ next_index <= Len(summary.chunk_indexes) + Sum(Past(worker))
    /\ Len(partials) <= Sum(Exits(worker))

ErrorOfChunk(e) == e # "none" /\ \E i \in Chunks : SizesOf(i).error = e

\* An error that a thread has met is the error of a chunk, stops the threads,
\* and is not forgotten.
ErrorsOK ==
    /\ \A w \in 1..Len(worker) : worker[w].at = "report" => stop /\ ErrorOfChunk(worker[w].error)
    /\ first_error # "none" => ErrorOfChunk(first_error)
    /\ stop => first_error # "none" \/ \E w \in 1..Len(worker) : worker[w].at = "report"
    /\ ByThreads => \A i \in Chunks :
         SizesOf(i).error # "none" /\ i <= next_index /\ ~stop
         => \E w \in 1..Len(worker) : worker[w].at = "compute" /\ worker[w].index = i
    /\ \A w \in 1..Len(worker) :
         worker[w].at \in {"push", "exited"} => stop \/ next_index >= Len(summary.chunk_indexes)

AllCounted ==
    ByThreads => Balanced(worker, partials, summary.sizes,
                          Counted(worker, summary.sizes, next_index), AllTopics)

DuInv == Shape /\ ClaimsOK /\ ErrorsOK /\ AllCounted /\ ThreadsExact

-------------------------------------------------------------------------------
(* What the sums of the invariant are made of.                             *)

Put(s, w, x) == [s EXCEPT ![w] = x]

\* A sequence with one element replaced.
LEMMA Replaced ==
    ASSUME NEW s, IsSeq(s), NEW w \in 1..Len(s), NEW x
    PROVE  LET t == Put(s, w, x) IN
           /\ IsSeq(t) /\ Len(t) = Len(s) /\ DOMAIN t = 1..Len(s) /\ t[w] = x
           /\ \A v \in 1..Len(s) : v # w => t[v] = s[v]
  <1>. DEFINE t == Put(s, w, x)
  <1>1. Len(s) \in Nat /\ DOMAIN s = 1..Len(s)
    BY IsSeqFacts
  <1>2. DOMAIN t = 1..Len(s) /\ t = [v \in 1..Len(s) |-> t[v]]
    BY <1>1 DEF Put
  <1>3. t[w] = x /\ \A v \in 1..Len(s) : v # w => t[v] = s[v]
    BY <1>1 DEF Put
  <1>. QED  BY <1>1, <1>2, <1>3, FunctionIsSeq

\* What the threads hold are natural numbers, one for each thread.
LEMMA HandsFacts ==
    ASSUME NEW ws, WorkersOK(ws), NEW t
    PROVE  /\ OfLength(Hands(ws, t), Len(ws))
           /\ \A v \in 1..Len(ws) : /\ Hands(ws, t)[v] \in Nat
                                     /\ Hands(ws, t)[v] = IF ws[v].at = "exited" THEN 0 ELSE At(ws[v].sizes, t)
  <1>1. Len(ws) \in Nat /\ DOMAIN ws = 1..Len(ws)
    BY IsSeqFacts DEF WorkersOK
  <1>2. /\ Hands(ws, t) = [v \in 1..Len(ws) |-> Hands(ws, t)[v]]
        /\ \A v \in 1..Len(ws) : Hands(ws, t)[v] = IF ws[v].at = "exited" THEN 0 ELSE At(ws[v].sizes, t)
    BY <1>1 DEF Hands
  <1>3. \A v \in 1..Len(ws) : At(ws[v].sizes, t) \in Nat
    BY AtType DEF WorkersOK, WorkerOK
  <1>. QED  BY <1>1, <1>2, <1>3 DEF OfLength

\* The same of all topics together.
LEMMA HandTotalsFacts ==
    ASSUME NEW ws, WorkersOK(ws)
    PROVE  /\ OfLength(HandTotals(ws), Len(ws))
           /\ \A v \in 1..Len(ws) : /\ HandTotals(ws)[v] \in Nat
                                     /\ HandTotals(ws)[v] = IF ws[v].at = "exited" THEN 0 ELSE ws[v].total
  <1>1. Len(ws) \in Nat /\ DOMAIN ws = 1..Len(ws)
    BY IsSeqFacts DEF WorkersOK
  <1>2. /\ HandTotals(ws) = [v \in 1..Len(ws) |-> HandTotals(ws)[v]]
        /\ \A v \in 1..Len(ws) : HandTotals(ws)[v] = IF ws[v].at = "exited" THEN 0 ELSE ws[v].total
    BY <1>1 DEF HandTotals
  <1>3. \A v \in 1..Len(ws) : ws[v].total \in Nat
    BY DEF WorkersOK, WorkerOK
  <1>. QED  BY <1>1, <1>2, <1>3 DEF OfLength

\* Threads that are past the loop.
LEMMA PastFacts ==
    ASSUME NEW ws, WorkersOK(ws)
    PROVE  /\ OfLength(Past(ws), Len(ws))
           /\ \A v \in 1..Len(ws) : /\ Past(ws)[v] \in 0..1
                                     /\ Past(ws)[v] = IF ws[v].at \in {"push", "exited"} THEN 1 ELSE 0
  <1>1. Len(ws) \in Nat /\ DOMAIN ws = 1..Len(ws)
    BY IsSeqFacts DEF WorkersOK
  <1>2. /\ Past(ws) = [v \in 1..Len(ws) |-> Past(ws)[v]]
        /\ \A v \in 1..Len(ws) : Past(ws)[v] = IF ws[v].at \in {"push", "exited"} THEN 1 ELSE 0
    BY <1>1 DEF Past
  <1>. QED  BY <1>1, <1>2 DEF OfLength

\* Threads that have ended.
LEMMA ExitsFacts ==
    ASSUME NEW ws, WorkersOK(ws)
    PROVE  /\ OfLength(Exits(ws), Len(ws))
           /\ \A v \in 1..Len(ws) : /\ Exits(ws)[v] \in 0..1
                                     /\ Exits(ws)[v] = IF ws[v].at = "exited" THEN 1 ELSE 0
  <1>1. Len(ws) \in Nat /\ DOMAIN ws = 1..Len(ws)
    BY IsSeqFacts DEF WorkersOK
  <1>2. /\ Exits(ws) = [v \in 1..Len(ws) |-> Exits(ws)[v]]
        /\ \A v \in 1..Len(ws) : Exits(ws)[v] = IF ws[v].at = "exited" THEN 1 ELSE 0
    BY <1>1 DEF Exits
  <1>. QED  BY <1>1, <1>2 DEF OfLength

\* What has been handed in of a topic.
LEMMA TopicSizesFacts ==
    ASSUME NEW s, AllSizesOK(s), NEW t
    PROVE  /\ OfLength(TopicSizes(s, t), Len(s))
           /\ \A i \in 1..Len(s) : TopicSizes(s, t)[i] \in Nat /\ TopicSizes(s, t)[i] = At(s[i].topics, t)
  <1>1. Len(s) \in Nat /\ DOMAIN s = 1..Len(s)
    BY IsSeqFacts DEF AllSizesOK
  <1>2. /\ TopicSizes(s, t) = [v \in 1..Len(s) |-> TopicSizes(s, t)[v]]
        /\ \A v \in 1..Len(s) : TopicSizes(s, t)[v] = At(s[v].topics, t)
    BY <1>1 DEF TopicSizes
  <1>3. \A v \in 1..Len(s) : At(s[v].topics, t) \in Nat
    BY AtType DEF AllSizesOK, SizesOK
  <1>. QED  BY <1>1, <1>2, <1>3 DEF OfLength

\* And of all topics together.
LEMMA TotalsFacts ==
    ASSUME NEW s, AllSizesOK(s)
    PROVE  /\ OfLength(Totals(s), Len(s))
           /\ \A i \in 1..Len(s) : Totals(s)[i] \in Nat /\ Totals(s)[i] = s[i].total
  <1>1. Len(s) \in Nat /\ DOMAIN s = 1..Len(s)
    BY IsSeqFacts DEF AllSizesOK
  <1>2. /\ Totals(s) = [v \in 1..Len(s) |-> Totals(s)[v]]
        /\ \A v \in 1..Len(s) : Totals(s)[v] = s[v].total
    BY <1>1 DEF Totals
  <1>3. \A v \in 1..Len(s) : s[v].total \in Nat
    BY DEF AllSizesOK, SizesOK
  <1>. QED  BY <1>1, <1>2, <1>3 DEF OfLength

\* What the chunks of a set hold of a topic.
LEMMA DueFacts ==
    ASSUME NEW s, AllSizesOK(s), NEW is, NEW t
    PROVE  /\ OfLength(Due(s, is, t), Len(s))
           /\ \A i \in 1..Len(s) : /\ Due(s, is, t)[i] \in Nat
                                    /\ Due(s, is, t)[i] = IF i \in is THEN At(s[i].topics, t) ELSE 0
  <1>1. Len(s) \in Nat /\ DOMAIN s = 1..Len(s)
    BY IsSeqFacts DEF AllSizesOK
  <1>2. /\ Due(s, is, t) = [v \in 1..Len(s) |-> Due(s, is, t)[v]]
        /\ \A v \in 1..Len(s) : Due(s, is, t)[v] = IF v \in is THEN At(s[v].topics, t) ELSE 0
    BY <1>1 DEF Due
  <1>3. \A v \in 1..Len(s) : At(s[v].topics, t) \in Nat
    BY AtType DEF AllSizesOK, SizesOK
  <1>. QED  BY <1>1, <1>2, <1>3 DEF OfLength

\* And of all topics together.
LEMMA DueTotalsFacts ==
    ASSUME NEW s, AllSizesOK(s), NEW is
    PROVE  /\ OfLength(DueTotals(s, is), Len(s))
           /\ \A i \in 1..Len(s) : /\ DueTotals(s, is)[i] \in Nat
                                    /\ DueTotals(s, is)[i] = IF i \in is THEN s[i].total ELSE 0
  <1>1. Len(s) \in Nat /\ DOMAIN s = 1..Len(s)
    BY IsSeqFacts DEF AllSizesOK
  <1>2. /\ DueTotals(s, is) = [v \in 1..Len(s) |-> DueTotals(s, is)[v]]
        /\ \A v \in 1..Len(s) : DueTotals(s, is)[v] = IF v \in is THEN s[v].total ELSE 0
    BY <1>1 DEF DueTotals
  <1>3. \A v \in 1..Len(s) : s[v].total \in Nat
    BY DEF AllSizesOK, SizesOK
  <1>. QED  BY <1>1, <1>2, <1>3 DEF OfLength

\* Two sequences with the same elements have the same sum.
LEMMA SumSame ==
    ASSUME NEW s, NEW t, NEW n, OfLength(s, n), OfLength(t, n), \A i \in 1..n : s[i] = t[i]
    PROVE  Sum(s) = Sum(t)
  <1>1. s = [i \in 1..n |-> s[i]] /\ t = [i \in 1..n |-> t[i]]
    BY DEF OfLength
  <1>2. s = t
    BY <1>1
  <1>. QED  BY <1>2

\* What a thread hands in moves from what is held to what is handed in.
LEMMA SumHandedIn ==
    ASSUME NEW n, NEW s, NEW t, OfLength(s, n), OfLength(t, n), NEW w \in 1..n,
           \A v \in 1..n : s[v] \in Nat /\ t[v] \in Nat,
           \A v \in 1..n : v # w => t[v] = s[v],
           NEW m, NEW p, NEW q, OfLength(p, m), OfLength(q, m + 1),
           \A i \in 1..m : q[i] = p[i] /\ p[i] \in Nat,
           t[w] = 0, q[m + 1] = s[w]
    PROVE  Sum(t) + Sum(q) = Sum(s) + Sum(p)
  <1>1. \A v \in 1..n : s[v] \in Int /\ t[v] \in Int
    OBVIOUS
  <1>3. Sum(t) = Sum(s) + t[w] - s[w] /\ Sum(s) \in Int
    BY <1>1, SumChange
  <1>4. Sum(q) = Sum(p) + q[m + 1]
    BY SumAppend
  <1>5. Sum(p) \in Nat
    BY SumType
  <1>. QED  BY <1>1, <1>3, <1>4, <1>5

-------------------------------------------------------------------------------
(* The balance.                                                            *)

\* One thread of several changes.
OneChanges(ws, us, w) ==
    /\ WorkersOK(ws) /\ WorkersOK(us) /\ Len(us) = Len(ws) /\ w \in 1..Len(ws)
    /\ \A v \in 1..Len(ws) : v # w => us[v] = ws[v]

\* A step of a thread that touches nothing it holds.
LEMMA BalanceIdle ==
    ASSUME NEW ws, NEW us, NEW w, OneChanges(ws, us, w),
           ws[w].at # "exited", us[w].at # "exited", us[w].sizes = ws[w].sizes, us[w].total = ws[w].total,
           NEW ps, NEW sizes, NEW is, NEW T, Balanced(ws, ps, sizes, is, T)
    PROVE  Balanced(us, ps, sizes, is, T)
  <1>0. /\ WorkersOK(ws) /\ WorkersOK(us) /\ Len(us) = Len(ws) /\ w \in 1..Len(ws)
        /\ \A v \in 1..Len(ws) : v # w => us[v] = ws[v]
    BY DEF OneChanges
  <1>1. DOMAIN ws = 1..Len(ws) /\ DOMAIN us = 1..Len(ws)
    BY <1>0, IsSeqFacts DEF WorkersOK
  <1>2. \A v \in 1..Len(ws) : /\ us[v].at = "exited" <=> ws[v].at = "exited"
                              /\ us[v].sizes = ws[v].sizes /\ us[v].total = ws[v].total
    BY <1>0
  <1>3. ASSUME NEW t PROVE Sum(Hands(us, t)) = Sum(Hands(ws, t))
    <2>1. Hands(us, t) = Hands(ws, t)
      BY <1>1, <1>2 DEF Hands
    <2>. QED  BY <2>1
  <1>4. HandTotals(us) = HandTotals(ws)
    BY <1>1, <1>2 DEF HandTotals
  <1>5. HeldTopics(us, ps) = HeldTopics(ws, ps)
    <2>1. {u \in DOMAIN us : us[u].at # "exited"} = {u \in DOMAIN ws : ws[u].at # "exited"}
      BY <1>1, <1>2
    <2>2. \A v \in DOMAIN ws : DOMAIN us[v].sizes = DOMAIN ws[v].sizes
      BY <1>1, <1>2
    <2>3. {DOMAIN us[v].sizes : v \in {u \in DOMAIN ws : ws[u].at # "exited"}}
            = {DOMAIN ws[v].sizes : v \in {u \in DOMAIN ws : ws[u].at # "exited"}}
      BY <2>2
    <2>. QED  BY <2>1, <2>3 DEF HeldTopics
  <1>. QED  BY <1>3, <1>4, <1>5 DEF Balanced

\* A thread goes through chunk i.
LEMMA BalanceComputed ==
    ASSUME NEW ws, NEW us, NEW w, OneChanges(ws, us, w),
           NEW ps, AllSizesOK(ps), NEW sizes, AllSizesOK(sizes), NEW i \in 1..Len(sizes),
           ws[w].at # "exited", us[w].at # "exited",
           us[w].sizes = Merged(ws[w].sizes, sizes[i].topics),
           us[w].total = ws[w].total + sizes[i].total,
           NEW is, i \notin is, NEW T, Balanced(ws, ps, sizes, is, T)
    PROVE  Balanced(us, ps, sizes, is \cup {i}, T)
  <1>0. /\ WorkersOK(ws) /\ WorkersOK(us) /\ Len(us) = Len(ws) /\ w \in 1..Len(ws)
        /\ \A v \in 1..Len(ws) : v # w => us[v] = ws[v]
    BY DEF OneChanges
  <1>1. DOMAIN ws = 1..Len(ws) /\ DOMAIN us = 1..Len(ws)
    BY <1>0, IsSeqFacts DEF WorkersOK
  <1>2. SizeMap(ws[w].sizes) /\ SizeMap(sizes[i].topics) /\ ws[w].total \in Nat /\ sizes[i].total \in Nat
    BY <1>0 DEF WorkersOK, WorkerOK, AllSizesOK, SizesOK
  <1>3. ASSUME NEW t \in T
        PROVE  Sum(Hands(us, t)) + Sum(TopicSizes(ps, t)) = Sum(Due(sizes, is \cup {i}, t))
    <2>. DEFINE n == Len(ws)
                m == Len(sizes)
                s == Hands(ws, t)
                u == Hands(us, t)
                d == Due(sizes, is, t)
                e == Due(sizes, is \cup {i}, t)
                p == Sum(TopicSizes(ps, t))
    <2>1. OfLength(s, n) /\ OfLength(u, n) /\ OfLength(d, m) /\ OfLength(e, m)
      BY <1>0, HandsFacts, DueFacts
    <2>2. \A v \in 1..n : s[v] \in Nat /\ u[v] \in Nat
      BY <1>0, HandsFacts
    <2>3. \A j \in 1..m : d[j] \in Nat /\ e[j] \in Nat
      BY DueFacts
    <2>4. \A v \in 1..n : v # w => u[v] = s[v]
      BY <1>0, HandsFacts
    <2>5. \A j \in 1..m : j # i => e[j] = d[j]
      BY DueFacts
    <2>6. u[w] - s[w] = e[i] - d[i]
      <3>1. s[w] = At(ws[w].sizes, t) /\ u[w] = At(us[w].sizes, t)
        BY <1>0, HandsFacts
      <3>2. d[i] = 0 /\ e[i] = At(sizes[i].topics, t)
        BY DueFacts
      <3>3. /\ At(us[w].sizes, t) = At(ws[w].sizes, t) + At(sizes[i].topics, t)
            /\ At(ws[w].sizes, t) \in Nat /\ At(sizes[i].topics, t) \in Nat
        BY <1>2, MergedAt
      <3>. HIDE DEF s, u, d, e
      <3>. QED  BY <3>1, <3>2, <3>3
    <2>7. p \in Nat
      BY TopicSizesFacts, SumType
    <2>8. Sum(s) + p = Sum(d)
      BY DEF Balanced
    <2>9. w \in 1..n /\ i \in 1..m
      BY <1>0
    <2>. HIDE DEF n, m, s, u, d, e, p
    <2>10. Sum(u) = Sum(s) + u[w] - s[w] /\ Sum(s) \in Int
      <3>1. \A v \in 1..n : s[v] \in Int /\ u[v] \in Int
        BY <2>2
      <3>. QED  BY <2>1, <2>4, <2>9, <3>1, SumChange
    <2>11. Sum(e) = Sum(d) + e[i] - d[i] /\ Sum(d) \in Int
      <3>1. \A j \in 1..m : d[j] \in Int /\ e[j] \in Int
        BY <2>3
      <3>. QED  BY <2>1, <2>5, <2>9, <3>1, SumChange
    <2>12. s[w] \in Int /\ u[w] \in Int /\ d[i] \in Int /\ e[i] \in Int
      BY <2>2, <2>3, <2>9
    <2>13. Sum(u) + p = Sum(e)
      BY <2>6, <2>7, <2>8, <2>10, <2>11, <2>12
    <2>. QED  BY <2>13 DEF u, e, p
  <1>4. Sum(HandTotals(us)) + Sum(Totals(ps)) = Sum(DueTotals(sizes, is \cup {i}))
    <2>. DEFINE n == Len(ws)
                m == Len(sizes)
                s == HandTotals(ws)
                u == HandTotals(us)
                d == DueTotals(sizes, is)
                e == DueTotals(sizes, is \cup {i})
                p == Sum(Totals(ps))
    <2>1. OfLength(s, n) /\ OfLength(u, n) /\ OfLength(d, m) /\ OfLength(e, m)
      BY <1>0, HandTotalsFacts, DueTotalsFacts
    <2>2. \A v \in 1..n : s[v] \in Nat /\ u[v] \in Nat
      BY <1>0, HandTotalsFacts
    <2>3. \A j \in 1..m : d[j] \in Nat /\ e[j] \in Nat
      BY DueTotalsFacts
    <2>4. \A v \in 1..n : v # w => u[v] = s[v]
      BY <1>0, HandTotalsFacts
    <2>5. \A j \in 1..m : j # i => e[j] = d[j]
      BY DueTotalsFacts
    <2>6. u[w] - s[w] = e[i] - d[i]
      <3>1. s[w] = ws[w].total /\ u[w] = us[w].total
        BY <1>0, HandTotalsFacts
      <3>2. d[i] = 0 /\ e[i] = sizes[i].total
        BY DueTotalsFacts
      <3>. HIDE DEF s, u, d, e
      <3>. QED  BY <1>2, <3>1, <3>2
    <2>7. p \in Nat
      BY TotalsFacts, SumType
    <2>8. Sum(s) + p = Sum(d)
      BY DEF Balanced
    <2>9. w \in 1..n /\ i \in 1..m
      BY <1>0
    <2>. HIDE DEF n, m, s, u, d, e, p
    <2>10. Sum(u) = Sum(s) + u[w] - s[w] /\ Sum(s) \in Int
      <3>1. \A v \in 1..n : s[v] \in Int /\ u[v] \in Int
        BY <2>2
      <3>. QED  BY <2>1, <2>4, <2>9, <3>1, SumChange
    <2>11. Sum(e) = Sum(d) + e[i] - d[i] /\ Sum(d) \in Int
      <3>1. \A j \in 1..m : d[j] \in Int /\ e[j] \in Int
        BY <2>3
      <3>. QED  BY <2>1, <2>5, <2>9, <3>1, SumChange
    <2>12. s[w] \in Int /\ u[w] \in Int /\ d[i] \in Int /\ e[i] \in Int
      BY <2>2, <2>3, <2>9
    <2>13. Sum(u) + p = Sum(e)
      BY <2>6, <2>7, <2>8, <2>10, <2>11, <2>12
    <2>. QED  BY <2>13 DEF u, e, p
  <1>5. HeldTopics(us, ps) = UNION {DOMAIN sizes[j].topics : j \in is \cup {i}}
    <2>. DEFINE W == {u \in DOMAIN ws : ws[u].at # "exited"}
                D(v) == DOMAIN ws[v].sizes
                E(v) == DOMAIN us[v].sizes
                P == UNION {DOMAIN ps[p].topics : p \in DOMAIN ps}
                F(j) == DOMAIN sizes[j].topics
    <2>1. w \in W /\ {u \in DOMAIN us : us[u].at # "exited"} = W
      BY <1>0, <1>1
    <2>2. E(w) = D(w) \cup F(i)
      BY <1>2, MergedType
    <2>3. \A v \in W : v # w => E(v) = D(v)
      BY <1>0, <1>1
    <2>4. (UNION {D(v) : v \in W}) \cup P = UNION {F(j) : j \in is}
      BY DEF Balanced, HeldTopics
    <2>5. HeldTopics(us, ps) = (UNION {E(v) : v \in W}) \cup P
      BY <2>1 DEF HeldTopics
    <2>. HIDE DEF W, D, E, P, F
    <2>6. UNION {E(v) : v \in W} = (UNION {D(v) : v \in W}) \cup F(i)
      BY <2>1, <2>2, <2>3
    <2>7. UNION {F(j) : j \in is \cup {i}} = (UNION {F(j) : j \in is}) \cup F(i)
      OBVIOUS
    <2>8. HeldTopics(us, ps) = UNION {F(j) : j \in is \cup {i}}
      BY <2>4, <2>5, <2>6, <2>7
    <2>. QED  BY <2>8 DEF F
  <1>. QED  BY <1>3, <1>4, <1>5 DEF Balanced

\* A thread hands in what it holds.
LEMMA BalancePushed ==
    ASSUME NEW ws, NEW us, NEW w, OneChanges(ws, us, w), ws[w].at # "exited", us[w].at = "exited",
           NEW ps, AllSizesOK(ps), NEW qs, AllSizesOK(qs),
           \/ qs = ps /\ ws[w].sizes = <<>> /\ ws[w].total = 0
           \/ qs = Append(ps, Sizes(ws[w].sizes, ws[w].total, "none")),
           NEW sizes, NEW is, NEW T, Balanced(ws, ps, sizes, is, T)
    PROVE  Balanced(us, qs, sizes, is, T)
  <1>0. /\ WorkersOK(ws) /\ WorkersOK(us) /\ Len(us) = Len(ws) /\ w \in 1..Len(ws)
        /\ \A v \in 1..Len(ws) : v # w => us[v] = ws[v]
    BY DEF OneChanges
  <1>1. DOMAIN ws = 1..Len(ws) /\ DOMAIN us = 1..Len(ws) /\ DOMAIN ps = 1..Len(ps) /\ DOMAIN qs = 1..Len(qs)
        /\ Len(ps) \in Nat
    BY <1>0, IsSeqFacts DEF WorkersOK, AllSizesOK
  <1>. DEFINE x == Sizes(ws[w].sizes, ws[w].total, "none")
  <1>2. x.topics = ws[w].sizes /\ x.total = ws[w].total
    BY DEF Sizes
  <1>. DEFINE more == qs = Append(ps, x)
              none == qs = ps /\ ws[w].sizes = <<>> /\ ws[w].total = 0
  <1>3. more => /\ Len(qs) = Len(ps) + 1 /\ qs[Len(ps) + 1] = x
                /\ \A p \in 1..Len(ps) : qs[p] = ps[p]
    BY AppendFacts DEF AllSizesOK
  <1>4. more \/ none
    OBVIOUS
  <1>. HIDE DEF x, more
  <1>5. ASSUME NEW t \in T
        PROVE  Sum(Hands(us, t)) + Sum(TopicSizes(qs, t)) = Sum(Hands(ws, t)) + Sum(TopicSizes(ps, t))
    <2>. DEFINE n == Len(ws)
                m == Len(ps)
                s == Hands(ws, t)
                u == Hands(us, t)
                p == TopicSizes(ps, t)
                q == TopicSizes(qs, t)
    <2>1. OfLength(s, n) /\ OfLength(u, n) /\ OfLength(p, m) /\ OfLength(q, Len(qs))
      BY <1>0, HandsFacts, TopicSizesFacts
    <2>2. \A v \in 1..n : s[v] \in Nat /\ u[v] \in Nat
      BY <1>0, HandsFacts
    <2>3. \A v \in 1..n : v # w => u[v] = s[v]
      BY <1>0, HandsFacts
    <2>4. u[w] = 0 /\ s[w] = At(ws[w].sizes, t)
      BY <1>0, HandsFacts
    <2>5. CASE more
      <3>1. Len(qs) = m + 1
        BY <1>3, <2>5
      <3>2. \A j \in 1..m : q[j] = p[j] /\ p[j] \in Nat
        <4>1. ASSUME NEW j \in 1..m PROVE q[j] = p[j] /\ p[j] \in Nat
          <5>1. j \in 1..Len(qs)
            BY <1>1, <3>1
          <5>. QED  BY <1>3, <2>5, <5>1, TopicSizesFacts
        <4>. QED  BY <4>1
      <3>3. q[m + 1] = s[w]
        <4>1. m + 1 \in 1..Len(qs)
          BY <1>1, <3>1
        <4>. QED  BY <1>2, <1>3, <2>4, <2>5, <4>1, TopicSizesFacts
      <3>4. w \in 1..n
        BY <1>0
      <3>. HIDE DEF n, m, s, u, p, q
      <3>5. Sum(u) + Sum(q) = Sum(s) + Sum(p)
        BY <2>1, <2>2, <2>3, <2>4, <3>1, <3>2, <3>3, <3>4, SumHandedIn
      <3>. QED  BY <3>5 DEF s, u, p, q
    <2>6. CASE none
      <3>1. s[w] = 0
        BY <2>4, <2>6, EmptySizes DEF At, Known
      <3>2. \A v \in 1..n : u[v] = s[v]
        BY <2>3, <2>4, <3>1
      <3>3. Sum(u) = Sum(s)
        <4>. HIDE DEF u, s, n
        <4>. QED  BY <2>1, <3>2, SumSame
      <3>. QED  BY <2>6, <3>3
    <2>. QED  BY <1>4, <2>5, <2>6
  <1>6. Sum(HandTotals(us)) + Sum(Totals(qs)) = Sum(HandTotals(ws)) + Sum(Totals(ps))
    <2>. DEFINE n == Len(ws)
                m == Len(ps)
                s == HandTotals(ws)
                u == HandTotals(us)
                p == Totals(ps)
                q == Totals(qs)
    <2>1. OfLength(s, n) /\ OfLength(u, n) /\ OfLength(p, m) /\ OfLength(q, Len(qs))
      BY <1>0, HandTotalsFacts, TotalsFacts
    <2>2. \A v \in 1..n : s[v] \in Nat /\ u[v] \in Nat
      BY <1>0, HandTotalsFacts
    <2>3. \A v \in 1..n : v # w => u[v] = s[v]
      BY <1>0, HandTotalsFacts
    <2>4. u[w] = 0 /\ s[w] = ws[w].total
      BY <1>0, HandTotalsFacts
    <2>5. CASE more
      <3>1. Len(qs) = m + 1
        BY <1>3, <2>5
      <3>2. \A j \in 1..m : q[j] = p[j] /\ p[j] \in Nat
        <4>1. ASSUME NEW j \in 1..m PROVE q[j] = p[j] /\ p[j] \in Nat
          <5>1. j \in 1..Len(qs)
            BY <1>1, <3>1
          <5>. QED  BY <1>3, <2>5, <5>1, TotalsFacts
        <4>. QED  BY <4>1
      <3>3. q[m + 1] = s[w]
        <4>1. m + 1 \in 1..Len(qs)
          BY <1>1, <3>1
        <4>. QED  BY <1>2, <1>3, <2>4, <2>5, <4>1, TotalsFacts
      <3>4. w \in 1..n
        BY <1>0
      <3>. HIDE DEF n, m, s, u, p, q
      <3>5. Sum(u) + Sum(q) = Sum(s) + Sum(p)
        BY <2>1, <2>2, <2>3, <2>4, <3>1, <3>2, <3>3, <3>4, SumHandedIn
      <3>. QED  BY <3>5 DEF s, u, p, q
    <2>6. CASE none
      <3>2. \A v \in 1..n : u[v] = s[v]
        BY <2>3, <2>4, <2>6
      <3>3. Sum(u) = Sum(s)
        <4>. HIDE DEF u, s, n
        <4>. QED  BY <2>1, <3>2, SumSame
      <3>. QED  BY <2>6, <3>3
    <2>. QED  BY <1>4, <2>5, <2>6
  <1>7. HeldTopics(us, qs) = HeldTopics(ws, ps)
    <2>. DEFINE W == {v \in DOMAIN ws : ws[v].at # "exited"}
                U == {v \in DOMAIN us : us[v].at # "exited"}
                D(v) == DOMAIN ws[v].sizes
                E(v) == DOMAIN us[v].sizes
                P == UNION {DOMAIN ps[p].topics : p \in DOMAIN ps}
                Q == UNION {DOMAIN qs[p].topics : p \in DOMAIN qs}
    <2>1. w \in W /\ U = W \ {w}
      BY <1>0, <1>1
    <2>2. \A v \in W : v # w => E(v) = D(v)
      BY <1>0, <1>1
    <2>3. Q = P \cup D(w)
      <3>1. CASE more
        <4>0. \A n \in Nat : 1..(n + 1) = (1..n) \cup {n + 1}
          OBVIOUS
        <4>1. DOMAIN qs = DOMAIN ps \cup {Len(ps) + 1}
          BY <1>1, <1>3, <3>1, <4>0
        <4>2. DOMAIN qs[Len(ps) + 1].topics = D(w)
          BY <1>2, <1>3, <3>1
        <4>3. \A p \in DOMAIN ps : DOMAIN qs[p].topics = DOMAIN ps[p].topics
          BY <1>1, <1>3, <3>1
        <4>. HIDE DEF D
        <4>. QED  BY <4>1, <4>2, <4>3
      <3>2. CASE none
        BY <3>2, EmptySizes
      <3>. QED  BY <1>4, <3>1, <3>2
    <2>4. HeldTopics(us, qs) = (UNION {E(v) : v \in U}) \cup Q /\ HeldTopics(ws, ps) = (UNION {D(v) : v \in W}) \cup P
      BY DEF HeldTopics
    <2>. HIDE DEF W, U, D, E, P, Q
    <2>5. UNION {E(v) : v \in U} = UNION {D(v) : v \in W \ {w}}
      BY <2>1, <2>2
    <2>6. (UNION {D(v) : v \in W \ {w}}) \cup D(w) = UNION {D(v) : v \in W}
      BY <2>1
    <2>. QED  BY <2>3, <2>4, <2>5, <2>6
  <1>. QED  BY <1>5, <1>6, <1>7 DEF Balanced

-------------------------------------------------------------------------------
(* Steps of the threads.                                                   *)

\* A thread goes from one place to another.
LEMMA GoesFacts ==
    ASSUME WorkersOK(worker), NEW w \in 1..Len(worker), NEW at \in Places, Goes(w, at)
    PROVE  /\ OneChanges(worker, worker', w)
           /\ worker'[w].at = at /\ worker'[w].index = worker[w].index
           /\ worker'[w].sizes = worker[w].sizes /\ worker'[w].total = worker[w].total
           /\ worker'[w].error = worker[w].error
  <1>. DEFINE x == worker[w]
              y == [at |-> at, index |-> x.index, sizes |-> x.sizes, total |-> x.total, error |-> x.error]
  <1>1. IsSeq(worker) /\ WorkerOK(x)
    BY DEF WorkersOK
  <1>2. [x EXCEPT !.at = at] = y
    <2>1. x = [at |-> x.at, index |-> x.index, sizes |-> x.sizes, total |-> x.total, error |-> x.error]
      BY <1>1 DEF WorkerOK
    <2>. HIDE DEF x
    <2>. QED  BY <2>1
  <1>3. worker' = Put(worker, w, y)
    BY <1>2 DEF Goes, Put
  <1>4. WorkerOK(y)
    <2>1. x.index \in Nat /\ SizeMap(x.sizes) /\ x.total \in Nat
      BY <1>1 DEF WorkerOK
    <2>. HIDE DEF x
    <2>. QED  BY <2>1 DEF WorkerOK
  <1>5. y.at = at /\ y.index = x.index /\ y.sizes = x.sizes /\ y.total = x.total /\ y.error = x.error
    OBVIOUS
  <1>. HIDE DEF y
  <1>6. /\ IsSeq(worker') /\ Len(worker') = Len(worker) /\ worker'[w] = y
        /\ \A v \in 1..Len(worker) : v # w => worker'[v] = worker[v]
    BY <1>1, <1>3, Replaced
  <1>7. OneChanges(worker, worker', w)
    BY <1>4, <1>6 DEF OneChanges, WorkersOK
  <1>. QED  BY <1>5, <1>6, <1>7

\* How many threads are past the loop, after a step of one.
LEMMA PastChange ==
    ASSUME NEW ws, NEW us, NEW w, OneChanges(ws, us, w)
    PROVE  /\ Sum(Past(ws)) \in Nat /\ Sum(Past(ws)) <= Len(ws)
           /\ ws[w].at \notin {"push", "exited"} /\ us[w].at \in {"push", "exited"}
              => Sum(Past(us)) = Sum(Past(ws)) + 1
           /\ ws[w].at \notin {"push", "exited"} /\ us[w].at \notin {"push", "exited"}
              => Sum(Past(us)) = Sum(Past(ws))
           /\ ws[w].at \in {"push", "exited"} /\ us[w].at \in {"push", "exited"}
              => Sum(Past(us)) = Sum(Past(ws))
  <1>. DEFINE n == Len(ws)
              s == Past(ws)
              u == Past(us)
  <1>0. /\ WorkersOK(ws) /\ WorkersOK(us) /\ Len(us) = n /\ w \in 1..n
        /\ \A v \in 1..n : v # w => us[v] = ws[v]
    BY DEF OneChanges
  <1>1. OfLength(s, n) /\ OfLength(u, n)
    BY <1>0, PastFacts
  <1>2. \A v \in 1..n : /\ s[v] \in 0..1 /\ s[v] = IF ws[v].at \in {"push", "exited"} THEN 1 ELSE 0
                        /\ u[v] \in 0..1 /\ u[v] = IF us[v].at \in {"push", "exited"} THEN 1 ELSE 0
    BY <1>0, PastFacts
  <1>3. \A v \in 1..n : s[v] \in Int /\ u[v] \in Int /\ s[v] \in Nat /\ s[v] <= 1 /\ (v # w => u[v] = s[v])
    BY <1>0, <1>2
  <1>. HIDE DEF n, s, u
  <1>4. Sum(u) = Sum(s) + u[w] - s[w] /\ Sum(s) \in Int
    BY <1>0, <1>1, <1>3, SumChange
  <1>5. Sum(s) \in Nat /\ Sum(s) <= n
    BY <1>1, <1>3, SumType
  <1>6. /\ s[w] = IF ws[w].at \in {"push", "exited"} THEN 1 ELSE 0
        /\ u[w] = IF us[w].at \in {"push", "exited"} THEN 1 ELSE 0
    BY <1>0, <1>2
  <1>. QED  BY <1>4, <1>5, <1>6 DEF n, s, u

\* How many threads have ended, after a step of one.
LEMMA ExitsChange ==
    ASSUME NEW ws, NEW us, NEW w, OneChanges(ws, us, w), ws[w].at # "exited"
    PROVE  /\ Sum(Exits(ws)) \in Nat
           /\ us[w].at = "exited" => Sum(Exits(us)) = Sum(Exits(ws)) + 1
           /\ us[w].at # "exited" => Sum(Exits(us)) = Sum(Exits(ws))
  <1>. DEFINE n == Len(ws)
              s == Exits(ws)
              u == Exits(us)
  <1>0. /\ WorkersOK(ws) /\ WorkersOK(us) /\ Len(us) = n /\ w \in 1..n
        /\ \A v \in 1..n : v # w => us[v] = ws[v]
    BY DEF OneChanges
  <1>1. OfLength(s, n) /\ OfLength(u, n)
    BY <1>0, ExitsFacts
  <1>2. \A v \in 1..n : /\ s[v] \in 0..1 /\ s[v] = IF ws[v].at = "exited" THEN 1 ELSE 0
                        /\ u[v] \in 0..1 /\ u[v] = IF us[v].at = "exited" THEN 1 ELSE 0
    BY <1>0, ExitsFacts
  <1>3. \A v \in 1..n : s[v] \in Int /\ u[v] \in Int /\ s[v] \in Nat /\ (v # w => u[v] = s[v])
    BY <1>0, <1>2
  <1>. HIDE DEF n, s, u
  <1>4. Sum(u) = Sum(s) + u[w] - s[w] /\ Sum(s) \in Int
    <2>1. \A v \in 1..n : s[v] \in Int /\ u[v] \in Int
      BY <1>3
    <2>2. \A v \in 1..n : v # w => u[v] = s[v]
      BY <1>3
    <2>. QED  BY <1>0, <1>1, <2>1, <2>2, SumChange
  <1>5. Sum(s) \in Nat
    BY <1>1, <1>3, SumType
  <1>6. /\ s[w] = IF ws[w].at = "exited" THEN 1 ELSE 0
        /\ u[w] = IF us[w].at = "exited" THEN 1 ELSE 0
    BY <1>0, <1>2
  <1>. QED  BY <1>4, <1>5, <1>6 DEF n, s, u

\* What a state with threads is like.
LEMMA InScope ==
    ASSUME DuInv, NEW w \in DOMAIN worker
    PROVE  /\ ByThreads /\ SizesKnown /\ w \in 1..Len(worker) /\ WorkerOK(worker[w]) /\ WorkersOK(worker)
           /\ worker[w].at # "exited" => main = "scope"
           /\ Chunks = 1..Len(summary.chunk_indexes) /\ Len(summary.chunk_indexes) \in Nat
           /\ next_index \in Nat
  <1>1. WorkersOK(worker) /\ DOMAIN worker = 1..Len(worker) /\ next_index \in Nat
    BY IsSeqFacts DEF DuInv, Shape, WorkersOK
  <1>2. worker # <<>>
    <2>1. Len(<<>>) = 0
      BY EmptyFacts
    <2>. QED  BY <1>1, <2>1
  <1>3. main \in {"scope", "done"}
    BY <1>2 DEF DuInv, Shape
  <1>4. Chunks = 1..Len(summary.chunk_indexes) /\ Len(summary.chunk_indexes) \in Nat
    BY IsSeqFacts DEF DuInv, Shape, SummaryOK, IndexesOK, Chunks
  <1>. QED  BY <1>1, <1>2, <1>3, <1>4 DEF DuInv, Shape, ByThreads, WorkersOK

\* What a step of a thread that has not ended leaves as it is.
LEMMA ThreadFrame ==
    ASSUME DuInv, NEW w \in DOMAIN worker, worker[w].at # "exited", WorkerStep,
           OneChanges(worker, worker', w), next_index' \in Nat, stop' \in BOOLEAN,
           AllSizesOK(partials'), \A p \in 1..Len(partials') : partials'[p].error = "none"
    PROVE  /\ Shape' /\ ThreadsExact' /\ summary' = summary /\ Len(worker') = Len(worker)
           /\ \A v \in 1..Len(worker) : v # w => worker'[v] = worker[v]
  <1>1. ByThreads /\ SizesKnown /\ w \in 1..Len(worker) /\ main = "scope"
    BY InScope
  <1>2. /\ WorkersOK(worker') /\ Len(worker') = Len(worker)
        /\ \A v \in 1..Len(worker) : v # w => worker'[v] = worker[v]
    BY DEF OneChanges
  <1>3. worker' # <<>>
    <2>1. Len(<<>>) = 0
      BY EmptyFacts
    <2>. QED  BY <1>1, <1>2, <2>1
  <1>4. file' = file /\ main' = "scope" /\ usage' = usage /\ error' = error /\ summary' = summary
    BY <1>1 DEF WorkerStep
  <1>5. ThreadsExact'
    BY <1>4 DEF ThreadsExact
  <1>6. SizesKnown' /\ SummaryOK(summary') /\ UsageOK(usage') /\ file' \in Files
    BY <1>1, <1>4 DEF SizesKnown, DuInv, Shape
  <1>7. Shape'
    BY <1>2, <1>3, <1>4, <1>6 DEF Shape, ByThreads
  <1>. QED  BY <1>2, <1>4, <1>5, <1>7

\* A thread that was not in a chunk, and is not in one now, counts for nothing.
LEMMA CountedSame ==
    ASSUME NEW ws, NEW us, NEW w, OneChanges(ws, us, w), ws[w].at # "compute", us[w].at # "compute",
           NEW sizes, NEW n
    PROVE  Counted(us, sizes, n) = Counted(ws, sizes, n)
  <1>0. /\ WorkersOK(ws) /\ WorkersOK(us) /\ Len(us) = Len(ws) /\ w \in 1..Len(ws)
        /\ \A v \in 1..Len(ws) : v # w => us[v] = ws[v]
    BY DEF OneChanges
  <1>1. DOMAIN ws = 1..Len(ws) /\ DOMAIN us = 1..Len(ws)
    BY <1>0, IsSeqFacts DEF WorkersOK
  <1>2. \A v \in 1..Len(ws) : us[v].at = "compute" <=> ws[v].at = "compute"
    BY <1>0
  <1>3. \A v \in 1..Len(ws) : us[v].at = "compute" => us[v].index = ws[v].index
    BY <1>0
  <1>. QED  BY <1>1, <1>2, <1>3 DEF Counted

\* A step between two chunks.
LEMMA IdleStep ==
    ASSUME DuInv, NEW w \in DOMAIN worker, worker[w].at \in {"load", "report"},
           NEW at \in {"claim", "push"}, Goes(w, at), WorkerStep,
           next_index' = next_index, stop' = stop, partials' = partials
    PROVE  /\ Shape' /\ ThreadsExact' /\ ClaimsOK' /\ AllCounted' /\ summary' = summary
           /\ w \in 1..Len(worker) /\ Len(worker') = Len(worker) /\ worker'[w].at = at
           /\ \A v \in 1..Len(worker) : v # w => worker'[v] = worker[v]
  <1>0. /\ ByThreads /\ SizesKnown /\ w \in 1..Len(worker) /\ WorkersOK(worker)
        /\ next_index \in Nat /\ stop \in BOOLEAN
    BY InScope DEF DuInv, Shape
  <1>3. /\ OneChanges(worker, worker', w)
        /\ worker'[w].at = at /\ worker'[w].index = worker[w].index
        /\ worker'[w].sizes = worker[w].sizes /\ worker'[w].total = worker[w].total
    BY <1>0, GoesFacts DEF Places
  <1>4. /\ Shape' /\ ThreadsExact' /\ summary' = summary /\ Len(worker') = Len(worker)
        /\ \A v \in 1..Len(worker) : v # w => worker'[v] = worker[v]
    <2>1. AllSizesOK(partials') /\ \A p \in 1..Len(partials') : partials'[p].error = "none"
      BY DEF DuInv, Shape
    <2>. QED  BY <1>0, <1>3, <2>1, ThreadFrame
  <1>5. ClaimsOK'
    <2>1. Sum(Past(worker)) \in Nat
      BY <1>3, PastChange
    <2>2. Sum(Exits(worker')) = Sum(Exits(worker))
      BY <1>3, ExitsChange
    <2>3. Len(summary.chunk_indexes) \in Nat /\ next_index <= Len(summary.chunk_indexes) + Sum(Past(worker'))
      <3>1. next_index <= Len(summary.chunk_indexes) + Sum(Past(worker)) /\ Len(summary.chunk_indexes) \in Nat
        BY InScope DEF DuInv, ClaimsOK
      <3>2. Sum(Past(worker')) = Sum(Past(worker)) \/ Sum(Past(worker')) = Sum(Past(worker)) + 1
        BY <1>3, PastChange
      <3>. QED  BY <1>0, <2>1, <3>1, <3>2
    <2>4. \A v \in 1..Len(worker) : /\ worker'[v].index = worker[v].index
                                    /\ worker'[v].at = "compute" => worker[v].at = "compute"
      BY <1>3, <1>4
    <2>. QED  BY <1>4, <2>2, <2>3, <2>4 DEF DuInv, ClaimsOK
  <1>7. AllCounted'
    <2>1. Counted(worker', summary.sizes, next_index) = Counted(worker, summary.sizes, next_index)
      BY <1>3, CountedSame
    <2>2. Balanced(worker, partials, summary.sizes, Counted(worker, summary.sizes, next_index), AllTopics)
      BY <1>0 DEF DuInv, AllCounted
    <2>3. Balanced(worker', partials, summary.sizes, Counted(worker, summary.sizes, next_index), AllTopics)
      BY <1>3, <2>2, BalanceIdle
    <2>4. AllTopics' = AllTopics
      BY <1>4 DEF AllTopics
    <2>. QED  BY <1>4, <2>1, <2>3, <2>4 DEF AllCounted
  <1>. QED  BY <1>0, <1>3, <1>4, <1>5, <1>7

\* Loading stop.
LEMMA LoadStopKeeps ==
    ASSUME DuInv, NEW w \in DOMAIN worker, LoadStop(w)
    PROVE  DuInv'
  <1>1. /\ WorkerStep /\ next_index' = next_index /\ stop' = stop /\ first_error' = first_error
        /\ partials' = partials /\ worker[w].at = "load"
    BY DEF LoadStop
  <1>2. PICK at \in {"claim", "push"} : Goes(w, at) /\ (at = "push" => stop)
    BY DEF LoadStop
  <1>3. /\ Shape' /\ ThreadsExact' /\ ClaimsOK' /\ AllCounted' /\ summary' = summary
        /\ w \in 1..Len(worker) /\ Len(worker') = Len(worker) /\ worker'[w].at = at
        /\ \A v \in 1..Len(worker) : v # w => worker'[v] = worker[v]
    BY <1>1, <1>2, IdleStep
  <1>4. ByThreads
    BY InScope
  <1>6. ErrorsOK'
    <2>1. \A v \in 1..Len(worker) :
            /\ worker'[v].at = "report" <=> worker[v].at = "report"
            /\ worker'[v].at = "compute" <=> worker[v].at = "compute"
            /\ worker[v].at \in {"compute", "report"} => worker'[v] = worker[v]
            /\ worker'[v].at \in {"push", "exited"} => stop \/ worker[v].at \in {"push", "exited"}
      BY <1>1, <1>2, <1>3
    <2>2. \A e : ErrorOfChunk(e)' <=> ErrorOfChunk(e)
      BY <1>3 DEF ErrorOfChunk, Chunks, SizesOf
    <2>. QED  BY <1>1, <1>3, <1>4, <2>1, <2>2 DEF DuInv, ErrorsOK, Chunks, SizesOf, ErrorOfChunk
  <1>. QED  BY <1>3, <1>6 DEF DuInv

\* Reporting an error.
LEMMA ReportErrorKeeps ==
    ASSUME DuInv, NEW w \in DOMAIN worker, ReportError(w)
    PROVE  DuInv'
  <1>1. /\ WorkerStep /\ next_index' = next_index /\ stop' = stop /\ Goes(w, "push")
        /\ first_error' = (IF first_error = "none" THEN worker[w].error ELSE first_error)
        /\ partials' = partials /\ worker[w].at = "report"
    BY DEF ReportError
  <1>3. /\ Shape' /\ ThreadsExact' /\ ClaimsOK' /\ AllCounted' /\ summary' = summary
        /\ w \in 1..Len(worker) /\ Len(worker') = Len(worker) /\ worker'[w].at = "push"
        /\ \A v \in 1..Len(worker) : v # w => worker'[v] = worker[v]
    BY <1>1, IdleStep
  <1>4. ByThreads
    BY InScope
  <1>5. stop /\ ErrorOfChunk(worker[w].error) /\ worker[w].error # "none"
    BY <1>1, <1>3 DEF DuInv, ErrorsOK, ErrorOfChunk
  <1>6. ErrorsOK'
    <2>1. \A v \in 1..Len(worker) :
            /\ worker'[v].at = "report" => worker[v].at = "report"
            /\ worker'[v].at = "compute" <=> worker[v].at = "compute"
            /\ worker[v].at = "compute" \/ worker'[v].at = "report" => worker'[v] = worker[v]
      BY <1>1, <1>3
    <2>2. \A e : ErrorOfChunk(e)' <=> ErrorOfChunk(e)
      BY <1>3 DEF ErrorOfChunk, Chunks, SizesOf
    <2>3. first_error' # "none" /\ ErrorOfChunk(first_error')
      BY <1>1, <1>5 DEF DuInv, ErrorsOK
    <2>4. ErrorOfChunk(first_error)'
      BY <2>3, <1>3 DEF ErrorOfChunk, Chunks, SizesOf
    <2>5. \A v \in 1..Len(worker') : worker'[v].at = "report" => ErrorOfChunk(worker[v].error)'
      BY <1>3, <2>1 DEF DuInv, ErrorsOK, ErrorOfChunk, Chunks, SizesOf
    <2>. QED  BY <1>1, <1>5, <2>3, <2>4, <2>5 DEF ErrorsOK
  <1>. QED  BY <1>3, <1>6 DEF DuInv

Worker(at, index, sizes, total, why) ==
    [at |-> at, index |-> index, sizes |-> sizes, total |-> total, error |-> why]

\* A thread in a known state.
LEMMA WorkerRecord ==
    ASSUME NEW at \in Places, NEW index \in Nat, NEW sizes, SizeMap(sizes), NEW total \in Nat, NEW why
    PROVE  LET x == Worker(at, index, sizes, total, why) IN
           /\ WorkerOK(x) /\ x.at = at /\ x.index = index /\ x.sizes = sizes /\ x.total = total /\ x.error = why
  BY DEF Worker, WorkerOK

\* A thread is put into a known state.
LEMMA PutWorker ==
    ASSUME NEW ws, WorkersOK(ws), NEW w \in 1..Len(ws), NEW x, WorkerOK(x)
    PROVE  OneChanges(ws, Put(ws, w, x), w) /\ Put(ws, w, x)[w] = x
  <1>. DEFINE us == Put(ws, w, x)
  <1>1. IsSeq(ws) /\ \A v \in 1..Len(ws) : WorkerOK(ws[v])
    BY DEF WorkersOK
  <1>2. /\ IsSeq(us) /\ Len(us) = Len(ws) /\ us[w] = x
        /\ \A v \in 1..Len(ws) : v # w => us[v] = ws[v]
    BY <1>1, Replaced
  <1>. HIDE DEF us
  <1>. QED  BY <1>1, <1>2 DEF OneChanges, WorkersOK, us

\* Putting twice is putting once.
LEMMA PutTwice ==
    ASSUME NEW ws, IsSeq(ws), NEW w \in 1..Len(ws), NEW x, NEW y
    PROVE  Put(Put(ws, w, x), w, y) = Put(ws, w, y) /\ Put(ws, w, x)[w] = x
  BY IsSeqFacts DEF Put

\* A thread claims a chunk.
LEMMA ClaimedFacts ==
    ASSUME WorkersOK(worker), NEW w \in 1..Len(worker), NEW i \in Nat,
           worker' = [worker EXCEPT ![w].at = "compute", ![w].index = i]
    PROVE  /\ OneChanges(worker, worker', w)
           /\ worker'[w].at = "compute" /\ worker'[w].index = i
           /\ worker'[w].sizes = worker[w].sizes /\ worker'[w].total = worker[w].total
  <1>. DEFINE x == worker[w]
              a == [x EXCEPT !.at = "compute"]
              one == Put(worker, w, a)
              b == [one[w] EXCEPT !.index = i]
              y == Worker("compute", i, x.sizes, x.total, x.error)
  <1>1. IsSeq(worker) /\ WorkerOK(x)
    BY DEF WorkersOK
  <1>2. worker' = Put(one, w, b)
    BY DEF Put
  <1>3. one[w] = a /\ Put(one, w, b) = Put(worker, w, b)
    <2>. HIDE DEF a, b
    <2>. QED  BY <1>1, PutTwice
  <1>4. b = y
    <2>1. x = [at |-> x.at, index |-> x.index, sizes |-> x.sizes, total |-> x.total, error |-> x.error]
      BY <1>1 DEF WorkerOK
    <2>. HIDE DEF x, one
    <2>2. a = [at |-> "compute", index |-> x.index, sizes |-> x.sizes, total |-> x.total, error |-> x.error]
      BY <2>1
    <2>. HIDE DEF a
    <2>. QED  BY <1>3, <2>2 DEF Worker
  <1>5. x.index \in Nat /\ SizeMap(x.sizes) /\ x.total \in Nat
    BY <1>1 DEF WorkerOK
  <1>6. WorkerOK(y) /\ y.at = "compute" /\ y.index = i /\ y.sizes = x.sizes /\ y.total = x.total
    <2>. HIDE DEF x
    <2>. QED  BY <1>5, WorkerRecord DEF Places
  <1>. HIDE DEF y, a, b, one
  <1>7. worker' = Put(worker, w, y)
    BY <1>2, <1>3, <1>4
  <1>9. OneChanges(worker, Put(worker, w, y), w) /\ Put(worker, w, y)[w] = y
    BY <1>6, PutWorker
  <1>. QED  BY <1>6, <1>7, <1>9

MoreFound(ws, w, z) ==
    [ws EXCEPT ![w].at = "load", ![w].sizes = Merged(@, z.topics), ![w].total = @ + z.total]

\* A thread has gone through a chunk.
LEMMA ComputedFacts ==
    ASSUME WorkersOK(worker), NEW w \in 1..Len(worker), NEW z, SizesOK(z),
           worker' = MoreFound(worker, w, z)
    PROVE  /\ OneChanges(worker, worker', w)
           /\ worker'[w].at = "load" /\ worker'[w].index = worker[w].index
           /\ worker'[w].sizes = Merged(worker[w].sizes, z.topics)
           /\ worker'[w].total = worker[w].total + z.total
  <1>. DEFINE x == worker[w]
              a == [x EXCEPT !.at = "load"]
              one == Put(worker, w, a)
              b == [one[w] EXCEPT !.sizes = Merged(worker[w].sizes, z.topics)]
              two == Put(one, w, b)
              c == [two[w] EXCEPT !.total = worker[w].total + z.total]
              y == Worker("load", x.index, Merged(x.sizes, z.topics), x.total + z.total, x.error)
  <1>1. IsSeq(worker) /\ WorkerOK(x)
    BY DEF WorkersOK
  <1>2. worker' = Put(two, w, c)
    BY DEF Put, MoreFound
  <1>3. one[w] = a /\ two = Put(worker, w, b)
    <2>. HIDE DEF a, b
    <2>. QED  BY <1>1, PutTwice
  <1>4. two[w] = b /\ Put(two, w, c) = Put(worker, w, c)
    <2>. HIDE DEF b, c, two
    <2>. QED  BY <1>1, <1>3, PutTwice
  <1>5. c = y
    <2>1. x = [at |-> x.at, index |-> x.index, sizes |-> x.sizes, total |-> x.total, error |-> x.error]
      BY <1>1 DEF WorkerOK
    <2>. DEFINE m == Merged(x.sizes, z.topics)
                n == x.total + z.total
    <2>0. b = [one[w] EXCEPT !.sizes = m] /\ c = [two[w] EXCEPT !.total = n]
      OBVIOUS
    <2>. HIDE DEF x, one, two, b, c, m, n
    <2>2. a = [at |-> "load", index |-> x.index, sizes |-> x.sizes, total |-> x.total, error |-> x.error]
      BY <2>1
    <2>. HIDE DEF a
    <2>3. b = [at |-> "load", index |-> x.index, sizes |-> m, total |-> x.total, error |-> x.error]
      BY <1>3, <2>0, <2>2
    <2>4. c = [at |-> "load", index |-> x.index, sizes |-> m, total |-> n, error |-> x.error]
      BY <1>4, <2>0, <2>3
    <2>. QED  BY <2>4 DEF Worker, m, n
  <1>6. x.index \in Nat /\ SizeMap(Merged(x.sizes, z.topics)) /\ x.total + z.total \in Nat
    <2>1. SizeMap(x.sizes) /\ SizeMap(z.topics) /\ x.total \in Nat /\ z.total \in Nat /\ x.index \in Nat
      BY <1>1 DEF WorkerOK, SizesOK
    <2>. HIDE DEF x
    <2>2. SizeMap(Merged(x.sizes, z.topics))
      BY <2>1, MergedType
    <2>. QED  BY <2>1, <2>2
  <1>7. /\ WorkerOK(y) /\ y.at = "load" /\ y.index = x.index /\ y.sizes = Merged(x.sizes, z.topics)
        /\ y.total = x.total + z.total
    <2>. HIDE DEF x
    <2>. QED  BY <1>6, WorkerRecord DEF Places
  <1>. HIDE DEF y, a, b, c, one, two
  <1>8. worker' = Put(worker, w, y)
    BY <1>2, <1>4, <1>5
  <1>9. OneChanges(worker, Put(worker, w, y), w) /\ Put(worker, w, y)[w] = y
    BY <1>7, PutWorker
  <1>. QED  BY <1>7, <1>8, <1>9

\* A thread has met an error.
LEMMA MetErrorFacts ==
    ASSUME WorkersOK(worker), NEW w \in 1..Len(worker), NEW why,
           worker' = [worker EXCEPT ![w].at = "report", ![w].error = why]
    PROVE  /\ OneChanges(worker, worker', w)
           /\ worker'[w].at = "report" /\ worker'[w].index = worker[w].index /\ worker'[w].error = why
           /\ worker'[w].sizes = worker[w].sizes /\ worker'[w].total = worker[w].total
  <1>. DEFINE x == worker[w]
              a == [x EXCEPT !.at = "report"]
              one == Put(worker, w, a)
              b == [one[w] EXCEPT !.error = why]
              y == Worker("report", x.index, x.sizes, x.total, why)
  <1>1. IsSeq(worker) /\ WorkerOK(x)
    BY DEF WorkersOK
  <1>2. worker' = Put(one, w, b)
    BY DEF Put
  <1>3. one[w] = a /\ Put(one, w, b) = Put(worker, w, b)
    <2>. HIDE DEF a, b
    <2>. QED  BY <1>1, PutTwice
  <1>4. b = y
    <2>1. x = [at |-> x.at, index |-> x.index, sizes |-> x.sizes, total |-> x.total, error |-> x.error]
      BY <1>1 DEF WorkerOK
    <2>. HIDE DEF x, one
    <2>2. a = [at |-> "report", index |-> x.index, sizes |-> x.sizes, total |-> x.total, error |-> x.error]
      BY <2>1
    <2>. HIDE DEF a
    <2>. QED  BY <1>3, <2>2 DEF Worker
  <1>5. x.index \in Nat /\ SizeMap(x.sizes) /\ x.total \in Nat
    BY <1>1 DEF WorkerOK
  <1>6. WorkerOK(y) /\ y.at = "report" /\ y.index = x.index /\ y.sizes = x.sizes /\ y.total = x.total /\ y.error = why
    <2>. HIDE DEF x
    <2>. QED  BY <1>5, WorkerRecord DEF Places
  <1>. HIDE DEF y, a, b, one
  <1>7. worker' = Put(worker, w, y)
    BY <1>2, <1>3, <1>4
  <1>9. OneChanges(worker, Put(worker, w, y), w) /\ Put(worker, w, y)[w] = y
    BY <1>6, PutWorker
  <1>. QED  BY <1>6, <1>7, <1>9

\* Claiming the next chunk, or finding that there is none left.
LEMMA ClaimKeeps ==
    ASSUME DuInv, NEW w \in DOMAIN worker, Claim(w)
    PROVE  DuInv'
  <1>. DEFINE C == Len(summary.chunk_indexes)
              k == next_index + 1
  <1>0. /\ ByThreads /\ SizesKnown /\ w \in 1..Len(worker) /\ WorkersOK(worker)
        /\ next_index \in Nat /\ stop \in BOOLEAN /\ C \in Nat /\ Chunks = 1..C
    BY InScope DEF DuInv, Shape
  <1>1. /\ WorkerStep /\ next_index' = k /\ stop' = stop /\ first_error' = first_error
        /\ partials' = partials /\ worker[w].at = "claim"
        /\ \/ k > C /\ Goes(w, "push")
           \/ ~(k > C) /\ worker' = [worker EXCEPT ![w].at = "compute", ![w].index = k]
    BY DEF Claim, Claims
  <1>2. /\ OneChanges(worker, worker', w)
        /\ worker'[w].sizes = worker[w].sizes /\ worker'[w].total = worker[w].total
        /\ \/ k > C /\ worker'[w].at = "push" /\ worker'[w].index = worker[w].index
           \/ k <= C /\ worker'[w].at = "compute" /\ worker'[w].index = k
    <2>1. CASE k > C /\ Goes(w, "push")
      BY <1>0, <2>1, GoesFacts DEF Places
    <2>2. CASE ~(k > C) /\ worker' = [worker EXCEPT ![w].at = "compute", ![w].index = k]
      <3>1. k \in Nat /\ k <= C
        BY <1>0, <2>2
      <3>. HIDE DEF k, C
      <3>. QED  BY <1>0, <2>2, <3>1, ClaimedFacts
    <2>. QED  BY <1>1, <2>1, <2>2
  <1>3. /\ Shape' /\ ThreadsExact' /\ summary' = summary /\ Len(worker') = Len(worker)
        /\ \A v \in 1..Len(worker) : v # w => worker'[v] = worker[v]
    <2>1. AllSizesOK(partials') /\ \A p \in 1..Len(partials') : partials'[p].error = "none"
      BY <1>1 DEF DuInv, Shape
    <2>2. next_index' \in Nat /\ stop' \in BOOLEAN
      BY <1>0, <1>1
    <2>. QED  BY <1>1, <1>2, <2>1, <2>2, ThreadFrame
  <1>4. ClaimsOK'
    <2>i. \A v \in 1..Len(worker) : /\ worker[v].index \in 0..C
                                    /\ worker[v].at = "compute" => worker[v].index \in 1..next_index
      BY DEF DuInv, ClaimsOK
    <2>0. /\ \A u, v \in 1..Len(worker) :
               worker[u].at = "compute" /\ worker[v].at = "compute" /\ worker[u].index = worker[v].index => u = v
          /\ next_index <= C + Sum(Past(worker)) /\ Len(partials) <= Sum(Exits(worker))
      BY DEF DuInv, ClaimsOK
    <2>1. Sum(Exits(worker')) = Sum(Exits(worker))
      BY <1>1, <1>2, ExitsChange
    <2>2. next_index' <= C + Sum(Past(worker'))
      <3>1. Sum(Past(worker)) \in Nat
        BY <1>2, PastChange
      <3>2. CASE k > C /\ worker'[w].at = "push"
        <4>1. Sum(Past(worker')) = Sum(Past(worker)) + 1
          BY <1>1, <1>2, <3>2, PastChange
        <4>. QED  BY <1>0, <1>1, <2>0, <3>1, <4>1
      <3>3. CASE k <= C /\ worker'[w].at = "compute"
        <4>1. Sum(Past(worker')) = Sum(Past(worker))
          BY <1>1, <1>2, <3>3, PastChange
        <4>. QED  BY <1>0, <1>1, <3>1, <3>3, <4>1
      <3>. QED  BY <1>2, <3>2, <3>3
    <2>3. ASSUME NEW v \in 1..Len(worker)
          PROVE  /\ worker'[v].index \in 0..C
                 /\ worker'[v].at = "compute" => worker'[v].index \in 1..next_index'
      <3>0. worker[v].index \in 0..C /\ (worker[v].at = "compute" => worker[v].index \in 1..next_index)
        <4>. HIDE DEF C
        <4>. QED  BY <2>i
      <3>n. next_index' = k
        BY <1>1
      <3>1. CASE v = w
        <4>1. k \in 1..k /\ (k <= C => k \in 0..C)
          BY <1>0
        <4>. HIDE DEF k, C
        <4>. QED  BY <1>2, <3>0, <3>n, <3>1, <4>1
      <3>2. CASE v # w
        <4>1. worker'[v] = worker[v]
          BY <1>3, <3>2
        <4>2. 1..next_index \subseteq 1..k
          BY <1>0
        <4>. HIDE DEF k, C
        <4>. QED  BY <3>n, <3>0, <4>1, <4>2
      <3>. QED  BY <3>1, <3>2
    <2>4. ASSUME NEW u \in 1..Len(worker), NEW v \in 1..Len(worker),
                 worker'[u].at = "compute", worker'[v].at = "compute", worker'[u].index = worker'[v].index
          PROVE  u = v
      <3>1. CASE u # w /\ v # w
        <4>1. worker'[u] = worker[u] /\ worker'[v] = worker[v]
          BY <1>3, <3>1
        <4>. QED  BY <2>0, <2>4, <4>1
      <3>2. \A x \in 1..Len(worker) : x # w /\ worker'[x].at = "compute" => worker'[x].index < k
        <4>1. \A x \in 1..Len(worker) : x # w /\ worker'[x].at = "compute" => worker'[x].index \in 1..next_index
          <5>. SUFFICES ASSUME NEW x \in 1..Len(worker), x # w, worker'[x].at = "compute"
                        PROVE  worker'[x].index \in 1..next_index
            OBVIOUS
          <5>1. worker'[x] = worker[x]
            BY <1>3
          <5>2. worker[x].at = "compute" => worker[x].index \in 1..next_index
            <6>. HIDE DEF C
            <6>. QED  BY <2>i
          <5>. QED  BY <5>1, <5>2
        <4>. QED  BY <1>0, <4>1
      <3>3. worker'[w].at = "compute" => worker'[w].index = k
        BY <1>2
      <3>4. ~(k < k)
        BY <1>0
      <3>. HIDE DEF k
      <3>. QED  BY <2>4, <3>1, <3>2, <3>3, <3>4
    <2>5. next_index' <= Len(summary'.chunk_indexes) + Sum(Past(worker'))
      BY <1>3, <2>2
    <2>. HIDE DEF k
    <2>. QED  BY <1>1, <1>3, <2>0, <2>1, <2>3, <2>4, <2>5 DEF ClaimsOK
  <1>5. ErrorsOK'
    <2>0. /\ \A v \in 1..Len(worker) : worker[v].at = "report" => stop /\ ErrorOfChunk(worker[v].error)
          /\ first_error # "none" => ErrorOfChunk(first_error)
          /\ stop => first_error # "none" \/ \E v \in 1..Len(worker) : worker[v].at = "report"
          /\ \A i \in Chunks :
               SizesOf(i).error # "none" /\ i <= next_index /\ ~stop
               => \E v \in 1..Len(worker) : worker[v].at = "compute" /\ worker[v].index = i
          /\ \A v \in 1..Len(worker) :
               worker[v].at \in {"push", "exited"} => stop \/ next_index >= C
      BY <1>0 DEF DuInv, ErrorsOK
    <2>1. \A v \in 1..Len(worker) :
            /\ worker'[v].at = "report" <=> worker[v].at = "report"
            /\ worker[v].at \in {"compute", "report"} => worker'[v] = worker[v]
      BY <1>1, <1>2, <1>3
    <2>2. /\ Chunks' = Chunks /\ \A i : SizesOf(i)' = SizesOf(i)
      BY <1>3 DEF Chunks, SizesOf
    <2>3. ASSUME NEW i \in Chunks, SizesOf(i).error # "none", i <= next_index', ~stop
          PROVE  \E v \in 1..Len(worker) : worker'[v].at = "compute" /\ worker'[v].index = i
      <3>1. CASE i <= next_index
        BY <2>0, <2>1, <2>3, <3>1
      <3>2. CASE ~(i <= next_index)
        <4>1. i = k /\ k <= C
          BY <1>0, <1>1, <2>3, <3>2
        <4>2. worker'[w].at = "compute" /\ worker'[w].index = k
          <5>1. ~(k > C)
            BY <1>0, <4>1
          <5>. QED  BY <1>2, <5>1
        <4>. QED  BY <1>0, <4>1, <4>2
      <3>. QED  BY <3>1, <3>2
    <2>4. ASSUME NEW v \in 1..Len(worker), worker'[v].at \in {"push", "exited"}
          PROVE  stop \/ next_index' >= C
      <3>1. CASE v = w
        <4>1. k > C
          BY <1>2, <2>4, <3>1
        <4>. QED  BY <1>0, <1>1, <4>1
      <3>2. CASE v # w
        BY <1>0, <1>1, <1>3, <2>0, <2>4, <3>2
      <3>. QED  BY <3>1, <3>2
    <2>5. /\ first_error # "none" => ErrorOfChunk(first_error)'
          /\ \A v \in 1..Len(worker) : worker'[v].at = "report" => stop /\ ErrorOfChunk(worker[v].error)'
      BY <1>1, <1>3, <2>0, <2>1, <2>2 DEF ErrorOfChunk
    <2>6. stop' => first_error' # "none" \/ \E v \in 1..Len(worker) : worker'[v].at = "report"
      BY <1>1, <2>0, <2>1
    <2>7. next_index' >= C <=> next_index' >= Len(summary'.chunk_indexes)
      BY <1>3
    <2>. HIDE DEF C, k
    <2>. QED  BY <1>1, <1>3, <2>2, <2>3, <2>4, <2>5, <2>6, <2>7 DEF ErrorsOK
  <1>6. AllCounted'
    <2>1. Counted(worker', summary.sizes, next_index') = Counted(worker, summary.sizes, next_index)
      <3>1. DOMAIN worker = 1..Len(worker) /\ DOMAIN worker' = 1..Len(worker) /\ DOMAIN summary.sizes = 1..C
        BY <1>0, <1>2, <1>3, IsSeqFacts DEF OneChanges, WorkersOK, SizesKnown, AllSizesOK
      <3>2. ASSUME NEW i \in 1..C
            PROVE  (i <= k /\ \A v \in 1..Len(worker) : worker'[v].at = "compute" => worker'[v].index # i)
                   <=> (i <= next_index /\ \A v \in 1..Len(worker) : worker[v].at = "compute" => worker[v].index # i)
        <4>1. \A v \in 1..Len(worker) : v # w => (worker'[v].at = "compute" => worker'[v].index # i)
                                                 <=> (worker[v].at = "compute" => worker[v].index # i)
          BY <1>3
        <4>2. worker[w].at = "compute" => worker[w].index # i
          BY <1>1
        <4>3. CASE k > C /\ worker'[w].at = "push"
          <5>1. i <= k /\ i <= next_index
            BY <1>0, <4>3
          <5>. HIDE DEF k
          <5>. QED  BY <1>0, <4>1, <4>2, <4>3, <5>1
        <4>4. CASE k <= C /\ worker'[w].at = "compute" /\ worker'[w].index = k
          <5>1. CASE i = k
            BY <1>0, <4>4, <5>1
          <5>2. CASE i # k
            <6>1. i <= k <=> i <= next_index
              BY <1>0, <5>2
            <6>. HIDE DEF k
            <6>. QED  BY <1>0, <4>1, <4>2, <4>4, <5>2, <6>1
          <5>. QED  BY <5>1, <5>2
        <4>. QED  BY <1>2, <4>3, <4>4
      <3>. HIDE DEF C
      <3>. QED  BY <1>1, <3>1, <3>2 DEF Counted
    <2>2. Balanced(worker, partials, summary.sizes, Counted(worker, summary.sizes, next_index), AllTopics)
      BY <1>0 DEF DuInv, AllCounted
    <2>3. Balanced(worker', partials, summary.sizes, Counted(worker, summary.sizes, next_index), AllTopics)
      <3>1. worker[w].at # "exited" /\ worker'[w].at # "exited"
        BY <1>1, <1>2
      <3>. QED  BY <1>2, <2>2, <3>1, BalanceIdle
    <2>4. AllTopics' = AllTopics
      BY <1>3 DEF AllTopics
    <2>. QED  BY <1>1, <1>3, <2>1, <2>3, <2>4 DEF AllCounted
  <1>. QED  BY <1>3, <1>4, <1>5, <1>6 DEF DuInv

\* Going through a chunk.
LEMMA ComputeKeeps ==
    ASSUME DuInv, NEW w \in DOMAIN worker, Compute(w)
    PROVE  DuInv'
  <1>. DEFINE C == Len(summary.chunk_indexes)
              i == worker[w].index
              z == SizesOf(i)
  <1>0. /\ ByThreads /\ SizesKnown /\ w \in 1..Len(worker) /\ WorkersOK(worker)
        /\ next_index \in Nat /\ stop \in BOOLEAN /\ C \in Nat /\ Chunks = 1..C
    BY InScope DEF DuInv, Shape
  <1>1. /\ WorkerStep /\ next_index' = next_index /\ first_error' = first_error
        /\ partials' = partials /\ worker[w].at = "compute"
    BY DEF Compute
  <1>a. \/ /\ z.error = "none" /\ stop' = stop
           /\ worker' = MoreFound(worker, w, z)
        \/ /\ z.error # "none" /\ stop' = TRUE
           /\ worker' = [worker EXCEPT ![w].at = "report", ![w].error = z.error]
    BY DEF Compute, MoreFound
  <1>i. i \in 1..C /\ i <= next_index
    <2>1. i \in 0..C
      BY <1>0 DEF DuInv, ClaimsOK
    <2>2. i \in 1..next_index
      BY <1>0, <1>1 DEF DuInv, ClaimsOK
    <2>. HIDE DEF i, C
    <2>. QED  BY <1>0, <2>1, <2>2
  <1>z. SizesOK(z) /\ z = summary.sizes[i] /\ DOMAIN summary.sizes = 1..C
    <2>1. \A j \in 1..C : SizesOK(summary.sizes[j])
      BY <1>0 DEF SizesKnown, AllSizesOK
    <2>2. DOMAIN summary.sizes = 1..C
      BY <1>0, IsSeqFacts DEF SizesKnown, AllSizesOK
    <2>3. z = summary.sizes[i]
      BY DEF SizesOf
    <2>. HIDE DEF i, C, z
    <2>. QED  BY <1>i, <2>1, <2>2, <2>3
  <1>2. /\ OneChanges(worker, worker', w) /\ worker'[w].index = i
        /\ \/ /\ z.error = "none" /\ worker'[w].at = "load" /\ stop' = stop
              /\ worker'[w].sizes = Merged(worker[w].sizes, z.topics)
              /\ worker'[w].total = worker[w].total + z.total
           \/ /\ z.error # "none" /\ worker'[w].at = "report" /\ worker'[w].error = z.error /\ stop' = TRUE
              /\ worker'[w].sizes = worker[w].sizes /\ worker'[w].total = worker[w].total
    <2>1. CASE /\ z.error = "none" /\ stop' = stop
               /\ worker' = MoreFound(worker, w, z)
      <3>. HIDE DEF z
      <3>. QED  BY <1>0, <1>z, <2>1, ComputedFacts
    <2>2. CASE /\ z.error # "none" /\ stop' = TRUE
               /\ worker' = [worker EXCEPT ![w].at = "report", ![w].error = z.error]
      <3>. HIDE DEF z
      <3>. QED  BY <1>0, <2>2, MetErrorFacts
    <2>. QED  BY <1>a, <2>1, <2>2
  <1>. HIDE DEF z
  <1>3. /\ Shape' /\ ThreadsExact' /\ summary' = summary /\ Len(worker') = Len(worker)
        /\ \A v \in 1..Len(worker) : v # w => worker'[v] = worker[v]
    <2>1. AllSizesOK(partials') /\ \A p \in 1..Len(partials') : partials'[p].error = "none"
      BY <1>1 DEF DuInv, Shape
    <2>2. next_index' \in Nat /\ stop' \in BOOLEAN
      BY <1>0, <1>1, <1>2
    <2>. QED  BY <1>1, <1>2, <2>1, <2>2, ThreadFrame
  <1>d. \A v \in 1..Len(worker) : v # w /\ worker[v].at = "compute" => worker[v].index # i
    BY <1>0, <1>1 DEF DuInv, ClaimsOK
  <1>4. ClaimsOK'
    <2>1. Sum(Exits(worker')) = Sum(Exits(worker))
      BY <1>1, <1>2, ExitsChange
    <2>2. Sum(Past(worker')) = Sum(Past(worker))
      BY <1>1, <1>2, PastChange
    <2>3. \A v \in 1..Len(worker) : /\ worker'[v].index = worker[v].index
                                    /\ worker'[v].at = "compute" => worker[v].at = "compute"
      BY <1>2, <1>3
    <2>. QED  BY <1>1, <1>3, <2>1, <2>2, <2>3 DEF DuInv, ClaimsOK
  <1>5. ErrorsOK'
    <2>0. /\ \A v \in 1..Len(worker) : worker[v].at = "report" => stop /\ ErrorOfChunk(worker[v].error)
          /\ first_error # "none" => ErrorOfChunk(first_error)
          /\ stop => first_error # "none" \/ \E v \in 1..Len(worker) : worker[v].at = "report"
          /\ \A j \in Chunks :
               SizesOf(j).error # "none" /\ j <= next_index /\ ~stop
               => \E v \in 1..Len(worker) : worker[v].at = "compute" /\ worker[v].index = j
          /\ \A v \in 1..Len(worker) :
               worker[v].at \in {"push", "exited"} => stop \/ next_index >= Len(summary.chunk_indexes)
      BY <1>0 DEF DuInv, ErrorsOK
    <2>1. \A v \in 1..Len(worker) :
            /\ worker'[v].at = "report" => v = w \/ worker[v].at = "report"
            /\ worker[v].at = "report" => worker'[v].at = "report"
            /\ v # w => worker'[v] = worker[v]
            /\ worker'[v].at \in {"push", "exited"} => worker[v].at \in {"push", "exited"}
      BY <1>1, <1>2, <1>3
    <2>2. /\ Chunks' = Chunks /\ \A j : SizesOf(j)' = SizesOf(j)
      BY <1>3 DEF Chunks, SizesOf
    <2>s. stop => stop'
      BY <1>2
    <2>e. worker'[w].at = "report" => stop' /\ z.error # "none" /\ worker'[w].error = z.error
      BY <1>2
    <2>3. ASSUME NEW j \in Chunks, SizesOf(j).error # "none", j <= next_index, ~stop'
          PROVE  \E v \in 1..Len(worker) : worker'[v].at = "compute" /\ worker'[v].index = j
      <3>1. z.error = "none"
        BY <1>2, <2>3
      <3>2. j # i
        BY <2>3, <3>1 DEF z
      <3>3. PICK v \in 1..Len(worker) : worker[v].at = "compute" /\ worker[v].index = j
        BY <2>0, <2>3, <2>s
      <3>. QED  BY <2>1, <3>2, <3>3
    <2>5. /\ first_error # "none" => ErrorOfChunk(first_error)'
          /\ \A v \in 1..Len(worker) : worker[v].at = "report" => stop' /\ ErrorOfChunk(worker[v].error)'
      <3>1. first_error # "none" => ErrorOfChunk(first_error)'
        BY <1>1, <2>0, <2>2 DEF ErrorOfChunk
      <3>2. ASSUME NEW v \in 1..Len(worker), worker[v].at = "report" PROVE stop' /\ ErrorOfChunk(worker[v].error)'
        <4>1. stop /\ ErrorOfChunk(worker[v].error) /\ v # w
          BY <1>1, <2>0, <3>2
        <4>2. worker'[v] = worker[v]
          BY <1>3, <4>1
        <4>. QED  BY <2>2, <2>s, <4>1, <4>2 DEF ErrorOfChunk
      <3>. QED  BY <3>1, <3>2
    <2>6. ASSUME NEW v \in 1..Len(worker), worker'[v].at = "report" PROVE stop' /\ ErrorOfChunk(worker[v].error)'
      <3>1. CASE v = w
        <4>1. i \in Chunks /\ SizesOf(i).error = z.error
          BY <1>0, <1>i DEF z
        <4>. QED  BY <2>2, <2>6, <2>e, <3>1, <4>1 DEF ErrorOfChunk
      <3>2. CASE v # w
        BY <2>1, <2>5, <2>6, <3>2
      <3>. QED  BY <3>1, <3>2
    <2>7. stop' => first_error' # "none" \/ \E v \in 1..Len(worker) : worker'[v].at = "report"
      BY <1>0, <1>1, <1>2, <2>0, <2>1
    <2>8. \A v \in 1..Len(worker) : worker'[v].at \in {"push", "exited"}
                                     => stop' \/ next_index' >= Len(summary'.chunk_indexes)
      BY <1>1, <1>3, <2>0, <2>1, <2>s
    <2>9. first_error' # "none" => ErrorOfChunk(first_error)'
      BY <1>1, <2>5
    <2>. HIDE DEF i
    <2>. QED  BY <1>1, <1>3, <2>2, <2>3, <2>6, <2>7, <2>8, <2>9 DEF ErrorsOK
  <1>6. AllCounted'
    <2>. DEFINE is == Counted(worker, summary.sizes, next_index)
                js == Counted(worker', summary.sizes, next_index)
    <2>1. DOMAIN worker = 1..Len(worker) /\ DOMAIN worker' = 1..Len(worker)
      BY <1>0, <1>2, <1>3, IsSeqFacts DEF OneChanges, WorkersOK
    <2>2. Balanced(worker, partials, summary.sizes, is, AllTopics)
      BY <1>0 DEF DuInv, AllCounted
    <2>c. ASSUME NEW j \in 1..C, j # i PROVE j \in js <=> j \in is
      <3>1. \A v \in 1..Len(worker) : (worker'[v].at = "compute" => worker'[v].index # j)
                                        <=> (worker[v].at = "compute" => worker[v].index # j)
        BY <1>2, <1>3, <2>c
      <3>. HIDE DEF i, C
      <3>. QED  BY <1>z, <2>1, <2>c, <3>1 DEF Counted
    <2>s. is \subseteq 1..C /\ js \subseteq 1..C
      BY <1>z DEF Counted
    <2>n. i \notin is
      BY <1>0, <1>1, <2>1 DEF Counted
    <2>4. AllTopics' = AllTopics
      BY <1>3 DEF AllTopics
    <2>5. CASE z.error = "none" /\ worker'[w].at = "load"
      <3>1. i \in js
        <4>1. \A v \in 1..Len(worker) : worker'[v].at = "compute" => worker'[v].index # i
          BY <1>3, <1>d, <2>5
        <4>. HIDE DEF i, C
        <4>. QED  BY <1>i, <1>z, <2>1, <2>5, <4>1 DEF Counted
      <3>2. js = is \cup {i}
        <4>. HIDE DEF is, js, i, C
        <4>. QED  BY <1>i, <2>c, <2>s, <3>1
      <3>3. AllSizesOK(partials) /\ AllSizesOK(summary.sizes) /\ i \in 1..Len(summary.sizes)
        BY <1>0, <1>i DEF DuInv, Shape, SizesKnown
      <3>4. /\ worker[w].at # "exited" /\ worker'[w].at # "exited"
            /\ worker'[w].sizes = Merged(worker[w].sizes, summary.sizes[i].topics)
            /\ worker'[w].total = worker[w].total + summary.sizes[i].total
        BY <1>1, <1>2, <1>z, <2>5
      <3>. HIDE DEF i, is, js
      <3>5. Balanced(worker', partials, summary.sizes, is \cup {i}, AllTopics)
        BY <1>2, <2>2, <2>n, <3>3, <3>4, BalanceComputed
      <3>. QED  BY <1>1, <1>3, <2>4, <3>2, <3>5 DEF AllCounted, js
    <2>6. CASE z.error # "none" /\ worker'[w].at = "report"
      <3>1. i \notin js
        <4>. HIDE DEF i
        <4>. QED  BY <1>z, <2>6 DEF Counted
      <3>2. js = is
        <4>. HIDE DEF is, js, i, C
        <4>1. \A j : j \in js <=> j \in is
          BY <2>c, <2>s, <2>n, <3>1
        <4>. QED  BY <4>1
      <3>3. /\ worker[w].at # "exited" /\ worker'[w].at # "exited"
            /\ worker'[w].sizes = worker[w].sizes /\ worker'[w].total = worker[w].total
        BY <1>1, <1>2, <2>6
      <3>. HIDE DEF is, js
      <3>4. Balanced(worker', partials, summary.sizes, is, AllTopics)
        BY <1>2, <2>2, <3>3, BalanceIdle
      <3>. QED  BY <1>1, <1>3, <2>4, <3>2, <3>4 DEF AllCounted, js
    <2>. QED  BY <1>2, <2>5, <2>6
  <1>. QED  BY <1>3, <1>4, <1>5, <1>6 DEF DuInv

\* Handing in what was found.
LEMMA PushKeeps ==
    ASSUME DuInv, NEW w \in DOMAIN worker, Push(w)
    PROVE  DuInv'
  <1>. DEFINE x == worker[w]
              part == Sizes(x.sizes, x.total, "none")
              none == x.sizes = <<>> /\ x.total = 0
  <1>0. /\ ByThreads /\ SizesKnown /\ w \in 1..Len(worker) /\ WorkersOK(worker) /\ WorkerOK(x)
        /\ next_index \in Nat /\ stop \in BOOLEAN /\ AllSizesOK(partials)
        /\ \A p \in 1..Len(partials) : partials[p].error = "none"
    BY InScope DEF DuInv, Shape
  <1>1. /\ WorkerStep /\ next_index' = next_index /\ stop' = stop /\ first_error' = first_error
        /\ worker[w].at = "push" /\ Goes(w, "exited")
        /\ partials' = IF none THEN partials ELSE Append(partials, part)
    BY DEF Push
  <1>2. /\ OneChanges(worker, worker', w)
        /\ worker'[w].at = "exited" /\ worker'[w].index = worker[w].index
    BY <1>0, <1>1, GoesFacts DEF Places
  <1>p. SizesOK(part) /\ part.error = "none"
    <2>1. SizeMap(x.sizes) /\ x.total \in Nat
      BY <1>0 DEF WorkerOK
    <2>. HIDE DEF x
    <2>. QED  BY <2>1 DEF SizesOK, Sizes
  <1>q. /\ AllSizesOK(partials') /\ \A p \in 1..Len(partials') : partials'[p].error = "none"
        /\ Len(partials) \in Nat /\ Len(partials') <= Len(partials) + 1
    <2>0. IsSeq(partials) /\ Len(partials) \in Nat
      BY <1>0, IsSeqFacts DEF AllSizesOK
    <2>1. CASE none
      BY <1>0, <1>1, <2>0, <2>1
    <2>2. CASE ~none
      <3>1. partials' = Append(partials, part)
        BY <1>1, <2>2
      <3>. HIDE DEF part
      <3>2. /\ IsSeq(partials') /\ Len(partials') = Len(partials) + 1
            /\ \A p \in 1..Len(partials) : partials'[p] = partials[p]
            /\ partials'[Len(partials) + 1] = part
        BY <2>0, <3>1, AppendFacts
      <3>3. ASSUME NEW p \in 1..Len(partials') PROVE SizesOK(partials'[p]) /\ partials'[p].error = "none"
        <4>1. p \in 1..Len(partials) \/ p = Len(partials) + 1
          BY <2>0, <3>2
        <4>. QED  BY <1>0, <1>p, <3>2, <4>1 DEF AllSizesOK
      <3>. QED  BY <2>0, <3>2, <3>3 DEF AllSizesOK
    <2>. QED  BY <2>1, <2>2
  <1>3. /\ Shape' /\ ThreadsExact' /\ summary' = summary /\ Len(worker') = Len(worker)
        /\ \A v \in 1..Len(worker) : v # w => worker'[v] = worker[v]
    BY <1>0, <1>1, <1>2, <1>q, ThreadFrame
  <1>4. ClaimsOK'
    <2>1. Sum(Exits(worker')) = Sum(Exits(worker)) + 1 /\ Sum(Exits(worker)) \in Nat
      BY <1>1, <1>2, ExitsChange
    <2>2. Sum(Past(worker')) = Sum(Past(worker))
      BY <1>1, <1>2, PastChange
    <2>3. \A v \in 1..Len(worker) : /\ worker'[v].index = worker[v].index
                                    /\ worker'[v].at = "compute" => worker[v].at = "compute"
      BY <1>2, <1>3
    <2>4. Len(partials') <= Sum(Exits(worker'))
      <3>1. Len(partials) <= Sum(Exits(worker))
        BY DEF DuInv, ClaimsOK
      <3>2. Len(partials') \in Nat
        BY <1>q, IsSeqFacts DEF AllSizesOK
      <3>. QED  BY <1>q, <2>1, <3>1, <3>2
    <2>n. next_index' = next_index
      BY <1>1
    <2>. QED  BY <1>3, <2>2, <2>3, <2>4, <2>n DEF DuInv, ClaimsOK
  <1>5. ErrorsOK'
    <2>1. \A v \in 1..Len(worker) :
            /\ worker'[v].at = "report" <=> worker[v].at = "report"
            /\ worker'[v].at = "compute" <=> worker[v].at = "compute"
            /\ worker[v].at \in {"compute", "report"} => worker'[v] = worker[v]
            /\ worker'[v].at \in {"push", "exited"} => worker[v].at \in {"push", "exited"}
      BY <1>1, <1>2, <1>3
    <2>2. \A e : ErrorOfChunk(e)' <=> ErrorOfChunk(e)
      BY <1>3 DEF ErrorOfChunk, Chunks, SizesOf
    <2>n. next_index' = next_index /\ stop' = stop /\ first_error' = first_error
      BY <1>1
    <2>. QED  BY <1>0, <1>3, <2>1, <2>2, <2>n DEF DuInv, ErrorsOK, Chunks, SizesOf, ErrorOfChunk
  <1>6. AllCounted'
    <2>. DEFINE is == Counted(worker, summary.sizes, next_index)
    <2>1. Counted(worker', summary.sizes, next_index) = is
      BY <1>1, <1>2, CountedSame
    <2>2. Balanced(worker, partials, summary.sizes, is, AllTopics)
      BY <1>0 DEF DuInv, AllCounted
    <2>3. Balanced(worker', partials', summary.sizes, is, AllTopics)
      <3>1. worker[w].at # "exited" /\ worker'[w].at = "exited"
        BY <1>1, <1>2
      <3>2. \/ partials' = partials /\ worker[w].sizes = <<>> /\ worker[w].total = 0
            \/ partials' = Append(partials, Sizes(worker[w].sizes, worker[w].total, "none"))
        BY <1>1
      <3>. HIDE DEF is
      <3>. QED  BY <1>0, <1>2, <1>q, <2>2, <3>1, <3>2, BalancePushed
    <2>4. AllTopics' = AllTopics
      BY <1>3 DEF AllTopics
    <2>5. next_index' = next_index
      BY <1>1
    <2>. HIDE DEF is
    <2>. QED  BY <1>3, <2>1, <2>3, <2>4, <2>5 DEF AllCounted
  <1>. QED  BY <1>3, <1>4, <1>5, <1>6 DEF DuInv

-------------------------------------------------------------------------------
(* Steps of the main thread.                                               *)

\* Sums over no threads and over no sizes.
LEMMA EmptySums ==
    /\ WorkersOK(<<>>) /\ AllSizesOK(<<>>) /\ Len(<<>>) = 0
    /\ Sum(Past(<<>>)) \in Nat /\ Sum(Exits(<<>>)) \in Nat
    /\ Sum(Totals(<<>>)) = 0 /\ \A t : Sum(TopicSizes(<<>>, t)) = 0
  <1>1. WorkersOK(<<>>) /\ AllSizesOK(<<>>) /\ Len(<<>>) = 0
    BY EmptyFacts DEF WorkersOK, AllSizesOK
  <1>2. OfLength(Past(<<>>), 0) /\ OfLength(Exits(<<>>), 0) /\ OfLength(Totals(<<>>), 0)
    BY <1>1, PastFacts, ExitsFacts, TotalsFacts
  <1>3. \A t : OfLength(TopicSizes(<<>>, t), 0)
    BY <1>1, TopicSizesFacts
  <1>4. Sum(Past(<<>>)) = 0 /\ Sum(Exits(<<>>)) = 0 /\ Sum(Totals(<<>>)) = 0
    BY <1>2, SumZeros
  <1>5. \A t : Sum(TopicSizes(<<>>, t)) = 0
    BY <1>3, SumZeros
  <1>. QED  BY <1>1, <1>4, <1>5

\* While there are no threads there is nothing to add up.
LEMMA NoThreads ==
    ASSUME worker = <<>>, partials = <<>>, next_index = 0, stop = FALSE, first_error = "none", SummaryOK(summary)
    PROVE  ClaimsOK /\ ErrorsOK /\ AllCounted /\ ThreadsExact
  <1>1. Len(worker) = 0 /\ Len(partials) = 0 /\ Sum(Past(worker)) \in Nat /\ Sum(Exits(worker)) \in Nat
    BY EmptySums
  <1>2. Len(summary.chunk_indexes) \in Nat
    BY IsSeqFacts DEF SummaryOK, IndexesOK
  <1>3. ClaimsOK
    BY <1>1, <1>2 DEF ClaimsOK
  <1>. QED  BY <1>1, <1>3 DEF ErrorsOK, AllCounted, ThreadsExact, ByThreads

\* The same after a step.
LEMMA StillNoThreads ==
    ASSUME worker' = <<>>, partials' = <<>>, next_index' = 0, stop' = FALSE, first_error' = "none", SummaryOK(summary')
    PROVE  ClaimsOK' /\ ErrorsOK' /\ AllCounted' /\ ThreadsExact'
  <1>1. Len(worker') = 0 /\ Len(partials') = 0 /\ Sum(Past(worker')) \in Nat /\ Sum(Exits(worker')) \in Nat
    BY EmptySums
  <1>2. Len(summary'.chunk_indexes) \in Nat
    BY IsSeqFacts DEF SummaryOK, IndexesOK
  <1>3. ClaimsOK'
    BY <1>1, <1>2 DEF ClaimsOK
  <1>. QED  BY <1>1, <1>3 DEF ErrorsOK, AllCounted, ThreadsExact, ByThreads

\* At first.
LEMMA InitKeeps ==
    ASSUME Init
    PROVE  DuInv
  <1>1. SummaryOK(summary) /\ worker = <<>> /\ partials = <<>> /\ next_index = 0 /\ stop = FALSE /\ first_error = "none"
    BY NoSummary DEF Init
  <1>2. WorkersOK(worker) /\ AllSizesOK(partials) /\ Len(worker) = 0 /\ Len(partials) = 0
    BY <1>1, EmptySums
  <1>3. UsageOK(usage)
    BY DEF Init, NoUsage, UsageOK
  <1>4. Shape
    <2>1. /\ \A p \in 1..Len(partials) : partials[p].error = "none"
          /\ \A w \in 1..Len(worker) : worker[w].at = "exited"
      BY <1>2
    <2>2. file \in Files /\ main = "start" /\ stop \in BOOLEAN /\ next_index \in Nat
      BY DEF Init
    <2>. QED  BY <1>1, <1>2, <1>3, <2>1, <2>2 DEF Shape, ByThreads
  <1>. QED  BY <1>1, <1>4, NoThreads DEF DuInv

\* What a step before there are threads leaves as it is.
LEMMA MainFrame ==
    ASSUME DuInv, main \notin {"scope", "done"},
           main' \in {"approximate", "exact", "topics", "done"}, file' = file,
           UNCHANGED <<worker, next_index, stop, first_error, partials>>,
           UsageOK(usage'), SummaryOK(summary'), main' = "topics" => SizesKnown'
    PROVE  DuInv'
  <1>1. worker = <<>> /\ partials = <<>> /\ next_index = 0 /\ stop = FALSE /\ first_error = "none"
    <2>1. worker = <<>>
      BY DEF DuInv, Shape
    <2>. QED  BY <2>1 DEF DuInv, Shape
  <1>2. worker' = <<>> /\ partials' = <<>> /\ next_index' = 0 /\ stop' = FALSE /\ first_error' = "none"
    BY <1>1
  <1>3. WorkersOK(worker') /\ AllSizesOK(partials') /\ Len(worker') = 0 /\ Len(partials') = 0
    BY <1>2, EmptySums
  <1>4. file' \in Files
    BY DEF DuInv, Shape
  <1>5. Shape'
    <2>1. /\ \A p \in 1..Len(partials') : partials'[p].error = "none"
          /\ \A w \in 1..Len(worker') : worker'[w].at = "exited"
      BY <1>3
    <2>2. stop' \in BOOLEAN
      BY <1>2
    <2>3. next_index' \in Nat
      BY <1>2
    <2>. QED  BY <1>2, <1>3, <1>4, <2>1, <2>2, <2>3 DEF Shape, ByThreads
  <1>. QED  BY <1>2, <1>5, StillNoThreads DEF DuInv

\* Reading the summary.
LEMMA StartKeeps ==
    ASSUME DuInv, Start
    PROVE  DuInv'
  <1>1. file \in Files /\ SummaryOK(summary) /\ UsageOK(usage)
    BY DEF DuInv, Shape
  <1>2. SummaryOK(summary')
    BY <1>1, ReadSummaryType DEF Start
  <1>. QED  BY <1>1, <1>2, MainFrame DEF Start

\* Sizes from the summary, without those of the topics.
LEMMA ApproximateKeeps ==
    ASSUME DuInv, Approximate
    PROVE  DuInv'
  <1>. DEFINE k == KindsFromSummary(file, summary.chunk_indexes)
              found == [i \in DOMAIN summary.chunk_indexes |->
                          ComputeTopicSizesForChunk(file, summary.chunk_indexes[i], summary.topics)]
  <1>1. file \in Files /\ SummaryOK(summary)
    BY DEF DuInv, Shape
  <1>2. /\ main = "approximate" /\ summary' = [summary EXCEPT !.sizes = found]
        /\ usage' = [NoUsage EXCEPT !.total_size = FileSize(file), !.record_kind_size = k.kinds]
        /\ main' \in {"done", "topics"} /\ file' = file
        /\ UNCHANGED <<worker, next_index, stop, first_error, partials>>
    BY DEF Approximate, Finish
  <1>3. UsageOK(usage')
    <2>. DEFINE n == FileSize(file)
                kinds == k.kinds
    <2>1. usage' = [NoUsage EXCEPT !.total_size = n, !.record_kind_size = kinds]
      BY <1>2
    <2>. HIDE DEF n, kinds
    <2>2. usage' = [total_size |-> n, total_message_size |-> 0, record_kind_size |-> kinds, topic_message_size |-> <<>>]
      BY <2>1 DEF NoUsage
    <2>. QED  BY <2>2 DEF UsageOK
  <1>4. IsSeq(summary.chunk_indexes) /\ DOMAIN summary.chunk_indexes = 1..Len(summary.chunk_indexes)
        /\ Len(summary.chunk_indexes) \in Nat
        /\ \A i \in 1..Len(summary.chunk_indexes) : summary.chunk_indexes[i].uncompressed_size \in Nat
    BY <1>1, IsSeqFacts DEF SummaryOK, IndexesOK
  <1>5. AllSizesOK(found) /\ Len(found) = Len(summary.chunk_indexes)
    <2>1. /\ DOMAIN found = 1..Len(summary.chunk_indexes)
          /\ found = [i \in 1..Len(summary.chunk_indexes) |-> found[i]]
          /\ \A i \in 1..Len(summary.chunk_indexes) :
               found[i] = ComputeTopicSizesForChunk(file, summary.chunk_indexes[i], summary.topics)
      BY <1>4
    <2>. HIDE DEF found
    <2>2. IsSeq(found) /\ Len(found) = Len(summary.chunk_indexes)
      BY <1>4, <2>1, FunctionIsSeq
    <2>3. \A i \in 1..Len(found) : SizesOK(found[i])
      BY <1>1, <1>4, <2>1, <2>2, ComputeType
    <2>. QED  BY <2>2, <2>3 DEF AllSizesOK
  <1>. HIDE DEF found
  <1>6. summary' = [chunk_indexes |-> summary.chunk_indexes, topics |-> summary.topics, sizes |-> found]
    BY <1>1, <1>2 DEF SummaryOK
  <1>7. SummaryOK(summary')
    BY <1>1, <1>6 DEF SummaryOK
  <1>8. SizesKnown'
    BY <1>5, <1>6 DEF SizesKnown
  <1>. QED  BY <1>2, <1>3, <1>7, <1>8, MainFrame

\* The exact scan.
LEMMA ExactKeeps ==
    ASSUME DuInv, Exact
    PROVE  DuInv'
  <1>1. file \in Files /\ SummaryOK(summary)
    BY DEF DuInv, Shape
  <1>2. /\ main = "exact" /\ main' = "done" /\ file' = file /\ summary' = summary
        /\ usage' = CollectUsageExact(file).usage
        /\ UNCHANGED <<worker, next_index, stop, first_error, partials>>
    BY DEF Exact, Finish
  <1>3. UsageOK(usage')
    BY <1>1, <1>2, ExactType
  <1>. QED  BY <1>1, <1>2, <1>3, MainFrame

\* The figures of the topics are put into the usage.
LEMMA WithTopicsFacts ==
    ASSUME UsageOK(usage), NEW s, SizesOK(s)
    PROVE  /\ UsageOK(WithTopics(s))
           /\ WithTopics(s).topic_message_size = s.topics /\ WithTopics(s).total_message_size = s.total
  <1>1. s.total \in Nat
    BY DEF SizesOK
  <1>2. usage = [total_size |-> usage.total_size, total_message_size |-> usage.total_message_size,
                 record_kind_size |-> usage.record_kind_size, topic_message_size |-> usage.topic_message_size]
    BY DEF UsageOK
  <1>3. WithTopics(s) = [total_size |-> usage.total_size, total_message_size |-> s.total,
                         record_kind_size |-> usage.record_kind_size, topic_message_size |-> s.topics]
    <2>. DEFINE a == s.topics
                b == s.total
                one == [usage EXCEPT !.topic_message_size = a]
    <2>1. WithTopics(s) = [one EXCEPT !.total_message_size = b]
      BY DEF WithTopics
    <2>. HIDE DEF a, b
    <2>2. one = [total_size |-> usage.total_size, total_message_size |-> usage.total_message_size,
                 record_kind_size |-> usage.record_kind_size, topic_message_size |-> a]
      BY <1>2
    <2>. HIDE DEF one
    <2>3. [one EXCEPT !.total_message_size = b]
            = [total_size |-> usage.total_size, total_message_size |-> b,
               record_kind_size |-> usage.record_kind_size, topic_message_size |-> a]
      BY <2>2
    <2>. QED  BY <2>1, <2>3 DEF a, b
  <1>. QED  BY <1>1, <1>3 DEF UsageOK

\* The sizes of the chunks as a sequence of their own.
LEMMA ChunkSizes ==
    ASSUME SizesKnown, SummaryOK(summary)
    PROVE  [i \in DOMAIN summary.chunk_indexes |-> SizesOf(i)] = summary.sizes
  <1>1. DOMAIN summary.chunk_indexes = 1..Len(summary.chunk_indexes)
    BY IsSeqFacts DEF SummaryOK, IndexesOK
  <1>2. OfLength(summary.sizes, Len(summary.sizes)) /\ Len(summary.sizes) = Len(summary.chunk_indexes)
    BY SeqOfLength DEF SizesKnown, AllSizesOK
  <1>3. summary.sizes = [i \in 1..Len(summary.sizes) |-> summary.sizes[i]]
    BY <1>2 DEF OfLength
  <1>. QED  BY <1>1, <1>2, <1>3 DEF SizesOf

\* Without threads.
LEMMA SequentialKeeps ==
    ASSUME DuInv, Sequential
    PROVE  DuInv'
  <1>. DEFINE s == Through(AddSizes, NoSizes, summary.sizes)
  <1>0. main = "topics"
    BY DEF Sequential
  <1>1. SummaryOK(summary) /\ UsageOK(usage) /\ SizesKnown
    BY <1>0 DEF DuInv, Shape
  <1>2. /\ main' = "done" /\ file' = file /\ summary' = summary /\ usage' = WithTopics(s)
        /\ UNCHANGED <<worker, next_index, stop, first_error, partials>>
    BY <1>1, ChunkSizes DEF Sequential, Finish
  <1>3. SizesOK(s)
    <2>1. OfLength(summary.sizes, Len(summary.sizes)) /\ \A i \in 1..Len(summary.sizes) : SizesOK(summary.sizes[i])
      BY <1>1, SeqOfLength DEF SizesKnown, AllSizesOK
    <2>. QED  BY <2>1, AddedUp
  <1>. HIDE DEF s
  <1>4. UsageOK(usage')
    BY <1>1, <1>2, <1>3, WithTopicsFacts
  <1>. QED  BY <1>0, <1>1, <1>2, <1>4, MainFrame

\* Starting the threads.
LEMMA SpawnKeeps ==
    ASSUME DuInv, Spawn
    PROVE  DuInv'
  <1>. DEFINE N == WorkerCount(summary.chunk_indexes)
              C == Len(summary.chunk_indexes)
  <1>0. main = "topics" /\ N > 1
    BY DEF Spawn
  <1>1. /\ SummaryOK(summary) /\ UsageOK(usage) /\ SizesKnown /\ file \in Files
        /\ partials = <<>> /\ next_index = 0 /\ stop = FALSE /\ first_error = "none"
    <2>1. worker = <<>>
      BY <1>0 DEF DuInv, Shape
    <2>. QED  BY <1>0, <2>1 DEF DuInv, Shape
  <1>2. /\ main' = "scope" /\ file' = file /\ summary' = summary /\ usage' = usage
        /\ partials' = <<>> /\ next_index' = 0 /\ stop' = FALSE /\ first_error' = "none"
        /\ worker' = [w \in 1..N |-> NewWorker]
    BY <1>1 DEF Spawn
  <1>3. N \in Nat /\ C \in Nat /\ DOMAIN summary.chunk_indexes = 1..C
    BY <1>1, WorkerCountType, IsSeqFacts DEF SummaryOK, IndexesOK
  <1>. HIDE DEF N
  <1>4. /\ IsSeq(worker') /\ Len(worker') = N /\ DOMAIN worker' = 1..N
        /\ \A w \in 1..N : worker'[w] = NewWorker
    <2>1. DOMAIN worker' = 1..N /\ worker' = [w \in 1..N |-> worker'[w]] /\ \A w \in 1..N : worker'[w] = NewWorker
      BY <1>2
    <2>. QED  BY <1>3, <2>1, FunctionIsSeq
  <1>5. /\ WorkerOK(NewWorker) /\ NewWorker.at = "load" /\ NewWorker.index = 0 /\ NewWorker.sizes = <<>>
        /\ NewWorker.total = 0
    BY EmptySizes DEF NewWorker, WorkerOK, Places
  <1>6. WorkersOK(worker') /\ AllSizesOK(partials') /\ Len(partials') = 0
    BY <1>2, <1>4, <1>5, EmptySums DEF WorkersOK
  <1>7. worker' # <<>>
    <2>1. Len(<<>>) = 0
      BY EmptyFacts
    <2>. QED  BY <1>0, <1>3, <1>4, <2>1
  <1>8. SizesKnown' /\ SummaryOK(summary') /\ UsageOK(usage') /\ file' \in Files
    BY <1>1, <1>2 DEF SizesKnown
  <1>9. Shape'
    <2>1. \A p \in 1..Len(partials') : partials'[p].error = "none"
      BY <1>6
    <2>2. stop' \in BOOLEAN
      BY <1>2
    <2>3. next_index' \in Nat
      BY <1>2
    <2>. QED  BY <1>2, <1>6, <1>7, <1>8, <2>1, <2>2, <2>3 DEF Shape, ByThreads
  <1>10. ClaimsOK'
    <2>1. Sum(Past(worker')) \in Nat /\ Sum(Exits(worker')) \in Nat
      <3>1. /\ OfLength(Past(worker'), N) /\ \A v \in 1..N : Past(worker')[v] \in Nat
            /\ OfLength(Exits(worker'), N) /\ \A v \in 1..N : Exits(worker')[v] \in Nat
        BY <1>4, <1>6, PastFacts, ExitsFacts
      <3>. QED  BY <3>1, SumType
    <2>2. \A w \in 1..Len(worker') : worker'[w].index = 0 /\ worker'[w].at = "load"
      BY <1>4, <1>5
    <2>3. 0 <= C + Sum(Past(worker')) /\ 0 <= Sum(Exits(worker')) /\ 0 \in 0..C
      BY <1>3, <2>1
    <2>. QED  BY <1>2, <1>6, <2>2, <2>3 DEF ClaimsOK
  <1>11. ErrorsOK'
    <2>1. \A w \in 1..Len(worker') : worker'[w].at = "load"
      BY <1>4, <1>5
    <2>2. \A i \in Chunks' : ~(i <= next_index')
      BY <1>2, <1>3 DEF Chunks
    <2>. QED  BY <1>2, <2>1, <2>2 DEF ErrorsOK
  <1>12. ThreadsExact'
    BY <1>2 DEF ThreadsExact
  <1>13. AllCounted'
    <2>. DEFINE is == Counted(worker', summary.sizes, 0)
    <2>1. AllSizesOK(summary.sizes) /\ DOMAIN summary.sizes = 1..C /\ Len(summary.sizes) = C
      BY <1>1, IsSeqFacts DEF SizesKnown, AllSizesOK
    <2>2. is = {}
      <3>1. \A i \in 1..C : ~(i <= 0)
        BY <1>3
      <3>. HIDE DEF C
      <3>. QED  BY <2>1, <3>1 DEF Counted
    <2>. HIDE DEF is, C
    <2>3. ASSUME NEW t
          PROVE  Sum(Hands(worker', t)) = 0 /\ Sum(TopicSizes(partials', t)) = 0 /\ Sum(Due(summary.sizes, is, t)) = 0
      <3>1. At(<<>>, t) = 0
        BY EmptySizes DEF At, Known
      <3>2. OfLength(Hands(worker', t), N) /\ \A v \in 1..N : Hands(worker', t)[v] = 0
        BY <1>4, <1>5, <1>6, <3>1, HandsFacts
      <3>3. OfLength(Due(summary.sizes, is, t), C) /\ \A i \in 1..C : Due(summary.sizes, is, t)[i] = 0
        BY <2>1, <2>2, DueFacts
      <3>4. Sum(TopicSizes(partials', t)) = 0
        BY <1>2, EmptySums
      <3>. QED  BY <3>2, <3>3, <3>4, SumZeros
    <2>4. Sum(HandTotals(worker')) = 0 /\ Sum(Totals(partials')) = 0 /\ Sum(DueTotals(summary.sizes, is)) = 0
      <3>2. OfLength(HandTotals(worker'), N) /\ \A v \in 1..N : HandTotals(worker')[v] = 0
        BY <1>4, <1>5, <1>6, HandTotalsFacts
      <3>3. OfLength(DueTotals(summary.sizes, is), C) /\ \A i \in 1..C : DueTotals(summary.sizes, is)[i] = 0
        BY <2>1, <2>2, DueTotalsFacts
      <3>4. Sum(Totals(partials')) = 0
        BY <1>2, EmptySums
      <3>. QED  BY <3>2, <3>3, <3>4, SumZeros
    <2>5. HeldTopics(worker', partials') = {}
      <3>1. \A v \in DOMAIN worker' : DOMAIN worker'[v].sizes = {}
        BY <1>4, <1>5, EmptySizes
      <3>2. DOMAIN partials' = {}
        BY <1>2, EmptySizes
      <3>. QED  BY <3>1, <3>2 DEF HeldTopics
    <2>6. UNION {DOMAIN summary.sizes[i].topics : i \in is} = {}
      BY <2>2
    <2>7. Balanced(worker', partials', summary.sizes, is, AllTopics')
      BY <2>3, <2>4, <2>5, <2>6 DEF Balanced
    <2>. QED  BY <1>2, <2>7 DEF AllCounted, is
  <1>. QED  BY <1>9, <1>10, <1>11, <1>12, <1>13 DEF DuInv

\* When every thread has ended without an error, every chunk has been counted.
LEMMA AllDone ==
    ASSUME DuInv, ByThreads, \A w \in DOMAIN worker : worker[w].at = "exited", first_error = "none"
    PROVE  /\ Failing = {}
           /\ Counted(worker, summary.sizes, next_index) = DOMAIN summary.sizes
  <1>. DEFINE C == Len(summary.chunk_indexes)
  <1>1. /\ SizesKnown /\ WorkersOK(worker) /\ DOMAIN worker = 1..Len(worker) /\ Len(worker) \in Nat /\ next_index \in Nat
        /\ C \in Nat /\ Chunks = 1..C /\ DOMAIN summary.sizes = 1..C
    BY IsSeqFacts DEF DuInv, Shape, WorkersOK, SizesKnown, AllSizesOK, SummaryOK, IndexesOK, Chunks
  <1>2. 1 \in 1..Len(worker)
    <2>1. Len(worker) # 0
      <3>1. SUFFICES ASSUME Len(worker) = 0 PROVE FALSE
        OBVIOUS
      <3>2. worker = <<>>
        BY <1>1, <3>1, EmptyFacts, SeqExtensional DEF WorkersOK
      <3>. QED  BY <3>2 DEF ByThreads
    <2>. QED  BY <1>1, <2>1
  <1>3. \A w \in 1..Len(worker) : worker[w].at = "exited"
    BY <1>1
  <1>4. ~stop
    BY <1>3 DEF DuInv, ErrorsOK
  <1>5. next_index >= C
    BY <1>2, <1>3, <1>4 DEF DuInv, ErrorsOK
  <1>6. \A i \in Chunks : SizesOf(i).error = "none"
    <2>1. \A i \in Chunks : i <= next_index
      BY <1>1, <1>5
    <2>. QED  BY <1>3, <1>4, <2>1 DEF DuInv, ErrorsOK
  <1>7. Failing = {}
    BY <1>6 DEF Failing
  <1>8. \A i \in 1..C : i <= next_index /\ summary.sizes[i].error = "none"
    BY <1>1, <1>5, <1>6 DEF SizesOf
  <1>. HIDE DEF C
  <1>9. Counted(worker, summary.sizes, next_index) = DOMAIN summary.sizes
    BY <1>1, <1>3, <1>8 DEF Counted
  <1>. QED  BY <1>7, <1>9

\* Then what they have handed in is what one thread would have found.
LEMMA SameAsAlone ==
    ASSUME DuInv, ByThreads, \A w \in DOMAIN worker : worker[w].at = "exited", first_error = "none"
    PROVE  LET r == Through(AddSizes, NoSizes, partials)
               alone == Through(AddSizes, NoSizes, summary.sizes)
           IN r.topics = alone.topics /\ r.total = alone.total
  <1>. DEFINE r == Through(AddSizes, NoSizes, partials)
              alone == Through(AddSizes, NoSizes, summary.sizes)
              n == Len(summary.sizes)
              is == DOMAIN summary.sizes
  <1>1. /\ SizesKnown /\ WorkersOK(worker) /\ DOMAIN worker = 1..Len(worker) /\ AllSizesOK(partials)
        /\ AllSizesOK(summary.sizes) /\ is = 1..n /\ DOMAIN partials = 1..Len(partials)
        /\ \A p \in 1..Len(partials) : partials[p].error = "none"
    BY IsSeqFacts DEF DuInv, Shape, WorkersOK, SizesKnown, AllSizesOK
  <1>2. Failing = {} /\ Counted(worker, summary.sizes, next_index) = is
    BY AllDone
  <1>3. Balanced(worker, partials, summary.sizes, is, AllTopics)
    BY <1>2 DEF DuInv, AllCounted
  <1>4. \A i \in 1..n : summary.sizes[i].error = "none"
    <2>1. Chunks = 1..n
      BY <1>1, IsSeqFacts DEF DuInv, Shape, SizesKnown, SummaryOK, IndexesOK, Chunks
    <2>. QED  BY <1>2, <2>1 DEF Failing, SizesOf
  <1>5. ASSUME NEW t \in AllTopics PROVE Sum(TopicSizes(partials, t)) = Sum(TopicSizes(summary.sizes, t))
    <2>1. Sum(Hands(worker, t)) = 0
      <3>1. OfLength(Hands(worker, t), Len(worker)) /\ \A v \in 1..Len(worker) : Hands(worker, t)[v] = 0
        BY <1>1, HandsFacts
      <3>. QED  BY <3>1, SumZeros
    <2>2. Sum(Due(summary.sizes, is, t)) = Sum(TopicSizes(summary.sizes, t))
      <3>1. Due(summary.sizes, is, t) = TopicSizes(summary.sizes, t)
        BY DEF Due, TopicSizes
      <3>. QED  BY <3>1
    <2>3. Sum(TopicSizes(partials, t)) \in Nat
      BY <1>1, TopicSizesFacts, SumType
    <2>4. Sum(Hands(worker, t)) + Sum(TopicSizes(partials, t)) = Sum(Due(summary.sizes, is, t))
      BY <1>3 DEF Balanced
    <2>. HIDE DEF is
    <2>. QED  BY <2>1, <2>2, <2>3, <2>4
  <1>6. Sum(Totals(partials)) = Sum(Totals(summary.sizes))
    <2>1. Sum(HandTotals(worker)) = 0
      <3>1. OfLength(HandTotals(worker), Len(worker)) /\ \A v \in 1..Len(worker) : HandTotals(worker)[v] = 0
        BY <1>1, HandTotalsFacts
      <3>. QED  BY <3>1, SumZeros
    <2>2. Sum(DueTotals(summary.sizes, is)) = Sum(Totals(summary.sizes))
      <3>1. DueTotals(summary.sizes, is) = Totals(summary.sizes)
        BY DEF DueTotals, Totals
      <3>. QED  BY <3>1
    <2>3. Sum(Totals(partials)) \in Nat
      BY <1>1, TotalsFacts, SumType
    <2>4. Sum(HandTotals(worker)) + Sum(Totals(partials)) = Sum(DueTotals(summary.sizes, is))
      BY <1>3 DEF Balanced
    <2>. HIDE DEF is
    <2>. QED  BY <2>1, <2>2, <2>3, <2>4
  <1>7. UNION {DOMAIN partials[p].topics : p \in DOMAIN partials} = UNION {DOMAIN summary.sizes[i].topics : i \in is}
    <2>1. {v \in DOMAIN worker : worker[v].at # "exited"} = {}
      OBVIOUS
    <2>2. HeldTopics(worker, partials) = UNION {DOMAIN partials[p].topics : p \in DOMAIN partials}
      BY <2>1 DEF HeldTopics
    <2>. QED  BY <1>3, <2>2 DEF Balanced
  <1>8. /\ SizesOK(r) /\ DOMAIN r.topics = UNION {DOMAIN partials[p].topics : p \in 1..Len(partials)}
        /\ r.total = Sum(Totals(partials)) /\ \A t : At(r.topics, t) = Sum(TopicSizes(partials, t))
    <2>1. OfLength(partials, Len(partials)) /\ \A p \in 1..Len(partials) : SizesOK(partials[p])
      BY <1>1, SeqOfLength DEF AllSizesOK
    <2>. QED  BY <1>1, <2>1, AddedUp
  <1>9. /\ SizesOK(alone) /\ DOMAIN alone.topics = UNION {DOMAIN summary.sizes[i].topics : i \in 1..n}
        /\ alone.total = Sum(Totals(summary.sizes)) /\ \A t : At(alone.topics, t) = Sum(TopicSizes(summary.sizes, t))
    <2>1. OfLength(summary.sizes, n) /\ \A i \in 1..n : SizesOK(summary.sizes[i])
      BY <1>1, SeqOfLength DEF AllSizesOK
    <2>. QED  BY <1>4, <2>1, AddedUp
  <1>10. DOMAIN r.topics = DOMAIN alone.topics
    BY <1>1, <1>7, <1>8, <1>9
  <1>11. ASSUME NEW t \in DOMAIN alone.topics PROVE r.topics[t] = alone.topics[t]
    <2>1. t \in AllTopics
      BY <1>1, <1>9 DEF AllTopics
    <2>2. At(r.topics, t) = At(alone.topics, t)
      BY <1>5, <1>8, <1>9, <2>1
    <2>. HIDE DEF r, alone
    <2>. QED  BY <1>10, <2>2 DEF At, Known
  <1>. HIDE DEF r, alone
  <1>12. r.topics = alone.topics
    <2>1. r.topics = [k \in DOMAIN r.topics |-> r.topics[k]] /\ alone.topics = [k \in DOMAIN alone.topics |-> alone.topics[k]]
      BY <1>8, <1>9 DEF SizesOK, SizeMap
    <2>. QED  BY <1>10, <1>11, <2>1
  <1>13. r.total = alone.total
    BY <1>6, <1>8, <1>9
  <1>. QED  BY <1>12, <1>13 DEF r, alone

\* The end of the scope.
LEMMA JoinKeeps ==
    ASSUME DuInv, Join
    PROVE  DuInv'
  <1>. DEFINE r == Through(AddSizes, NoSizes, partials)
              alone == Through(AddSizes, NoSizes, summary.sizes)
  <1>0. /\ main = "scope" /\ \A w \in DOMAIN worker : worker[w].at = "exited"
        /\ usage' = (IF first_error = "none" THEN WithTopics(r) ELSE usage)
        /\ main' = "done" /\ error' = first_error
    BY DEF Join, Finish
  <1>1. UNCHANGED <<file, summary, worker, next_index, stop, first_error, partials>>
    BY DEF Join
  <1>2. ByThreads /\ SummaryOK(summary) /\ UsageOK(usage) /\ SizesKnown /\ AllSizesOK(partials) /\ WorkersOK(worker)
    BY <1>0 DEF DuInv, Shape
  <1>3. SizesOK(r)
    <2>1. OfLength(partials, Len(partials)) /\ \A p \in 1..Len(partials) : SizesOK(partials[p])
      BY <1>2, SeqOfLength DEF AllSizesOK
    <2>. QED  BY <2>1, AddedUp
  <1>4. first_error = "none" => r.topics = alone.topics /\ r.total = alone.total
    BY <1>0, <1>2, SameAsAlone
  <1>. HIDE DEF r, alone
  <1>5. /\ UsageOK(usage')
        /\ first_error = "none" => /\ usage'.topic_message_size = r.topics
                                    /\ usage'.total_message_size = r.total
    BY <1>0, <1>2, <1>3, WithTopicsFacts
  <1>6. ThreadsExact'
    <2>1. [i \in Chunks |-> SizesOf(i)] = summary.sizes
      BY <1>2, ChunkSizes DEF Chunks
    <2>2. first_error = "none" => Failing = {}
      BY <1>0, <1>2, AllDone
    <2>3. first_error # "none" => first_error \in {SizesOf(i).error : i \in Failing}
      <3>. SUFFICES ASSUME first_error # "none" PROVE first_error \in {SizesOf(i).error : i \in Failing}
        OBVIOUS
      <3>1. PICK i \in Chunks : SizesOf(i).error = first_error
        BY DEF DuInv, ErrorsOK, ErrorOfChunk
      <3>2. i \in Failing
        BY <3>1 DEF Failing
      <3>. QED  BY <3>1, <3>2
    <2>4. Failing' = Failing /\ Chunks' = Chunks /\ \A i : SizesOf(i)' = SizesOf(i)
      BY <1>1 DEF Failing, Chunks, SizesOf
    <2>5. IF Failing' = {} THEN error' = "none" ELSE error' \in {SizesOf(i).error : i \in Failing}'
      <3>1. {SizesOf(i).error : i \in Failing}' = {SizesOf(i).error : i \in Failing}
        BY <2>4
      <3>. QED  BY <1>0, <2>2, <2>3, <2>4, <3>1
    <2>6. Through(AddSizes, NoSizes, [i \in Chunks |-> SizesOf(i)])' = alone
      <3>1. [i \in Chunks |-> SizesOf(i)]' = summary.sizes
        BY <2>1, <2>4
      <3>. QED  BY <3>1 DEF alone
    <2>7. error' = "none" => usage'.topic_message_size = alone.topics /\ usage'.total_message_size = alone.total
      BY <1>0, <1>4, <1>5
    <2>. QED  BY <2>5, <2>6, <2>7 DEF ThreadsExact
  <1>7. Shape'
    <2>1. SizesKnown' /\ ByThreads' /\ WorkersOK(worker') /\ SummaryOK(summary') /\ AllSizesOK(partials')
      BY <1>1, <1>2 DEF SizesKnown, ByThreads
    <2>2. \A w \in 1..Len(worker') : worker'[w].at = "exited"
      BY <1>0, <1>1, <1>2, IsSeqFacts DEF WorkersOK
    <2>3. \A p \in 1..Len(partials') : partials'[p].error = "none"
      BY <1>1 DEF DuInv, Shape
    <2>4. file' \in Files /\ stop' \in BOOLEAN /\ next_index' \in Nat
      BY <1>1 DEF DuInv, Shape
    <2>5. worker' # <<>>
      BY <2>1 DEF ByThreads
    <2>. QED  BY <1>0, <1>5, <2>1, <2>2, <2>3, <2>4, <2>5 DEF Shape
  <1>8. ClaimsOK' /\ ErrorsOK' /\ AllCounted'
    BY <1>1 DEF DuInv, ClaimsOK, ErrorsOK, ErrorOfChunk, AllCounted, AllTopics, Chunks, SizesOf, ByThreads
  <1>. QED  BY <1>6, <1>7, <1>8 DEF DuInv

\* The inductive invariant of du's threads (du.rs:233-345).
THEOREM DuInvariant == Spec => []DuInv
  <1>1. Init => DuInv
    BY InitKeeps
  <1>2. DuInv /\ [Next]_vars => DuInv'
    <2>. SUFFICES ASSUME DuInv, [Next]_vars PROVE DuInv'
      OBVIOUS
    <2>1. CASE MainNext
      BY <2>1, StartKeeps, ApproximateKeeps, ExactKeeps, SequentialKeeps, SpawnKeeps, JoinKeeps DEF MainNext
    <2>2. ASSUME NEW w \in DOMAIN worker, WorkerNext(w) PROVE DuInv'
      BY <2>2, LoadStopKeeps, ClaimKeeps, ComputeKeeps, ReportErrorKeeps, PushKeeps DEF WorkerNext
    <2>3. CASE UNCHANGED vars
      BY <2>3 DEF vars, DuInv, Shape, ClaimsOK, ErrorsOK, ErrorOfChunk, AllCounted, AllTopics, ThreadsExact,
                  Failing, Chunks, SizesOf, SizesKnown, ByThreads
    <2>. QED  BY <2>1, <2>2, <2>3 DEF Next
  <1>. QED  BY <1>1, <1>2, PTL DEF Spec

\* No chunk is lost and none is counted twice, however many chunks and threads
\* there are and however they interleave (du.rs:285-325).
THEOREM WorkersStayConsistent == Spec => []WorkersConsistent
  <1>1. DuInv => WorkersConsistent
    <2>. SUFFICES ASSUME DuInv PROVE DuTypeOK /\ NothingLost
      BY DEF WorkersConsistent, DuInv
    <2>0. /\ WorkersOK(worker) /\ DOMAIN worker = 1..Len(worker) /\ Len(worker) \in Nat /\ next_index \in Nat
          /\ Len(summary.chunk_indexes) \in Nat /\ Chunks = 1..Len(summary.chunk_indexes)
      BY IsSeqFacts DEF DuInv, Shape, WorkersOK, SummaryOK, IndexesOK, Chunks
    <2>1. DuTypeOK
      <3>1. Sum(Past(worker)) \in Nat /\ Sum(Past(worker)) <= Len(worker) /\ Sum(Exits(worker)) \in Nat
            /\ Sum(Exits(worker)) <= Len(worker)
        <4>1. /\ OfLength(Past(worker), Len(worker)) /\ OfLength(Exits(worker), Len(worker))
              /\ \A v \in 1..Len(worker) : Past(worker)[v] \in 0..1 /\ Exits(worker)[v] \in 0..1
          BY <2>0, PastFacts, ExitsFacts
        <4>2. \A v \in 1..Len(worker) : /\ Past(worker)[v] \in Nat /\ Past(worker)[v] <= 1
                                        /\ Exits(worker)[v] \in Nat /\ Exits(worker)[v] <= 1
          BY <4>1
        <4>. QED  BY <4>1, <4>2, SumType
      <3>2. Len(partials) \in Nat
        BY IsSeqFacts DEF DuInv, Shape, AllSizesOK
      <3>3. Len(partials) <= Len(worker) /\ next_index <= Len(summary.chunk_indexes) + Len(worker)
        <4>1. next_index <= Len(summary.chunk_indexes) + Sum(Past(worker)) /\ Len(partials) <= Sum(Exits(worker))
          BY DEF DuInv, ClaimsOK
        <4>. QED  BY <2>0, <3>1, <3>2, <4>1
      <3>4. ASSUME NEW w \in DOMAIN worker
            PROVE  worker[w].at \in Places /\ worker[w].index \in Chunks \cup {0}
        <4>1. worker[w].at \in Places
          BY <2>0 DEF WorkersOK, WorkerOK
        <4>2. worker[w].index \in 0..Len(summary.chunk_indexes)
          BY <2>0 DEF DuInv, ClaimsOK
        <4>. QED  BY <2>0, <4>1, <4>2
      <3>5. /\ main \in {"start", "approximate", "exact", "topics", "scope", "done"}
            /\ usage.total_message_size \in Nat /\ (main \notin {"scope", "done"} => worker = <<>>)
        BY DEF DuInv, Shape, UsageOK
      <3>. QED  BY <3>3, <3>4, <3>5 DEF DuTypeOK, Places
    <2>2. NothingLost
      <3>. SUFFICES ASSUME ByThreads PROVE NothingLost
        BY DEF NothingLost
      <3>. DEFINE counted == (Claimed \ {worker[w].index : w \in Computing}) \ Failing
      <3>1. SizesKnown /\ AllSizesOK(summary.sizes) /\ DOMAIN summary.sizes = Chunks
        BY <2>0, IsSeqFacts DEF DuInv, Shape, SizesKnown, AllSizesOK
      <3>2. counted = Counted(worker, summary.sizes, next_index)
        BY <3>1 DEF Counted, Claimed, Computing, Failing, SizesOf
      <3>3. \A v, w \in Computing : worker[v].index = worker[w].index => v = w
        BY <2>0 DEF DuInv, ClaimsOK, Computing
      <3>4. Balanced(worker, partials, summary.sizes, counted, AllTopics)
        BY <3>2 DEF DuInv, AllCounted
      <3>. HIDE DEF counted
      <3>5. ASSUME NEW topic \in Range(summary.topics)
            PROVE  Sum([w \in DOMAIN worker |-> InHand(w, topic)])
                   + Sum([p \in DOMAIN partials |-> At(partials[p].topics, topic)])
                   = Sum([i \in Chunks |-> IF i \in counted THEN At(SizesOf(i).topics, topic) ELSE 0])
        <4>1. [w \in DOMAIN worker |-> InHand(w, topic)] = Hands(worker, topic)
          BY DEF InHand, Hands
        <4>2. [p \in DOMAIN partials |-> At(partials[p].topics, topic)] = TopicSizes(partials, topic)
          BY DEF TopicSizes
        <4>3. [i \in Chunks |-> IF i \in counted THEN At(SizesOf(i).topics, topic) ELSE 0] = Due(summary.sizes, counted, topic)
          BY <3>1 DEF Due, SizesOf
        <4>4. topic \in AllTopics
          BY DEF AllTopics
        <4>5. Sum(Hands(worker, topic)) + Sum(TopicSizes(partials, topic)) = Sum(Due(summary.sizes, counted, topic))
          BY <3>4, <4>4 DEF Balanced
        <4>. QED  BY <4>1, <4>2, <4>3, <4>5
      <3>. QED  BY <3>3, <3>5 DEF NothingLost, counted
    <2>. QED  BY <2>1, <2>2
  <1>. QED  BY <1>1, DuInvariant, PTL

\* With threads du gives what it would give without (du.rs:233-345).
THEOREM ThreadsAgree == Spec => []ThreadsExact
  <1>1. DuInv => ThreadsExact
    BY DEF DuInv
  <1>. QED  BY <1>1, DuInvariant, PTL
===============================================================================
