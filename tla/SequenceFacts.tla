----------------------------- MODULE SequenceFacts -----------------------------
(***************************************************************************)
(* What the proofs need to know of sequences, sorting and counting.  The   *)
(* elements of a sequence have no type here: it is one of its own elements. *)
(***************************************************************************)
EXTENDS Integers, Sequences, FiniteSets, SequencesExt, WellFoundedInduction,
        FiniteSetTheorems, TLAPS

\* Every set of natural numbers has a least element.
LEMMA LeastNatural ==
    ASSUME NEW T, T \subseteq Nat, T # {}
    PROVE  \E n \in T : \A m \in T : n <= m
  <1>. DEFINE R == OpToRel(<, Nat)
  <1>1. IsWellFoundedOn(R, Nat)
    BY NatLessThanWellFounded
  <1>2. PICK n \in T : \A m \in T : ~ (<<m, n>> \in R)
    <2>. HIDE DEF R
    <2>. QED  BY <1>1, WFMin
  <1>3. \A m \in T : ~ (m < n)
    BY <1>2 DEF OpToRel
  <1>. QED  BY <1>3

\* Induction for a set of numbers.
LEMMA SetInduction ==
    ASSUME NEW T, 0 \in T, \A n \in Nat : n \in T => n + 1 \in T
    PROVE  Nat \subseteq T
  <1>. SUFFICES ASSUME Nat \ T # {} PROVE FALSE
    OBVIOUS
  <1>1. PICK n \in Nat \ T : \A m \in Nat \ T : n <= m
    BY LeastNatural
  <1>. QED  BY <1>1, n - 1 \in Nat, n - 1 \in T

IsSeq(s) == s \in Seq(ToSet(s))

\* The members of Seq(S) are sequences in the sense of IsSeq, with elements in S.
LEMMA SeqType ==
    ASSUME NEW S, NEW s \in Seq(S)
    PROVE  /\ IsSeq(s) /\ Len(s) \in Nat /\ DOMAIN s = 1..Len(s)
           /\ ToSet(s) \subseteq S
           /\ \A i \in 1..Len(s) : s[i] \in ToSet(s)
  BY DEF IsSeq, ToSet

\* A sequence is a function on 1..Len(s), and its elements are in ToSet(s).
LEMMA IsSeqFacts ==
    ASSUME NEW s, IsSeq(s)
    PROVE  Len(s) \in Nat /\ DOMAIN s = 1..Len(s) /\ \A i \in 1..Len(s) : s[i] \in ToSet(s)
  BY DEF IsSeq, ToSet

\* A function whose domain is 1..n is a sequence of length n.
LEMMA FunctionIsSeq ==
    ASSUME NEW n \in Nat, NEW s, DOMAIN s = 1..n, s = [i \in 1..n |-> s[i]]
    PROVE  IsSeq(s) /\ Len(s) = n
  <1>1. s \in [1..n -> ToSet(s)]
    BY DEF ToSet
  <1>2. s \in Seq(ToSet(s))
    BY <1>1
  <1>. QED  BY <1>2 DEF IsSeq

\* The empty sequence is a sequence with no elements.
LEMMA EmptyFacts ==
    IsSeq(<<>>) /\ Len(<<>>) = 0 /\ ToSet(<<>>) = {}
  BY DEF IsSeq, ToSet

\* The one-element sequence and its element.
LEMMA SingletonFacts ==
    ASSUME NEW x
    PROVE  IsSeq(<<x>>) /\ Len(<<x>>) = 1 /\ <<x>>[1] = x /\ ToSet(<<x>>) = {x}
  <1>1. <<x>> \in Seq({x}) /\ Len(<<x>>) = 1 /\ <<x>>[1] = x /\ DOMAIN <<x>> = {1}
    OBVIOUS
  <1>2. ToSet(<<x>>) = {x}
    BY <1>1 DEF ToSet
  <1>. QED  BY <1>1, <1>2 DEF IsSeq

\* A sequence is in Seq(S) for every S that holds its elements.
LEMMA SeqWiden ==
    ASSUME NEW s, IsSeq(s), NEW S, ToSet(s) \subseteq S
    PROVE  s \in Seq(S)
  BY DEF IsSeq

\* Two sequences with the same length and the same elements in order are equal.
LEMMA SeqExtensional ==
    ASSUME NEW s, NEW t, IsSeq(s), IsSeq(t), Len(s) = Len(t),
           \A i \in 1..Len(s) : s[i] = t[i]
    PROVE  s = t
  <1>. DEFINE S == ToSet(s) \cup ToSet(t)
  <1>1. s \in Seq(S) /\ t \in Seq(S)
    BY SeqWiden
  <1>. HIDE DEF S
  <1>. QED  BY <1>1

\* The length and the elements of a concatenation.
LEMMA ConcatFacts ==
    ASSUME NEW s, NEW t, IsSeq(s), IsSeq(t)
    PROVE  /\ IsSeq(s \o t)
           /\ Len(s \o t) = Len(s) + Len(t)
           /\ \A i \in 1..(Len(s) + Len(t)) :
                (s \o t)[i] = IF i <= Len(s) THEN s[i] ELSE t[i - Len(s)]
  <1>. DEFINE S == ToSet(s) \cup ToSet(t)
  <1>1. s \in Seq(S) /\ t \in Seq(S)
    BY SeqWiden
  <1>. HIDE DEF S
  <1>2. s \o t \in Seq(S) /\ Len(s \o t) = Len(s) + Len(t)
    BY <1>1
  <1>3. \A i \in 1..(Len(s) + Len(t)) :
                (s \o t)[i] = IF i <= Len(s) THEN s[i] ELSE t[i - Len(s)]
    BY <1>1
  <1>. QED  BY <1>2, <1>3, SeqType

\* Joining the empty sequence changes nothing.
LEMMA ConcatEmpty ==
    ASSUME NEW s, IsSeq(s)
    PROVE  s \o <<>> = s
  BY DEF IsSeq

\* The element set of a concatenation is the union of the two.
LEMMA ConcatElements ==
    ASSUME NEW s, NEW t, IsSeq(s), IsSeq(t)
    PROVE  ToSet(s \o t) = ToSet(s) \cup ToSet(t)
  <1>. DEFINE S == ToSet(s) \cup ToSet(t)
  <1>1. s \in Seq(S) /\ t \in Seq(S)
    BY SeqWiden
  <1>. HIDE DEF S
  <1>2. s \o t \in Seq(S) /\ Len(s \o t) = Len(s) + Len(t)
    BY <1>1
  <1>3. \A i \in 1..(Len(s) + Len(t)) :
                (s \o t)[i] = IF i <= Len(s) THEN s[i] ELSE t[i - Len(s)]
    BY <1>1
  <1>4. Len(s) \in Nat /\ Len(t) \in Nat /\ DOMAIN s = 1..Len(s) /\ DOMAIN t = 1..Len(t)
        /\ DOMAIN (s \o t) = 1..(Len(s) + Len(t))
    BY <1>1, <1>2
  <1>6. \A i \in 1..Len(s) : (s \o t)[i] = s[i]
    BY <1>3, <1>4
  <1>7. \A i \in 1..Len(t) : (s \o t)[Len(s) + i] = t[i]
    BY <1>3, <1>4
  <1>8. ToSet(s \o t) = ToSet(s) \cup ToSet(t)
    <2>1. ASSUME NEW x \in ToSet(s \o t) PROVE x \in ToSet(s) \cup ToSet(t)
      <3>1. PICK i \in 1..(Len(s) + Len(t)) : x = (s \o t)[i]
        BY <1>4 DEF ToSet
      <3>2. CASE i <= Len(s)
        BY <3>1, <3>2, <1>3, <1>4 DEF ToSet
      <3>3. CASE i > Len(s)
        <4>1. i - Len(s) \in DOMAIN t /\ x = t[i - Len(s)]
          BY <3>1, <3>3, <1>3, <1>4
        <4>. QED  BY <4>1 DEF ToSet
      <3>. QED  BY <3>2, <3>3, <1>4
    <2>2. ASSUME NEW x \in ToSet(s) PROVE x \in ToSet(s \o t)
      BY <1>4, <1>6 DEF ToSet
    <2>3. ASSUME NEW x \in ToSet(t) PROVE x \in ToSet(s \o t)
      <3>1. PICK i \in 1..Len(t) : x = t[i]
        BY <1>4 DEF ToSet
      <3>2. Len(s) + i \in 1..(Len(s) + Len(t)) /\ (s \o t)[Len(s) + i] = x
        BY <3>1, <1>4, <1>7
      <3>. QED  BY <3>2, <1>4 DEF ToSet
    <2>. QED  BY <2>1, <2>2, <2>3
  <1>. QED  BY <1>8

\* The length and the elements of a slice within bounds, the empty slice included.
LEMMA SubSeqFacts ==
    ASSUME NEW s, IsSeq(s), NEW m \in Nat, NEW n \in Nat, 1 <= m, m <= n + 1, n <= Len(s)
    PROVE  /\ IsSeq(SubSeq(s, m, n))
           /\ Len(SubSeq(s, m, n)) = n - m + 1
           /\ \A i \in 1..(n - m + 1) : SubSeq(s, m, n)[i] = s[m + i - 1]
           /\ ToSet(SubSeq(s, m, n)) \subseteq ToSet(s)
  <1>1. s \in Seq(ToSet(s)) /\ Len(s) \in Nat
    BY DEF IsSeq
  <1>2. SubSeq(s, m, n) \in Seq(ToSet(s))
    BY <1>1
  <1>3. Len(SubSeq(s, m, n)) = n - m + 1
    BY <1>1
  <1>4. \A i \in 1..(n - m + 1) : SubSeq(s, m, n)[i] = s[m + i - 1]
    BY <1>1
  <1>. QED  BY <1>2, <1>3, <1>4, SeqType

\* What is left of a sequence behind its first n elements.
Suffix(s, n) == SubSeq(s, n + 1, Len(s))

\* What is left of a sequence after its first n elements.
LEMMA SuffixFacts ==
    ASSUME NEW s, IsSeq(s), NEW n \in 0..Len(s)
    PROVE  /\ IsSeq(Suffix(s, n)) /\ Len(Suffix(s, n)) = Len(s) - n
           /\ \A i \in 1..(Len(s) - n) : Suffix(s, n)[i] = s[n + i]
           /\ ToSet(Suffix(s, n)) = {s[i] : i \in (n + 1)..Len(s)}
           /\ Suffix(s, n) = <<>> <=> n = Len(s)
           /\ n < Len(s) => Head(Suffix(s, n)) = s[n + 1]
  <1>. DEFINE u == Suffix(s, n)
  <1>0. Len(s) \in Nat /\ n \in Nat /\ n <= Len(s)
    BY IsSeqFacts
  <1>1. /\ IsSeq(u) /\ Len(u) = Len(s) - (n + 1) + 1
        /\ \A i \in 1..(Len(s) - (n + 1) + 1) : u[i] = s[(n + 1) + i - 1]
    BY <1>0, SubSeqFacts DEF Suffix
  <1>2. Len(s) - (n + 1) + 1 = Len(s) - n /\ \A i \in 1..(Len(s) - n) : (n + 1) + i - 1 = n + i
    BY <1>0
  <1>. HIDE DEF u
  <1>3. IsSeq(u) /\ Len(u) = Len(s) - n /\ \A i \in 1..(Len(s) - n) : u[i] = s[n + i]
    BY <1>1, <1>2
  <1>4. DOMAIN u = 1..(Len(s) - n)
    BY <1>3, IsSeqFacts
  <1>5. ToSet(u) = {s[i] : i \in (n + 1)..Len(s)}
    <2>1. ASSUME NEW x \in ToSet(u) PROVE x \in {s[i] : i \in (n + 1)..Len(s)}
      <3>1. PICK i \in 1..(Len(s) - n) : x = u[i]
        BY <1>4 DEF ToSet
      <3>2. n + i \in (n + 1)..Len(s) /\ x = s[n + i]
        BY <3>1, <1>0, <1>3
      <3>. QED  BY <3>2
    <2>2. ASSUME NEW i \in (n + 1)..Len(s) PROVE s[i] \in ToSet(u)
      <3>1. i - n \in 1..(Len(s) - n) /\ n + (i - n) = i
        BY <1>0
      <3>2. u[i - n] = s[i]
        BY <3>1, <1>3
      <3>. QED  BY <3>1, <3>2, <1>4 DEF ToSet
    <2>. QED  BY <2>1, <2>2
  <1>6. u = <<>> <=> n = Len(s)
    <2>1. u = <<>> => n = Len(s)
      BY <1>0, <1>3
    <2>2. n = Len(s) => u = <<>>
      BY <1>0, <1>3, EmptyFacts, SeqExtensional
    <2>. QED  BY <2>1, <2>2
  <1>7. n < Len(s) => Head(u) = s[n + 1]
    <2>1. n < Len(s) => 1 \in 1..(Len(s) - n)
      BY <1>0
    <2>. QED  BY <2>1, <1>3, <1>6
  <1>. QED  BY <1>3, <1>5, <1>6, <1>7 DEF u

\* Concatenation is associative.
LEMMA JoinAssociative ==
    ASSUME NEW s, NEW t, NEW u, IsSeq(s), IsSeq(t), IsSeq(u)
    PROVE  (s \o t) \o u = s \o (t \o u)
  <1>. DEFINE st == s \o t
              tu == t \o u
              l == st \o u
              r == s \o tu
  <1>0. Len(s) \in Nat /\ Len(t) \in Nat /\ Len(u) \in Nat
    BY IsSeqFacts
  <1>1. /\ IsSeq(st) /\ Len(st) = Len(s) + Len(t)
        /\ \A i \in 1..(Len(s) + Len(t)) : st[i] = IF i <= Len(s) THEN s[i] ELSE t[i - Len(s)]
    BY ConcatFacts
  <1>2. /\ IsSeq(tu) /\ Len(tu) = Len(t) + Len(u)
        /\ \A i \in 1..(Len(t) + Len(u)) : tu[i] = IF i <= Len(t) THEN t[i] ELSE u[i - Len(t)]
    BY ConcatFacts
  <1>. HIDE DEF st, tu
  <1>3. /\ IsSeq(l) /\ Len(l) = Len(st) + Len(u)
        /\ \A i \in 1..(Len(st) + Len(u)) : l[i] = IF i <= Len(st) THEN st[i] ELSE u[i - Len(st)]
    BY <1>1, ConcatFacts
  <1>4. /\ IsSeq(r) /\ Len(r) = Len(s) + Len(tu)
        /\ \A i \in 1..(Len(s) + Len(tu)) : r[i] = IF i <= Len(s) THEN s[i] ELSE tu[i - Len(s)]
    BY <1>2, ConcatFacts
  <1>. HIDE DEF l, r
  <1>5. Len(l) = Len(s) + Len(t) + Len(u) /\ Len(r) = Len(s) + Len(t) + Len(u)
    BY <1>0, <1>1, <1>2, <1>3, <1>4
  <1>6. ASSUME NEW i \in 1..Len(l) PROVE l[i] = r[i]
    <2>0. i \in Nat /\ i >= 1 /\ i <= Len(s) + Len(t) + Len(u)
      BY <1>0, <1>5
    <2>1. CASE i <= Len(s)
      <3>1. l[i] = st[i] /\ st[i] = s[i] /\ r[i] = s[i]
        BY <2>0, <2>1, <1>0, <1>1, <1>2, <1>3, <1>4
      <3>. QED  BY <3>1
    <2>2. CASE i > Len(s) /\ i <= Len(s) + Len(t)
      <3>1. l[i] = st[i] /\ st[i] = t[i - Len(s)]
        BY <2>0, <2>2, <1>0, <1>1, <1>3
      <3>2. r[i] = tu[i - Len(s)]
        BY <2>0, <2>2, <1>0, <1>2, <1>4
      <3>3. i - Len(s) \in 1..(Len(t) + Len(u)) /\ i - Len(s) <= Len(t)
        BY <2>0, <2>2, <1>0
      <3>4. tu[i - Len(s)] = t[i - Len(s)]
        BY <3>3, <1>2
      <3>. QED  BY <3>1, <3>2, <3>4
    <2>3. CASE i > Len(s) + Len(t)
      <3>1. l[i] = u[i - (Len(s) + Len(t))]
        BY <2>0, <2>3, <1>0, <1>1, <1>3
      <3>2. r[i] = tu[i - Len(s)]
        BY <2>0, <2>3, <1>0, <1>2, <1>4
      <3>3. /\ i - Len(s) \in 1..(Len(t) + Len(u)) /\ ~(i - Len(s) <= Len(t))
            /\ (i - Len(s)) - Len(t) = i - (Len(s) + Len(t))
        BY <2>0, <2>3, <1>0
      <3>4. tu[i - Len(s)] = u[(i - Len(s)) - Len(t)]
        BY <3>3, <1>2
      <3>. QED  BY <3>1, <3>2, <3>3, <3>4
    <2>. QED  BY <2>0, <2>1, <2>2, <2>3, <1>0
  <1>7. l = r
    BY <1>3, <1>4, <1>5, <1>6, SeqExtensional
  <1>. QED  BY <1>7 DEF l, r, st, tu

\* The length and the elements of a sequence with its n-th element removed.
LEMMA RemoveAtFacts ==
    ASSUME NEW s, IsSeq(s), NEW n \in 1..Len(s)
    PROVE  /\ IsSeq(RemoveAt(s, n)) /\ Len(RemoveAt(s, n)) = Len(s) - 1
           /\ \A i \in 1..(Len(s) - 1) : RemoveAt(s, n)[i] = IF i < n THEN s[i] ELSE s[i + 1]
  <1>. DEFINE a == SubSeq(s, 1, n - 1)
              b == SubSeq(s, n + 1, Len(s))
              t == RemoveAt(s, n)
  <1>0. Len(s) \in Nat /\ n \in Nat /\ 1 <= n /\ n <= Len(s)
    BY IsSeqFacts
  <1>1. /\ IsSeq(a) /\ Len(a) = (n - 1) - 1 + 1
        /\ \A i \in 1..((n - 1) - 1 + 1) : a[i] = s[1 + i - 1]
    <2>1. 1 \in Nat /\ n - 1 \in Nat /\ 1 <= 1 /\ 1 <= (n - 1) + 1 /\ n - 1 <= Len(s)
      BY <1>0
    <2>. QED  BY <2>1, SubSeqFacts
  <1>2. /\ IsSeq(b) /\ Len(b) = Len(s) - (n + 1) + 1
        /\ \A i \in 1..(Len(s) - (n + 1) + 1) : b[i] = s[(n + 1) + i - 1]
    <2>1. n + 1 \in Nat /\ 1 <= n + 1 /\ n + 1 <= Len(s) + 1 /\ Len(s) <= Len(s)
      BY <1>0
    <2>. QED  BY <2>1, <1>0, SubSeqFacts
  <1>3. t = a \o b
    BY DEF RemoveAt
  <1>. HIDE DEF a, b, t
  <1>4. IsSeq(a) /\ Len(a) = n - 1 /\ \A i \in 1..(n - 1) : a[i] = s[i]
    BY <1>0, <1>1
  <1>5. IsSeq(b) /\ Len(b) = Len(s) - n /\ \A i \in 1..(Len(s) - n) : b[i] = s[n + i]
    BY <1>0, <1>2
  <1>6. /\ IsSeq(t) /\ Len(t) = Len(a) + Len(b)
        /\ \A i \in 1..(Len(a) + Len(b)) : t[i] = IF i <= Len(a) THEN a[i] ELSE b[i - Len(a)]
    BY <1>3, <1>4, <1>5, ConcatFacts
  <1>7. Len(t) = Len(s) - 1 /\ Len(a) + Len(b) = Len(s) - 1
    BY <1>0, <1>4, <1>5, <1>6
  <1>8. ASSUME NEW i \in 1..(Len(s) - 1) PROVE t[i] = IF i < n THEN s[i] ELSE s[i + 1]
    <2>1. CASE i < n
      <3>1. i \in 1..(n - 1) /\ i <= Len(a)
        BY <1>0, <1>4, <2>1
      <3>. QED  BY <3>1, <2>1, <1>4, <1>6, <1>7
    <2>2. CASE ~ (i < n)
      <3>1. ~ (i <= Len(a)) /\ i - (n - 1) \in 1..(Len(s) - n) /\ n + (i - (n - 1)) = i + 1
        BY <1>0, <1>4, <2>2
      <3>2. t[i] = b[i - (n - 1)]
        BY <3>1, <1>4, <1>6, <1>7
      <3>3. b[i - (n - 1)] = s[n + (i - (n - 1))]
        BY <3>1, <1>5
      <3>. QED  BY <3>1, <3>2, <3>3, <2>2
    <2>. QED  BY <2>1, <2>2
  <1>. QED  BY <1>6, <1>7, <1>8 DEF t

\* A reversed sequence has the same elements in the opposite order.
LEMMA ReverseFacts ==
    ASSUME NEW s, IsSeq(s)
    PROVE  /\ IsSeq(Reverse(s)) /\ Len(Reverse(s)) = Len(s) /\ ToSet(Reverse(s)) = ToSet(s)
           /\ \A i \in 1..Len(s) : Reverse(s)[i] = s[Len(s) - i + 1]
  <1>. DEFINE t == Reverse(s)
  <1>0. Len(s) \in Nat /\ DOMAIN s = 1..Len(s)
    BY IsSeqFacts
  <1>1. DOMAIN t = 1..Len(s) /\ t = [i \in 1..Len(s) |-> t[i]]
    BY DEF Reverse
  <1>2. \A i \in 1..Len(s) : t[i] = s[Len(s) - i + 1]
    BY DEF Reverse
  <1>. HIDE DEF t
  <1>3. IsSeq(t) /\ Len(t) = Len(s)
    BY <1>0, <1>1, FunctionIsSeq
  <1>4. ToSet(t) = ToSet(s)
    <2>1. \A i \in 1..Len(s) : Len(s) - i + 1 \in 1..Len(s) /\ Len(s) - (Len(s) - i + 1) + 1 = i
      BY <1>0
    <2>2. \A i \in 1..Len(s) : s[i] = t[Len(s) - i + 1]
      BY <2>1, <1>2
    <2>3. ASSUME NEW x \in ToSet(t) PROVE x \in ToSet(s)
      BY <1>0, <1>1, <1>2, <2>1 DEF ToSet
    <2>4. ASSUME NEW x \in ToSet(s) PROVE x \in ToSet(t)
      BY <1>0, <1>1, <2>1, <2>2 DEF ToSet
    <2>. QED  BY <2>3, <2>4
  <1>. QED  BY <1>2, <1>3, <1>4 DEF t

\* A sequence with its last element replaced.
WithLast(s, x) == [s EXCEPT ![Len(s)] = x]

\* Replacing the last element leaves every other one in place.
LEMMA WithLastFacts ==
    ASSUME NEW s, IsSeq(s), Len(s) >= 1, NEW x
    PROVE  /\ IsSeq(WithLast(s, x)) /\ Len(WithLast(s, x)) = Len(s) /\ WithLast(s, x)[Len(s)] = x
           /\ \A i \in 1..(Len(s) - 1) : WithLast(s, x)[i] = s[i]
  <1>. DEFINE n == Len(s)
              t == WithLast(s, x)
  <1>0. n \in Nat /\ DOMAIN s = 1..n
    BY IsSeqFacts
  <1>1. DOMAIN t = 1..n /\ t = [i \in 1..n |-> t[i]]
    BY <1>0 DEF WithLast
  <1>2. t[n] = x /\ \A i \in 1..(n - 1) : t[i] = s[i]
    BY <1>0 DEF WithLast
  <1>. HIDE DEF n, t
  <1>3. IsSeq(t) /\ Len(t) = n
    BY <1>0, <1>1, FunctionIsSeq
  <1>. QED  BY <1>2, <1>3 DEF n, t

\* The length and the elements of a sequence with one more at its end.
LEMMA AppendFacts ==
    ASSUME NEW s, IsSeq(s), NEW x
    PROVE  /\ IsSeq(Append(s, x))
           /\ Len(Append(s, x)) = Len(s) + 1
           /\ \A i \in 1..Len(s) : Append(s, x)[i] = s[i]
           /\ Append(s, x)[Len(s) + 1] = x
           /\ ToSet(Append(s, x)) = ToSet(s) \cup {x}
  <1>. DEFINE S == ToSet(s) \cup {x}
  <1>1. s \in Seq(S) /\ x \in S
    BY SeqWiden
  <1>. HIDE DEF S
  <1>2. /\ Append(s, x) \in Seq(S) /\ Len(Append(s, x)) = Len(s) + 1
        /\ \A i \in 1..Len(s) : Append(s, x)[i] = s[i]
        /\ Append(s, x)[Len(s) + 1] = x
    BY <1>1
  <1>3. Len(s) \in Nat /\ DOMAIN s = 1..Len(s) /\ DOMAIN Append(s, x) = 1..(Len(s) + 1)
    BY <1>1, <1>2
  <1>4. ToSet(Append(s, x)) = ToSet(s) \cup {x}
    BY <1>2, <1>3 DEF ToSet
  <1>. QED  BY <1>2, <1>4, SeqType

\* Appending is concatenation with a sequence of one element.
LEMMA AppendIsJoin ==
    ASSUME NEW s, IsSeq(s), NEW x
    PROVE  s \o <<x>> = Append(s, x)
  <1>1. IsSeq(<<x>>) /\ Len(<<x>>) = 1 /\ <<x>>[1] = x /\ Len(s) \in Nat
    BY SingletonFacts, IsSeqFacts
  <1>2. /\ IsSeq(s \o <<x>>) /\ Len(s \o <<x>>) = Len(s) + 1
        /\ \A i \in 1..(Len(s) + 1) :
             (s \o <<x>>)[i] = IF i <= Len(s) THEN s[i] ELSE <<x>>[i - Len(s)]
    BY <1>1, ConcatFacts
  <1>3. /\ IsSeq(Append(s, x)) /\ Len(Append(s, x)) = Len(s) + 1
        /\ \A i \in 1..Len(s) : Append(s, x)[i] = s[i]
        /\ Append(s, x)[Len(s) + 1] = x
    BY AppendFacts
  <1>4. ASSUME NEW i \in 1..(Len(s) + 1) PROVE (s \o <<x>>)[i] = Append(s, x)[i]
    <2>1. CASE i <= Len(s)
      BY <1>1, <1>2, <1>3, <2>1
    <2>2. CASE i = Len(s) + 1
      <3>1. i - Len(s) = 1 /\ ~(i <= Len(s))
        BY <1>1, <2>2
      <3>. QED  BY <1>1, <1>2, <1>3, <2>2, <3>1
    <2>. QED  BY <1>1, <2>1, <2>2
  <1>. QED  BY <1>2, <1>3, <1>4, SeqExtensional

\* The parts of a sequence of sequences, one after the other.
LEMMA FlattenUnfolds ==
    ASSUME NEW seqs, IsSeq(seqs)
    PROVE  \E flat : /\ FlattenSeq(seqs) = IF Len(seqs) = 0 THEN seqs ELSE flat[Len(seqs)]
                     /\ \A i \in 1..Len(seqs) :
                          flat[i] = IF i = 1 THEN seqs[i] ELSE flat[i - 1] \o seqs[i]
  <1>. DEFINE Is(f, m) == f = [i \in 1..m |-> IF i = 1 THEN seqs[i] ELSE f[i - 1] \o seqs[i]]
              T == {m \in Nat : \E f : Is(f, m)}
  <1>0. Len(seqs) \in Nat /\ DOMAIN seqs = 1..Len(seqs)
    BY IsSeqFacts
  <1>1. 0 \in T
    <2>. DEFINE f == [i \in 1..0 |-> seqs[i]]
    <2>1. Is(f, 0)  OBVIOUS
    <2>. QED  BY <2>1
  <1>2. ASSUME NEW m \in Nat, m \in T PROVE m + 1 \in T
    <2>1. PICK f : Is(f, m)
      BY <1>2
    <2>. DEFINE last == IF m = 0 THEN seqs[1] ELSE f[m] \o seqs[m + 1]
                g == [i \in 1..(m + 1) |-> IF i <= m THEN f[i] ELSE last]
    <2>2. ASSUME NEW i \in 1..(m + 1)
          PROVE  g[i] = IF i = 1 THEN seqs[i] ELSE g[i - 1] \o seqs[i]
      <3>1. CASE i <= m
        <4>1. i \in 1..m /\ g[i] = f[i] /\ (i # 1 => g[i - 1] = f[i - 1])
          BY <3>1
        <4>. QED  BY <2>1, <4>1
      <3>2. CASE i = m + 1
        <4>1. g[i] = last /\ (i # 1 => g[i - 1] = f[m])
          BY <3>2
        <4>. QED  BY <3>2, <4>1
      <3>. QED  BY <3>1, <3>2
    <2>3. Is(g, m + 1)
      BY <2>2
    <2>. HIDE DEF g, Is
    <2>. QED  BY <2>3
  <1>3. \E f : Is(f, Len(seqs))
    <2>. HIDE DEF T
    <2>1. Nat \subseteq T
      BY <1>1, <1>2, SetInduction
    <2>. QED  BY <2>1, <1>0 DEF T
  <1>. DEFINE flat == CHOOSE f : Is(f, Len(seqs))
  <1>4. Is(flat, Len(seqs))
    <2>. HIDE DEF Is
    <2>. QED  BY <1>3
  <1>5. FlattenSeq(seqs) = IF Len(seqs) = 0 THEN seqs ELSE flat[Len(seqs)]
    BY DEF FlattenSeq
  <1>. HIDE DEF flat
  <1>6. \A i \in 1..Len(seqs) : flat[i] = IF i = 1 THEN seqs[i] ELSE flat[i - 1] \o seqs[i]
    BY <1>4
  <1>. QED  BY <1>5, <1>6

\* Flattening yields a sequence of elements of the parts.
LEMMA FlattenFacts ==
    ASSUME NEW seqs, IsSeq(seqs), \A i \in 1..Len(seqs) : IsSeq(seqs[i])
    PROVE  /\ IsSeq(FlattenSeq(seqs))
           /\ \A x \in ToSet(FlattenSeq(seqs)) : \E i \in 1..Len(seqs) : x \in ToSet(seqs[i])
  <1>0. Len(seqs) \in Nat /\ DOMAIN seqs = 1..Len(seqs)
    BY IsSeqFacts
  <1>1. PICK flat : /\ FlattenSeq(seqs) = IF Len(seqs) = 0 THEN seqs ELSE flat[Len(seqs)]
                    /\ \A i \in 1..Len(seqs) :
                         flat[i] = IF i = 1 THEN seqs[i] ELSE flat[i - 1] \o seqs[i]
    BY FlattenUnfolds
  <1>5. FlattenSeq(seqs) = IF Len(seqs) = 0 THEN seqs ELSE flat[Len(seqs)]
    BY <1>1
  <1>6. \A i \in 1..Len(seqs) : flat[i] = IF i = 1 THEN seqs[i] ELSE flat[i - 1] \o seqs[i]
    BY <1>1
  <1>. DEFINE Fine(i) == /\ IsSeq(flat[i])
                         /\ \A x \in ToSet(flat[i]) : \E k \in 1..Len(seqs) : x \in ToSet(seqs[k])
              U == {m \in Nat : m + 1 \in 1..Len(seqs) => Fine(m + 1)}
  <1>7. 0 \in U
    <2>1. 1 \in 1..Len(seqs) => flat[1] = seqs[1]
      BY <1>6
    <2>. QED  BY <2>1
  <1>8. ASSUME NEW m \in Nat, m \in U PROVE m + 1 \in U
    <2>. SUFFICES ASSUME m + 2 \in 1..Len(seqs) PROVE Fine(m + 2)
      BY <1>0
    <2>1. flat[m + 2] = flat[m + 1] \o seqs[m + 2] /\ m + 1 \in 1..Len(seqs)
      <3>1. (m + 2) - 1 = m + 1 /\ m + 2 # 1 /\ m + 1 \in 1..Len(seqs)
        BY <1>0
      <3>. QED  BY <1>6, <3>1
    <2>2. Fine(m + 1)
      BY <1>8, <2>1
    <2>3. IsSeq(flat[m + 2]) /\ ToSet(flat[m + 2]) = ToSet(flat[m + 1]) \cup ToSet(seqs[m + 2])
      BY <2>1, <2>2, ConcatFacts, ConcatElements
    <2>. QED  BY <2>2, <2>3
  <1>9. Nat \subseteq U
    <2>. HIDE DEF U
    <2>. QED  BY <1>7, <1>8, SetInduction
  <1>10. CASE Len(seqs) = 0
    BY <1>10, <1>5, <1>0 DEF ToSet
  <1>11. CASE Len(seqs) # 0
    <2>1. Fine(Len(seqs))
      <3>1. Len(seqs) - 1 \in U /\ (Len(seqs) - 1) + 1 = Len(seqs)
        <4>. HIDE DEF U
        <4>. QED  BY <1>9, <1>11, <1>0
      <3>. QED  BY <3>1, <1>11, <1>0
    <2>. QED  BY <2>1, <1>5, <1>11
  <1>. QED  BY <1>10, <1>11

\* Flattening one more part.
LEMMA FlattenAppend ==
    ASSUME NEW seqs, IsSeq(seqs), \A i \in 1..Len(seqs) : IsSeq(seqs[i]),
           NEW t, IsSeq(t)
    PROVE  FlattenSeq(Append(seqs, t)) = FlattenSeq(seqs) \o t
  <1>. DEFINE n == Len(seqs)
              more == Append(seqs, t)
  <1>0. n \in Nat
    BY IsSeqFacts
  <1>1. /\ IsSeq(more) /\ Len(more) = n + 1 /\ more[n + 1] = t
        /\ \A i \in 1..n : more[i] = seqs[i]
    BY AppendFacts
  <1>. HIDE DEF more
  <1>2. PICK f : /\ FlattenSeq(seqs) = IF n = 0 THEN seqs ELSE f[n]
                 /\ \A i \in 1..n : f[i] = IF i = 1 THEN seqs[i] ELSE f[i - 1] \o seqs[i]
    BY FlattenUnfolds
  <1>3. PICK g : /\ FlattenSeq(more) = IF Len(more) = 0 THEN more ELSE g[Len(more)]
                 /\ \A i \in 1..Len(more) :
                      g[i] = IF i = 1 THEN more[i] ELSE g[i - 1] \o more[i]
    BY <1>1, FlattenUnfolds
  <1>. HIDE DEF n
  <1>4. FlattenSeq(more) = g[n + 1]
    BY <1>0, <1>1, <1>3
  <1>5. CASE n = 0
    <2>1. seqs = <<>>
      BY <1>5, EmptyFacts, SeqExtensional DEF n
    <2>2. n + 1 \in 1..Len(more) /\ n + 1 = 1
      BY <1>1, <1>5
    <2>3. g[n + 1] = t
      BY <1>1, <1>3, <2>2
    <2>4. <<>> \o t = t
      BY DEF IsSeq
    <2>. QED  BY <1>2, <1>4, <1>5, <2>1, <2>3, <2>4 DEF more
  <1>6. CASE n # 0
    <2>. DEFINE U == {m \in Nat : m + 1 <= n => g[m + 1] = f[m + 1]}
    <2>1. 0 \in U
      <3>1. 1 \in 1..n /\ 1 \in 1..Len(more)
        BY <1>0, <1>1, <1>6
      <3>2. g[1] = more[1] /\ f[1] = seqs[1] /\ more[1] = seqs[1]
        BY <1>1, <1>2, <1>3, <3>1
      <3>. QED  BY <3>2
    <2>2. ASSUME NEW m \in Nat, m \in U PROVE m + 1 \in U
      <3>. SUFFICES ASSUME (m + 1) + 1 <= n PROVE g[(m + 1) + 1] = f[(m + 1) + 1]
        OBVIOUS
      <3>. DEFINE k == (m + 1) + 1
      <3>1. k \in 1..n /\ k \in 1..Len(more) /\ k # 1 /\ k - 1 = m + 1 /\ m + 1 <= n
        BY <1>0, <1>1
      <3>2. g[m + 1] = f[m + 1]
        BY <2>2, <3>1
      <3>. HIDE DEF k
      <3>3. g[k] = g[m + 1] \o more[k] /\ f[k] = f[m + 1] \o seqs[k]
        BY <1>2, <1>3, <3>1
      <3>4. g[k] = f[k]
        BY <1>1, <3>1, <3>2, <3>3
      <3>. QED  BY <3>4 DEF k
    <2>. HIDE DEF U
    <2>3. n - 1 \in U /\ (n - 1) + 1 = n
      BY <1>0, <1>6, <2>1, <2>2, SetInduction
    <2>4. g[n] = f[n]
      BY <2>3 DEF U
    <2>5. n + 1 \in 1..Len(more) /\ n + 1 # 1 /\ (n + 1) - 1 = n
      BY <1>0, <1>1, <1>6
    <2>6. g[n + 1] = g[n] \o more[n + 1]
      BY <1>3, <2>5
    <2>. QED  BY <1>1, <1>2, <1>4, <1>6, <2>4, <2>6 DEF more
  <1>. QED  BY <1>5, <1>6 DEF more

-------------------------------------------------------------------------------
(* Sorting.  A strict total order is a set r of pairs.                     *)

StrictTotal(S, r) ==
    /\ \A x \in S : <<x, x>> \notin r
    /\ \A x, y, z \in S : <<x, y>> \in r /\ <<y, z>> \in r => <<x, z>> \in r
    /\ \A x, y \in S : x = y \/ <<x, y>> \in r \/ <<y, x>> \in r

Below(S, r, x) == {y \in S : <<y, x>> \in r}

\* The sequence s has the elements of S, each once, in the order r.
Sorts(s, S, r) ==
    /\ IsSeq(s) /\ Len(s) = Cardinality(S) /\ ToSet(s) = S
    /\ \A i, j \in 1..Len(s) : i < j => <<s[i], s[j]>> \in r
    /\ \A i, j \in 1..Len(s) : s[i] = s[j] => i = j

\* Larger elements have more elements below them.
LEMMA RankGrows ==
    ASSUME NEW S, IsFiniteSet(S), NEW r, StrictTotal(S, r)
    PROVE  /\ \A x \in S : IsFiniteSet(Below(S, r, x)) /\ Cardinality(Below(S, r, x)) \in 0..(Cardinality(S) - 1)
           /\ \A x, y \in S : <<x, y>> \in r => Cardinality(Below(S, r, x)) < Cardinality(Below(S, r, y))
  <1>0. Cardinality(S) \in Nat
    BY FS_CardinalityType
  <1>1. ASSUME NEW x \in S
        PROVE  IsFiniteSet(Below(S, r, x)) /\ Cardinality(Below(S, r, x)) \in 0..(Cardinality(S) - 1)
    <2>. DEFINE B == Below(S, r, x)
    <2>1. B \in SUBSET (S \ {x}) /\ B \in SUBSET S
      BY DEF Below, StrictTotal
    <2>2. IsFiniteSet(S \ {x}) /\ Cardinality(S \ {x}) = Cardinality(S) - 1
      BY FS_RemoveElement
    <2>. HIDE DEF B
    <2>3. IsFiniteSet(B) /\ Cardinality(B) <= Cardinality(S \ {x})
      BY <2>1, <2>2, FS_Subset
    <2>4. Cardinality(B) \in Nat
      BY <2>3, FS_CardinalityType
    <2>. QED  BY <2>2, <2>3, <2>4, <1>0 DEF B
  <1>2. ASSUME NEW x \in S, NEW y \in S, <<x, y>> \in r
        PROVE  Cardinality(Below(S, r, x)) < Cardinality(Below(S, r, y))
    <2>. DEFINE B == Below(S, r, x)
                C == Below(S, r, y)
    <2>1. B \cup {x} \in SUBSET C /\ x \notin B
      BY <1>2 DEF Below, StrictTotal
    <2>2. IsFiniteSet(B) /\ IsFiniteSet(C) /\ Cardinality(B) \in Nat /\ Cardinality(C) \in Nat
      BY <1>1
    <2>. HIDE DEF B, C
    <2>3. Cardinality(B \cup {x}) = Cardinality(B) + 1
      BY <2>1, <2>2, FS_AddElement
    <2>4. Cardinality(B \cup {x}) <= Cardinality(C)
      BY <2>1, <2>2, FS_Subset
    <2>5. Cardinality(B) < Cardinality(C)
      BY <2>2, <2>3, <2>4
    <2>. QED  BY <2>5 DEF B, C
  <1>. QED  BY <1>1, <1>2

\* Every rank is the rank of one element.
LEMMA RankUnique ==
    ASSUME NEW S, IsFiniteSet(S), NEW r, StrictTotal(S, r), NEW n \in 1..Cardinality(S)
    PROVE  \E x \in S : Cardinality(Below(S, r, x)) = n - 1
  <1>. DEFINE T == 0..(Cardinality(S) - 1)
              f == [x \in S |-> Cardinality(Below(S, r, x))]
  <1>0. Cardinality(S) \in Nat
    BY FS_CardinalityType
  <1>1. f \in [S -> T]
    BY RankGrows
  <1>2. ASSUME NEW x \in S, NEW y \in S, x # y PROVE f[x] # f[y]
    <2>1. <<x, y>> \in r \/ <<y, x>> \in r
      BY <1>2 DEF StrictTotal
    <2>2. Cardinality(Below(S, r, x)) \in Nat /\ Cardinality(Below(S, r, y)) \in Nat
      BY RankGrows
    <2>3. Cardinality(Below(S, r, x)) # Cardinality(Below(S, r, y))
      BY <2>1, <2>2, RankGrows
    <2>. QED  BY <2>3
  <1>3. IsFiniteSet(T) /\ Cardinality(T) = Cardinality(S)
    <2>1. 0 \in Int /\ Cardinality(S) - 1 \in Int
      BY <1>0
    <2>2. IsFiniteSet(T) /\ Cardinality(T) = IF 0 > Cardinality(S) - 1 THEN 0 ELSE Cardinality(S) - 1 - 0 + 1
      BY <2>1, FS_Interval
    <2>. QED  BY <2>2, <1>0
  <1>. HIDE DEF f, T
  <1>4. f \in Injection(S, T)
    BY <1>1, <1>2 DEF Injection, IsInjective
  <1>5. f \in Surjection(S, T)
    BY <1>3, <1>4, FS_Injection
  <1>6. \A t \in T : \E x \in S : f[x] = t
    BY <1>5 DEF Surjection
  <1>7. n - 1 \in T
    BY <1>0 DEF T
  <1>. QED  BY <1>6, <1>7 DEF f

Rank(S, r, x) == Cardinality(Below(S, r, x))

\* Sorting by rank.
LEMMA SortedByRank ==
    ASSUME NEW S, IsFiniteSet(S), NEW r, StrictTotal(S, r),
           NEW s, IsSeq(s), Len(s) = Cardinality(S),
           \A n \in 1..Len(s) : s[n] \in S /\ Rank(S, r, s[n]) = n - 1
    PROVE  Sorts(s, S, r)
  <1>. DEFINE m == Cardinality(S)
              rank == [x \in S |-> Rank(S, r, x)]
  <1>0. m \in Nat /\ Len(s) = m /\ DOMAIN s = 1..m
    BY FS_CardinalityType, IsSeqFacts
  <1>1. \A n \in 1..m : s[n] \in S /\ rank[s[n]] = n - 1
    OBVIOUS
  <1>3. \A x \in S : rank[x] \in 0..(m - 1)
    BY RankGrows DEF Rank
  <1>4. \A x, y \in S : <<x, y>> \in r => rank[x] < rank[y]
    BY RankGrows DEF Rank
  <1>. HIDE DEF m, rank
  <1>5. \A x, y \in S : rank[x] = rank[y] => x = y
    <2>. SUFFICES ASSUME NEW x \in S, NEW y \in S, x # y PROVE rank[x] # rank[y]
      OBVIOUS
    <2>1. <<x, y>> \in r \/ <<y, x>> \in r
      BY DEF StrictTotal
    <2>2. rank[x] \in Int /\ rank[y] \in Int
      BY <1>0, <1>3
    <2>. QED  BY <2>1, <2>2, <1>4
  <1>6. ToSet(s) = S
    <2>1. \A x \in S : rank[x] + 1 \in 1..m /\ rank[s[rank[x] + 1]] = rank[x]
      BY <1>0, <1>1, <1>3
    <2>2. \A x \in S : s[rank[x] + 1] = x
      BY <1>1, <1>5, <2>1
    <2>. QED  BY <1>0, <1>1, <2>1, <2>2 DEF ToSet
  <1>7. ASSUME NEW i \in 1..m, NEW j \in 1..m, i < j PROVE <<s[i], s[j]>> \in r
    <2>1. s[i] \in S /\ s[j] \in S /\ rank[s[i]] = i - 1 /\ rank[s[j]] = j - 1
      BY <1>1
    <2>2. ~ (rank[s[j]] < rank[s[i]]) /\ s[i] # s[j]
      BY <2>1, <1>7, <1>0
    <2>. QED  BY <2>1, <2>2, <1>4 DEF StrictTotal
  <1>8. \A i, j \in 1..m : s[i] = s[j] => i = j
    <2>1. \A i, j \in 1..m : s[i] = s[j] => i - 1 = j - 1
      BY <1>1
    <2>. QED  BY <2>1, <1>0
  <1>. QED  BY <1>0, <1>6, <1>7, <1>8 DEF Sorts, m

\* A sequence has finitely many places.
LEMMA FinitePlaces ==
    ASSUME NEW s, IsSeq(s)
    PROVE  IsFiniteSet(DOMAIN s) /\ Cardinality(DOMAIN s) = Len(s)
  <1>0. Len(s) \in Nat /\ DOMAIN s = 1..Len(s)
    BY IsSeqFacts
  <1>1. IsFiniteSet(1..Len(s)) /\ Cardinality(1..Len(s)) = IF 1 > Len(s) THEN 0 ELSE Len(s) - 1 + 1
    BY <1>0, FS_Interval
  <1>. QED  BY <1>0, <1>1

\* The elements of s put at places `at` are those of s, if every place of s is in `at`.
LEMMA PermutedElements ==
    ASSUME NEW s, IsSeq(s), NEW t, IsSeq(t), Len(t) = Len(s),
           NEW at, IsSeq(at), Len(at) = Len(s), ToSet(at) = DOMAIN s,
           \A n \in 1..Len(s) : t[n] = s[at[n]]
    PROVE  ToSet(t) = ToSet(s)
  <1>1. /\ Len(s) \in Nat /\ DOMAIN s = 1..Len(s)
        /\ DOMAIN t = 1..Len(s) /\ DOMAIN at = 1..Len(s)
    BY IsSeqFacts
  <1>2. \A n \in 1..Len(s) : at[n] \in 1..Len(s)
    BY <1>1 DEF ToSet
  <1>3. \A i \in 1..Len(s) : \E n \in 1..Len(s) : at[n] = i
    <2>1. \A i \in ToSet(at) : \E n \in DOMAIN at : at[n] = i
      BY Zenon DEF ToSet
    <2>. QED  BY <2>1, <1>1
  <1>4. ASSUME NEW x \in ToSet(t) PROVE x \in ToSet(s)
    BY <1>1, <1>2 DEF ToSet
  <1>5. ASSUME NEW x \in ToSet(s) PROVE x \in ToSet(t)
    <2>1. PICK i \in 1..Len(s) : x = s[i]
      BY <1>1 DEF ToSet
    <2>2. PICK n \in 1..Len(s) : at[n] = i
      BY <1>3
    <2>3. t[n] = x
      BY <2>1, <2>2
    <2>. QED  BY <2>3, <1>1 DEF ToSet
  <1>. QED  BY <1>4, <1>5

-------------------------------------------------------------------------------
(* Counting.                                                               *)

\* A finite set of numbers has a greatest element.
LEMMA GreatestNatural ==
    ASSUME NEW T, T \subseteq Nat, T # {}, IsFiniteSet(T)
    PROVE  \E n \in T : \A m \in T : n >= m
  <1>. DEFINE U == {n \in Nat : \A A \in SUBSET Nat : IsFiniteSet(A) /\ Cardinality(A) = n + 1
                                   => \E a \in A : \A b \in A : a >= b}
  <1>1. 0 \in U
    <2>. SUFFICES ASSUME NEW A \in SUBSET Nat, IsFiniteSet(A), Cardinality(A) = 1
                  PROVE  \E a \in A : \A b \in A : a >= b
      OBVIOUS
    <2>1. PICK x : A = {x}
      BY FS_Singleton
    <2>. QED  BY <2>1
  <1>2. ASSUME NEW n \in Nat, n \in U PROVE n + 1 \in U
    <2>. SUFFICES ASSUME NEW A \in SUBSET Nat, IsFiniteSet(A), Cardinality(A) = n + 2
                  PROVE  \E a \in A : \A b \in A : a >= b
      OBVIOUS
    <2>1. PICK x \in A : TRUE
      <3>1. A # {}
        BY FS_EmptySet
      <3>. QED  BY <3>1
    <2>2. IsFiniteSet(A \ {x}) /\ Cardinality(A \ {x}) = n + 1 /\ A \ {x} \in SUBSET Nat
      BY FS_RemoveElement
    <2>3. PICK a \in A \ {x} : \A b \in A \ {x} : a >= b
      BY <1>2, <2>2
    <2>4. CASE x >= a
      BY <2>3, <2>4
    <2>5. CASE ~ (x >= a)
      BY <2>3, <2>5
    <2>. QED  BY <2>4, <2>5
  <1>3. Nat \subseteq U
    <2>. HIDE DEF U
    <2>. QED  BY <1>1, <1>2, SetInduction
  <1>4. Cardinality(T) \in Nat /\ Cardinality(T) # 0
    BY FS_CardinalityType, FS_EmptySet
  <1>5. Cardinality(T) - 1 \in U
    <2>. HIDE DEF U
    <2>. QED  BY <1>3, <1>4
  <1>. QED  BY <1>4, <1>5

\* A sequence without repetition has as many elements as places.
LEMMA CountElements ==
    ASSUME NEW s, IsSeq(s), \A i, j \in 1..Len(s) : s[i] = s[j] => i = j
    PROVE  IsFiniteSet(ToSet(s)) /\ Cardinality(ToSet(s)) = Len(s)
  <1>0. Len(s) \in Nat /\ DOMAIN s = 1..Len(s) /\ s \in [1..Len(s) -> ToSet(s)]
    BY IsSeqFacts DEF IsSeq
  <1>1. s \in Bijection(1..Len(s), ToSet(s))
    BY <1>0 DEF Bijection, Injection, Surjection, IsInjective, ToSet
  <1>2. ExistsBijection(1..Len(s), ToSet(s))
    BY <1>1 DEF ExistsBijection
  <1>. QED  BY <1>0, <1>2, FS_CountingElements, FS_NatBijection

\* SetToSeq lists the elements of a finite set.
LEMMA ListedSet ==
    ASSUME NEW S, IsFiniteSet(S)
    PROVE  IsSeq(SetToSeq(S)) /\ ToSet(SetToSeq(S)) \subseteq S
  <1>. DEFINE n == Cardinality(S)
              s == SetToSeq(S)
  <1>1. n \in Nat /\ Bijection(1..n, S) # {}
    BY FS_CardinalityType DEF ExistsBijection
  <1>2. \E f \in [1..n -> S] : IsInjective(f)
    BY <1>1 DEF Bijection, Injection
  <1>3. s \in [1..n -> S]
    BY <1>2 DEF SetToSeq
  <1>. HIDE DEF n, s
  <1>4. DOMAIN s = 1..n /\ s = [i \in 1..n |-> s[i]]
    BY <1>3
  <1>5. IsSeq(s)
    BY <1>1, <1>4, FunctionIsSeq
  <1>. QED  BY <1>3, <1>5 DEF ToSet, s

\* The values of a function on a finite set.
LEMMA FiniteValues ==
    ASSUME NEW S, IsFiniteSet(S), NEW f, f = [x \in S |-> f[x]]
    PROVE  IsFiniteSet({f[x] : x \in S})
  <1>1. f \in Surjection(S, {f[x] : x \in S})
    BY DEF Surjection
  <1>. QED  BY <1>1, FS_Surjection
===============================================================================
