------------------------------- MODULE Induction -------------------------------
(***************************************************************************)
(* Induction and recursion for the proofs of this project.                 *)
(*                                                                         *)
(* The facts a proof by induction is about are the parameters of this      *)
(* module: INSTANCE it with Holds(c, n) for the statement about n, in the  *)
(* context c, and with Step for the body of a loop.  The instances of the  *)
(* theorems are first-order facts that the provers can use.                *)
(***************************************************************************)
EXTENDS SequenceFacts

CONSTANTS Holds(_, _),   \* a fact about a number
          Step(_, _)     \* the next value of a loop, from the last and an element

-------------------------------------------------------------------------------
(* Induction.                                                              *)

\* Induction for the fact this module is instantiated with.
THEOREM NaturalInduction ==
    ASSUME NEW c, Holds(c, 0), \A n \in Nat : Holds(c, n) => Holds(c, n + 1)
    PROVE  \A n \in Nat : Holds(c, n)
  <1>. DEFINE T == {n \in Nat : Holds(c, n)}
  <1>1. 0 \in T /\ \A n \in Nat : n \in T => n + 1 \in T
    OBVIOUS
  <1>. HIDE DEF T
  <1>2. Nat \subseteq T
    BY <1>1, SetInduction
  <1>. QED  BY <1>2 DEF T

\* The values of a loop over the first n elements of s.
IsLoop(f, base, s, n) ==
    /\ f = [i \in 0..n |-> f[i]]
    /\ \A i \in 0..n : f[i] = IF i = 0 THEN base ELSE Step(f[i - 1], s[i])

\* A loop over the first n elements of s has values for all its turns.
THEOREM LoopDefined ==
    ASSUME NEW base, NEW s, NEW n \in Nat
    PROVE  \E f : IsLoop(f, base, s, n)
  <1>. DEFINE Is(f, m) == f = [i \in 0..m |-> IF i = 0 THEN base ELSE Step(f[i - 1], s[i])]
              T == {m \in Nat : \E f : Is(f, m)}
  <1>1. 0 \in T
    <2>. DEFINE f == [i \in 0..0 |-> base]
    <2>1. Is(f, 0)  OBVIOUS
    <2>. QED  BY <2>1
  <1>2. ASSUME NEW m \in Nat, m \in T PROVE m + 1 \in T
    <2>1. PICK f : Is(f, m)
      BY <1>2
    <2>. DEFINE g == [i \in 0..(m + 1) |-> IF i <= m THEN f[i] ELSE Step(f[m], s[m + 1])]
    <2>2. ASSUME NEW i \in 0..(m + 1)
          PROVE  g[i] = IF i = 0 THEN base ELSE Step(g[i - 1], s[i])
      <3>1. CASE i = 0
        BY <2>1, <3>1, g[0] = f[0]
      <3>2. CASE i # 0 /\ i <= m
        <4>1. g[i] = f[i] /\ g[i - 1] = f[i - 1] /\ i \in 0..m
          BY <3>2
        <4>. QED  BY <2>1, <3>2, <4>1
      <3>3. CASE i = m + 1
        <4>1. g[i] = Step(f[m], s[m + 1]) /\ g[i - 1] = f[m] /\ i # 0
          BY <3>3
        <4>. QED  BY <3>3, <4>1
      <3>. QED  BY <3>1, <3>2, <3>3
    <2>3. Is(g, m + 1)
      BY <2>2
    <2>. HIDE DEF g, Is
    <2>. QED  BY <2>3
  <1>. HIDE DEF T
  <1>3. Nat \subseteq T
    BY <1>1, <1>2, SetInduction
  <1>4. PICK f : Is(f, n)
    BY <1>3 DEF T
  <1>5. IsLoop(f, base, s, n)
    BY <1>4 DEF IsLoop
  <1>. QED  BY <1>5

\* A loop over s that computes the value of each turn once.
Loop(base, s) ==
    LET f[i \in 0..Len(s)] ==
            IF i = 0 THEN base ELSE CHOOSE y \in {Step(x, s[i]) : x \in {f[i - 1]}} : TRUE
    IN f[Len(s)]

\* f has the value after each turn of such a loop.
Turns(f, base, s) ==
    /\ Loop(base, s) = f[Len(s)] /\ f[0] = base
    /\ \A i \in 1..Len(s) : f[i] = Step(f[i - 1], s[i])

\* Every loop has its turns.
THEOREM LoopTurns ==
    ASSUME NEW base, NEW s, Len(s) \in Nat
    PROVE  \E f : Turns(f, base, s)
  <1>. DEFINE n == Len(s)
  <1>2. \E f : IsLoop(f, base, s, n)
    BY LoopDefined
  <1>. DEFINE Once(v, i) == CHOOSE y \in {Step(x, s[i]) : x \in {v}} : TRUE
              Is(f) == f = [i \in 0..n |-> IF i = 0 THEN base ELSE Once(f[i - 1], i)]
  <1>1. ASSUME NEW v, NEW i PROVE Once(v, i) = Step(v, s[i])
    <2>1. {Step(x, s[i]) : x \in {v}} = {Step(v, s[i])}
      OBVIOUS
    <2>. QED  BY <2>1
  <1>. HIDE DEF Once
  <1>3. \E f : Is(f)
    <2>0. PICK f : IsLoop(f, base, s, n)
      BY <1>2
    <2>1. \A i \in 0..n : (IF i = 0 THEN base ELSE Step(f[i - 1], s[i]))
                          = IF i = 0 THEN base ELSE Once(f[i - 1], i)
      BY <1>1
    <2>. QED  BY <2>0, <2>1 DEF IsLoop
  <1>. DEFINE g == CHOOSE h : Is(h)
  <1>4. Is(g)
    <2>. HIDE DEF Is
    <2>. QED  BY <1>3
  <1>5. g[0] = base /\ \A i \in 1..n : g[i] = Step(g[i - 1], s[i])
    <2>. HIDE DEF g
    <2>1. g[0] = base
      BY <1>4
    <2>2. ASSUME NEW i \in 1..n PROVE g[i] = Step(g[i - 1], s[i])
      <3>1. i \in 0..n /\ i # 0
        OBVIOUS
      <3>. QED  BY <1>4, <1>1, <3>1
    <2>. QED  BY <2>1, <2>2
  <1>6. Loop(base, s) = g[n]
    BY DEF Loop, Once
  <1>. HIDE DEF g
  <1>7. Turns(g, base, s)
    BY <1>5, <1>6 DEF Turns
  <1>. QED  BY <1>7

\* A fact that holds at first and that the body of a loop keeps holds in the end.
THEOREM FoldInvariant ==
    ASSUME NEW c, NEW base, NEW s, IsSeq(s), Holds(c, base),
           \A value : \A x \in ToSet(s) : Holds(c, value) => Holds(c, Step(value, x))
    PROVE  Holds(c, FoldLeft(Step, base, s))
  <1>. DEFINE Is(f, m) == f = [t \in SUBSET (1..m) |->
                                 IF t = {} THEN base ELSE Step(f[t \ {Max(t)}], s[Max(t)])]
              n == Len(s)
              T == {m \in Nat : \E f : Is(f, m)}
  <1>0. n \in Nat /\ DOMAIN s = 1..n /\ \A i \in 1..n : s[i] \in ToSet(s)
    BY IsSeqFacts
  <1>. HIDE DEF n
  <1>m. ASSUME NEW m \in Nat, NEW t \in SUBSET (1..(m + 1)), m + 1 \in t
        PROVE  Max(t) = m + 1 /\ t \ {Max(t)} \in SUBSET (1..m)
    <2>1. \A y \in t : m + 1 >= y
      OBVIOUS
    <2>2. \A x \in t : (\A y \in t : x >= y) => x = m + 1
      BY <1>m
    <2>3. Max(t) = m + 1
      BY <1>m, <2>1, <2>2 DEF Max
    <2>4. t \ {m + 1} \subseteq 1..m
      OBVIOUS
    <2>. QED  BY <2>3, <2>4
  <1>1. 0 \in T
    <2>. DEFINE f == [t \in SUBSET (1..0) |-> base]
    <2>1. Is(f, 0)
      OBVIOUS
    <2>. QED  BY <2>1
  <1>2. ASSUME NEW m \in Nat, m \in T PROVE m + 1 \in T
    <2>1. PICK f : Is(f, m)
      BY <1>2
    <2>. DEFINE g == [t \in SUBSET (1..(m + 1)) |->
                        IF m + 1 \in t THEN Step(f[t \ {m + 1}], s[m + 1]) ELSE f[t]]
    <2>2. ASSUME NEW t \in SUBSET (1..(m + 1))
          PROVE  g[t] = IF t = {} THEN base ELSE Step(g[t \ {Max(t)}], s[Max(t)])
      <3>1. CASE m + 1 \in t
        <4>1. Max(t) = m + 1 /\ t \ {Max(t)} \in SUBSET (1..m)
          BY <3>1, <1>m
        <4>2. g[t \ {Max(t)}] = f[t \ {Max(t)}]
          <5>1. m + 1 \notin t \ {Max(t)} /\ t \ {Max(t)} \in SUBSET (1..(m + 1))
            BY <4>1
          <5>. QED  BY <5>1
        <4>. QED  BY <3>1, <4>1, <4>2
      <3>2. CASE m + 1 \notin t
        <4>1. t \in SUBSET (1..m) /\ g[t] = f[t]
          BY <3>2
        <4>2. CASE t = {}
          BY <2>1, <4>1, <4>2
        <4>3. CASE t # {}
          <5>. DEFINE u == t \ {Max(t)}
          <5>1. u \in SUBSET (1..(m + 1)) /\ m + 1 \notin u
            BY <3>2
          <5>2. g[t \ {Max(t)}] = f[t \ {Max(t)}]
            BY <5>1
          <5>3. f[t] = Step(f[t \ {Max(t)}], s[Max(t)])
            BY <2>1, <4>1, <4>3
          <5>. QED  BY <4>1, <4>3, <5>2, <5>3
        <4>. QED  BY <4>2, <4>3
      <3>. QED  BY <3>1, <3>2
    <2>3. Is(g, m + 1)
      BY <2>2
    <2>. HIDE DEF g, Is
    <2>. QED  BY <2>3
  <1>3. \E f : Is(f, n)
    <2>. HIDE DEF T
    <2>1. Nat \subseteq T
      BY <1>1, <1>2, SetInduction
    <2>. QED  BY <2>1, <1>0 DEF T
  <1>. DEFINE iter == CHOOSE f : Is(f, n)
  <1>4. Is(iter, n)
    <2>. HIDE DEF Is
    <2>. QED  BY <1>3
  <1>5. FoldLeft(Step, base, s) = iter[1..n]
    BY <1>0 DEF FoldLeft, MapThenFoldSet
  <1>. HIDE DEF iter
  <1>6. /\ iter[{}] = base
        /\ \A t \in SUBSET (1..n) : t # {} => iter[t] = Step(iter[t \ {Max(t)}], s[Max(t)])
    BY <1>4
  <1>. HIDE DEF Is
  <1>. DEFINE U == {m \in Nat : m <= n => Holds(c, iter[1..m])}
  <1>7. 0 \in U
    <2>1. 1..0 = {}
      OBVIOUS
    <2>. QED  BY <2>1, <1>6
  <1>8. ASSUME NEW m \in Nat, m \in U PROVE m + 1 \in U
    <2>. SUFFICES ASSUME m + 1 <= n PROVE Holds(c, iter[1..(m + 1)])
      OBVIOUS
    <2>0. m + 1 \in 1..(m + 1) /\ m + 1 \in 1..n /\ m <= n
      BY <1>0
    <2>1. 1..(m + 1) \in SUBSET (1..n) /\ 1..(m + 1) \in SUBSET (1..(m + 1)) /\ 1..(m + 1) # {}
      BY <1>0, <2>0
    <2>2. Max(1..(m + 1)) = m + 1
      BY <1>m, <2>0, <2>1
    <2>3. (1..(m + 1)) \ {m + 1} = 1..m
      OBVIOUS
    <2>4. iter[1..(m + 1)] = Step(iter[1..m], s[m + 1])
      <3>1. iter[1..(m + 1)]
              = Step(iter[(1..(m + 1)) \ {Max(1..(m + 1))}], s[Max(1..(m + 1))])
        BY <1>6, <2>1
      <3>. QED  BY <3>1, <2>2, <2>3
    <2>5. Holds(c, iter[1..m])
      BY <1>8, <2>0
    <2>6. s[m + 1] \in ToSet(s)
      BY <1>0, <2>0
    <2>. QED  BY <2>4, <2>5, <2>6
  <1>9. Nat \subseteq U
    <2>. HIDE DEF U
    <2>. QED  BY <1>7, <1>8, SetInduction
  <1>10. n \in U
    <2>. HIDE DEF U
    <2>. QED  BY <1>0, <1>9
  <1>. QED  BY <1>0, <1>5, <1>10
===============================================================================
