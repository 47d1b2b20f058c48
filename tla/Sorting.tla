-------------------------------- MODULE Sorting --------------------------------
(***************************************************************************)
(* Sorting by rank: an element's place is the number of those before it.   *)
(*                                                                         *)
(* The function with one argument and the empty sequences make TLC compute *)
(* the sequence and the ranks once.                                        *)
(***************************************************************************)
EXTENDS Integers, Sequences, FiniteSets

\* The elements of a finite set in the order Before, which is strict and total.
SortedSet(S, Before(_, _)) ==
    [n \in 1..Cardinality(S) |->
        CHOOSE x \in S : Cardinality({y \in S : Before(y, x)}) = n - 1] \o <<>>

\* The elements of a sequence by a strict weak order, equal ones in their old
\* order: slice::sort_by.
StableSort(seq, Before(_, _)) ==
    LET sorted == [s \in {seq} |->
            LET First(i, j) == IF i < j THEN ~Before(s[j], s[i]) ELSE Before(s[i], s[j])
                rank == [i \in DOMAIN s |-> Cardinality({j \in DOMAIN s : First(j, i)})] \o <<>>
            IN [n \in DOMAIN s |-> s[CHOOSE i \in DOMAIN s : rank[i] = n - 1]]]
    IN sorted[seq]
===============================================================================
