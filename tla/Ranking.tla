------------------------------- MODULE Ranking -------------------------------
(***************************************************************************)
(* Python's sorted() and C's qsort() over keys that all differ: every       *)
(* element stands at the place that the number of elements before it gives. *)
(* SetToSortSeq of SequencesExt is the same sequence; it is defined by       *)
(* TLC's SortSeq, which has no definition that the provers could use.      *)
(***************************************************************************)
EXTENDS Naturals, FiniteSets

(* The elements of a finite set, ordered by a strict total order.          *)
Ranked(S, Before(_, _)) ==
  [k \in 1 .. Cardinality(S) |->
     CHOOSE x \in S : Cardinality({y \in S : Before(y, x)}) = k - 1]
=============================================================================
