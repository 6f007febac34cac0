----------------------------- MODULE Selection -----------------------------
(***************************************************************************)
(* The elements at some places of a sequence, in order.  (What SelectSeq   *)
(* computes by recursion, in a form that proofs can use.)                  *)
(***************************************************************************)
EXTENDS Integers, Sequences, FiniteSets

(* The numbers of S from the least to the greatest: that of rank i is the  *)
(* one up to which there are i.                                            *)
ranked(S) ==
    [ i \in 1..Cardinality(S) |-> CHOOSE p \in S : Cardinality({ q \in S : q <= p }) = i ]

elements_at(s, S) == [ i \in 1..Cardinality(S) |-> s[ranked(S)[i]] ]
=============================================================================
