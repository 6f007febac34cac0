------------------------------ MODULE Cursors -------------------------------
(***************************************************************************)
(* What liblsd/list.h promises: a sequence, and iterators that are places  *)
(* between its items.  at is the number of items before an iterator, last  *)
(* whether the last of them is the one it returned, which remove removes.  *)
(***************************************************************************)
EXTENDS Integers, Sequences, FiniteSets, SequencesExt

CONSTANTS
    Items, Iterators, Capacity,
    ForgetsReturned     \* the one exception: TRUE if a cursor forgets what it
                        \* returned when the item after it is removed

VARIABLES
    seq,            (* the items *)
    cur,            (* cur[i]: live, at, last *)
    call, ret

key(x) == x \div 10
None == [ live |-> FALSE, at |-> 0, last |-> FALSE ]
Fresh == [ live |-> TRUE, at |-> 0, last |-> FALSE ]
Full == Len(seq) = Capacity

Answers(req, x) == call' = req /\ ret' = x

(* x becomes item b + 1: an iterator right behind the place goes on behind *)
(* x, one that returned the item before it will return x.                  *)
InsertedAt(b, x) ==
    /\ seq' = InsertAt(seq, b + 1, x)
    /\ cur' = [ i \in Iterators |->
                  IF cur[i].live /\ (cur[i].at > b \/ (cur[i].at = b /\ ~cur[i].last))
                  THEN [ cur[i] EXCEPT !.at = @ + 1 ] ELSE cur[i] ]

InsertOrFail(b, req, x) ==
    /\ x \notin ToSet(seq)
    /\ \/ Full /\ Answers(req, 0) /\ UNCHANGED << seq, cur >>
       \/ ~Full /\ Answers(req, x) /\ InsertedAt(b, x)

(* The iterators after the items of S are gone: what an iterator returned  *)
(* is still the last it returned, unless it is gone itself.                *)
Without(S) ==
    [ i \in Iterators |->
        LET c == cur[i]
        IN IF ~c.live THEN c
           ELSE [ c EXCEPT !.at = Cardinality((1..c.at) \ S),
                           !.last = @ /\ c.at \notin S /\ (ForgetsReturned => c.at + 1 \notin S) ] ]

RemovedAt(S) ==
    /\ seq' = LET keep == { k \in 1..Len(seq) : k \notin S }
              IN [ k \in 1..Cardinality(keep) |->
                     seq[CHOOSE j \in keep : Cardinality({ l \in keep : l <= j }) = k] ]
    /\ cur' = Without(S)

first(S) == CHOOSE k \in S : \A j \in S : k <= j
Matching(k, from) == { n \in from..Len(seq) : key(seq[n]) = k }

Adding ==
    \E x \in Items :
        \/ InsertOrFail(Len(seq), << "append", x >>, x)
        \/ InsertOrFail(0, << "prepend", x >>, x)
        \/ \E i \in Iterators :
              /\ cur[i].live
              /\ InsertOrFail(IF cur[i].last THEN cur[i].at - 1 ELSE cur[i].at, << "insert", i, x >>, x)

Removing ==
    \/ /\ Answers(<< "pop" >>, IF seq = << >> THEN 0 ELSE seq[1])
       /\ IF seq = << >> THEN UNCHANGED << seq, cur >> ELSE RemovedAt({ 1 })
    \/ \E k \in { key(x) : x \in Items } :
          /\ Answers(<< "delete_all", k >>, Cardinality(Matching(k, 1)))
          /\ RemovedAt(Matching(k, 1))
    \/ \E i \in Iterators :
          /\ cur[i].live
          /\ \/ ~cur[i].last /\ Answers(<< "remove", i >>, 0) /\ UNCHANGED << seq, cur >>
             \/ cur[i].last /\ Answers(<< "remove", i >>, seq[cur[i].at]) /\ RemovedAt({ cur[i].at })
    \/ /\ Answers(<< "destroy" >>, 0)
       /\ seq' = << >> /\ cur' = [ i \in Iterators |-> None ]

Looking ==
    /\ UNCHANGED << seq, cur >>
    /\ \/ Answers(<< "peek" >>, IF seq = << >> THEN 0 ELSE seq[1])
       \/ Answers(<< "count" >>, Len(seq))
       \/ \E k \in { key(x) : x \in Items } :
            Answers(<< "find_first", k >>, IF Matching(k, 1) = {} THEN 0 ELSE seq[first(Matching(k, 1))])

(* i goes on to item n, or past the last. *)
GoesTo(i, req, n) ==
    IF n <= Len(seq)
    THEN Answers(req, seq[n]) /\ cur' = [ cur EXCEPT ![i] = [ live |-> TRUE, at |-> n, last |-> TRUE ] ]
    ELSE Answers(req, 0) /\ cur' = [ cur EXCEPT ![i] = [ live |-> TRUE, at |-> Len(seq), last |-> FALSE ] ]

Iterating ==
    /\ UNCHANGED seq
    /\ \E i \in Iterators :
          \/ ~cur[i].live /\ Answers(<< "iterator_create", i >>, 0) /\ cur' = [ cur EXCEPT ![i] = Fresh ]
          \/ /\ cur[i].live
             /\ \/ Answers(<< "iterator_destroy", i >>, 0) /\ cur' = [ cur EXCEPT ![i] = None ]
                \/ Answers(<< "iterator_reset", i >>, 0) /\ cur' = [ cur EXCEPT ![i] = Fresh ]
                \/ GoesTo(i, << "next", i >>, cur[i].at + 1)
                \/ \E k \in { key(x) : x \in Items } :
                      LET M == Matching(k, cur[i].at + 1)
                      IN GoesTo(i, << "find", i, k >>, IF M = {} THEN Len(seq) + 1 ELSE first(M))

Init ==
    /\ seq = << >>
    /\ cur = [ i \in Iterators |-> None ]
    /\ call = << "create" >> /\ ret = 0

Next == Adding \/ Removing \/ Looking \/ Iterating

vars == << seq, cur, call, ret >>

(* (That a step changes something comes first: it is soon evaluated.) *)
Spec == Init /\ [][vars' # vars /\ Next]_vars
=============================================================================
