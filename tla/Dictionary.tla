----------------------------- MODULE Dictionary -----------------------------
(***************************************************************************)
(* What liblsd/hash.h promises: a function from some of the keys to data.  *)
(* An insert may fail for want of memory.                                  *)
(***************************************************************************)
EXTENDS Integers, FiniteSets, Functions

CONSTANTS HashKeys, HashData, Sizes

VARIABLES dict, hash_op, hash_res

(* What an insert returns instead of the data. *)
EEXIST == -1
ENOMEM == -2

Answers(req, x) == hash_op' = req /\ hash_res' = x

Insert(k, d) ==
    \/ k \in DOMAIN dict /\ Answers(<< "insert", k, d >>, EEXIST) /\ UNCHANGED dict
    \/ /\ k \notin DOMAIN dict
       /\ \/ /\ dict' = [ j \in DOMAIN dict \cup {k} |-> IF j = k THEN d ELSE dict[j] ]
             /\ Answers(<< "insert", k, d >>, d)
          \/ Answers(<< "insert", k, d >>, ENOMEM) /\ UNCHANGED dict

With(d) == { k \in DOMAIN dict : dict[k] = d }
At(k) == IF k \in DOMAIN dict THEN dict[k] ELSE 0

Remove(k) ==
    dict' = Restrict(dict, DOMAIN dict \ {k}) /\ Answers(<< "remove", k >>, At(k))

DeleteIf(d) ==
    dict' = Restrict(dict, DOMAIN dict \ With(d)) /\ Answers(<< "delete_if", d >>, Cardinality(With(d)))

Look ==
    /\ UNCHANGED dict
    /\ \/ \E k \in HashKeys : Answers(<< "find", k >>, At(k))
       \/ \E d \in HashData : Answers(<< "for_each", d >>, Cardinality(With(d)))
       \/ Answers(<< "count" >>, Cardinality(DOMAIN dict))

Destroy(size) == dict' = << >> /\ Answers(<< "destroy", size >>, Cardinality(DOMAIN dict))

Init == dict = << >> /\ hash_op = << "create" >> /\ hash_res = 0

Next ==
    \/ \E k \in HashKeys, d \in HashData : Insert(k, d)
    \/ \E k \in HashKeys : Remove(k)
    \/ \E d \in HashData : DeleteIf(d)
    \/ \E size \in Sizes : Destroy(size)
    \/ Look

vars == << dict, hash_op, hash_res >>

(* (That a step changes something comes first: it is soon evaluated.) *)
Spec == Init /\ [][vars' # vars /\ Next]_vars
=============================================================================
