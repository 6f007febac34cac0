-------------------------------- MODULE Names --------------------------------
(***************************************************************************)
(* What liblsd/hostlist.h promises: a sequence of names, and a walk        *)
(* through it.  A host is its prefix and the digits of its number.         *)
(***************************************************************************)
EXTENDS Integers, SequencesExt

CONSTANTS
    Meaning,        \* the hosts of each text that is a list of hosts
    Rejected,       \* the texts with more ranges than there is room for
    Faulty,         \* those with a range that is none, which end the process
    Before(_, _)    \* the order of the prefixes

VARIABLES
    hosts,
    at,         \* the hosts the iterator has returned; -1 if the list was changed under it
    op, res     \* the call, and the names, or the text pushed, and the number it returned

Name(h) == h[1] \o h[2]

First(name) ==
    LET places == { i \in DOMAIN hosts : Name(hosts[i]) = name }
    IN  IF places = {} THEN 0 ELSE CHOOSE i \in places : \A j \in places : i <= j

Lost == at' = IF at = 0 THEN 0 ELSE -1

(* An iterator that came to the end does not see what is added. *)
Push ==
    /\ op' = "push"
    /\ \/ /\ res'[1] \in DOMAIN Meaning
          /\ hosts' = hosts \o Meaning[res'[1]] /\ res'[2] = Len(Meaning[res'[1]])
          /\ at' = at \/ (at = Len(hosts) /\ at' = -1)
       \/ res'[1] \in Rejected /\ res'[2] = 0 /\ UNCHANGED << hosts, at >>

Exit == op' = "exit" /\ res'[1] \in Faulty /\ UNCHANGED << hosts, at >>

Pop == op' = "pop" /\ hosts # << >> /\ res' = << << Name(Last(hosts)) >>, 1 >> /\ hosts' = Front(hosts) /\ Lost
Shift == op' = "shift" /\ hosts # << >> /\ res' = << << Name(Head(hosts)) >>, 1 >> /\ hosts' = Tail(hosts) /\ Lost

Delete ==
    /\ op' = "delete_host"
    /\ LET i == First(res'[1][1]) IN
       IF i = 0 THEN res'[2] = 0 /\ UNCHANGED << hosts, at >>
       ELSE res'[2] = 1 /\ hosts' = RemoveAt(hosts, i) /\ Lost

(* Every host is kept as often as it is there.  Prefixes come in order,    *)
(* and the hosts of one prefix by their numbers, if none of these starts   *)
(* with a zero.                                                            *)
Padded(h) == Len(h[2]) > 1 /\ h[2][1] = 0
Shorter(s, t) == Len(s) < Len(t)
Lower(s, t) == Len(s) = Len(t) /\ \E k \in DOMAIN s : s[k] < t[k] /\ \A l \in 1..(k - 1) : s[l] = t[l]

InOrder(s) ==
    \A i, j \in DOMAIN s :
        i < j => \/ Before(s[i][1], s[j][1])
                 \/ /\ s[i][1] = s[j][1]
                    /\ (Shorter(s[j][2], s[i][2]) \/ Lower(s[j][2], s[i][2])) =>
                           \E h \in Range(s) : h[1] = s[i][1] /\ Padded(h)

Sort ==
    /\ op' = "sort"
    /\ Len(hosts) = Len(hosts')
    /\ \A h \in Range(hosts) :
          Len(SelectSeq(hosts, LAMBDA g : g = h)) = Len(SelectSeq(hosts', LAMBDA g : g = h))
    /\ InOrder(hosts')
    /\ at' = 0 \/ (at' = at /\ hosts' = hosts)

Look ==
    /\ UNCHANGED << hosts, at >>
    /\ \/ op' = "find" /\ res'[2] + 1 = First(res'[1][1])
       \/ op' = "nth" /\ res'[1] = << Name(hosts[res'[2] + 1]) >>
       \/ op' = "count" /\ res'[2] = Len(hosts)
       \/ op' = "ranged_string" /\ res'[1] = [ i \in DOMAIN hosts |-> Name(hosts[i]) ]

Walk ==
    /\ UNCHANGED hosts
    /\ \/ op' = "reset" /\ at' = 0
       \/ /\ op' = "next"
          /\ \/ at = -1 /\ at' = -1
             \/ at \in 0..Len(hosts) - 1 /\ at' = at + 1 /\ res'[1] = << Name(hosts[at + 1]) >>
             \/ at >= Len(hosts) /\ at' = at /\ res'[1] = << >>

Init == hosts = << >> /\ at = 0 /\ op = "create" /\ res = << << >>, 0 >>

Next == Push \/ Exit \/ Pop \/ Shift \/ Delete \/ Sort \/ Look \/ Walk

vars == << hosts, at, op, res >>

Spec == Init /\ [][vars' # vars /\ Next]_vars
=============================================================================
