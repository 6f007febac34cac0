----------------------------- MODULE ByteQueue ------------------------------
(***************************************************************************)
(* What liblsd/cbuf.h promises of a circular buffer, without a circle: two *)
(* sequences, what can be replayed and what is unread, and a capacity they *)
(* share.  New bytes push out the oldest.                                  *)
(***************************************************************************)
EXTENDS Integers, Sequences, FiniteSets, SequencesExt

CONSTANTS Bufs, newline, MinSize, MaxSize, Chunk, Inputs, Lens

VARIABLES
    q,      (* q[b]: replay, unread, cap, overwrite; whole: the replay data *)
            (* begins where a line begins                                   *)
    call,   (* the last call *)
    ret     (* and what it returned *)

low(x, y) == IF x <= y THEN x ELSE y
high(x, y) == IF x >= y THEN x ELSE y

first_of(s, n) == SubSeq(s, 1, n)
last_of(s, n) == SubSeq(s, Len(s) - n + 1, Len(s))
without(s, n) == SubSeq(s, n + 1, Len(s))

Empty == [ replay |-> << >>, unread |-> << >>, cap |-> MinSize,
           overwrite |-> "wrap_many", whole |-> TRUE ]

(* The capacities the queue may have when n bytes are written: it grows    *)
(* only when they do not fit, and if there is memory until they do or the  *)
(* maximum is reached.                                                     *)
Capacities(x, n) ==
    LET need == Len(x.unread) + n
    IN IF need <= x.cap THEN { x.cap }
       ELSE { x.cap } \cup (low(need, MaxSize)..MaxSize)

(* How many of n bytes are let in. *)
Admits(x, n) ==
    CASE x.overwrite = "no_drop"   -> low(n, x.cap - Len(x.unread))
      [] x.overwrite = "wrap_once" -> low(n, x.cap)
      [] OTHER                     -> n

(* The bytes s go in; of all there is the last cap bytes stay. *)
Pushed(x, s) ==
    LET all  == x.replay \o x.unread \o s
        kept == last_of(all, low(Len(all), x.cap))
        un   == low(Len(x.unread) + Len(s), x.cap)
    IN [ x EXCEPT !.unread = last_of(kept, un), !.replay = first_of(kept, Len(kept) - un),
                  !.whole = @ /\ Len(all) <= x.cap ]

Lost(x, n) == high(0, Len(x.unread) + n - x.cap)

-----------------------------------------------------------------------------
(* Lines. *)

Newlines(s) == { k \in 1..Len(s) : s[k] = newline }

Largest(S) == CHOOSE k \in S : \A j \in S : j <= k
OrZero(S) == IF S = {} THEN 0 ELSE Largest(S)

(* The length of the first lines of s: that many, or the most that do not  *)
(* exceed chars.                                                           *)
LinesAhead(s, chars, lines) ==
    LET ends == Newlines(s)
    IN OrZero(IF lines > 0
              THEN { k \in ends : Cardinality({ j \in ends : j <= k }) = lines }
              ELSE { k \in ends : k <= chars })

(* Where the lines of the replay data begin, counted from its end. *)
LineStarts(x) ==
    { Len(x.replay) - k + 1 :
        k \in { j \in 1..Len(x.replay) : IF j = 1 THEN x.whole ELSE x.replay[j - 1] = newline } }

(* 1 if the last line read lacks its newline: it counts as a line, and the *)
(* newline as a character of it.                                           *)
Missing(x) == IF x.replay # << >> /\ Last(x.replay) # newline THEN 1 ELSE 0

LinesBehind(x, chars, lines) ==
    OrZero(IF lines > 0
           THEN { k \in LineStarts(x) : Cardinality({ j \in LineStarts(x) : j <= k }) = lines }
           ELSE { k \in LineStarts(x) : k + Missing(x) <= chars })

-----------------------------------------------------------------------------

Answers(req, n, out, dropped) ==
    /\ call' = req
    /\ ret' = [ n |-> n, out |-> out, dropped |-> dropped ]

Becomes(b, x) == q' = [ q EXCEPT ![b] = x ]
Same == q' = q

(* A write of what the source src has, up to n bytes of it. *)
Put(b, req, n, src) ==
    \E cap \in Capacities(q[b], n) :
        LET x == [ q[b] EXCEPT !.cap = cap ]
            s == first_of(src, low(Admits(x, n), Len(src)))
        IN \/ n = 0 /\ Answers(req, 0, << >>, 0) /\ Same
           \/ n > 0 /\ Admits(x, n) = 0 /\ Answers(req, -1, << >>, 0) /\ Becomes(b, x)
           \/ /\ n > 0 /\ Admits(x, n) > 0 /\ s = << >>
              /\ \E none \in { 0, -1 } : Answers(req, none, << >>, 0)
              /\ Becomes(b, x)
           \/ s # << >> /\ Answers(req, Len(s), << >>, Lost(x, Len(s))) /\ Becomes(b, Pushed(x, s))

(* A chunk to read is the room there is, or Chunk bytes if there is none. *)
Room(x) == IF x.cap = Len(x.unread) THEN Chunk ELSE x.cap - Len(x.unread)

(* Of a line, or of a copy, too long for the queue the end stays, and the  *)
(* queue need not notice that what it now begins with is a part of a line. *)
PutEnd(b, x, s) ==
    \/ Becomes(b, Pushed(x, s))
    \/ Becomes(b, Pushed(x, last_of(s, low(Len(s), x.cap))))

PutLine(b, str) ==
    LET s == IF str # << >> /\ Last(str) = newline THEN str ELSE Append(str, newline)
    IN \E cap \in Capacities(q[b], Len(s)) :
        LET x == [ q[b] EXCEPT !.cap = cap ]
        IN \/ /\ Admits(x, Len(s)) < Len(s)
              /\ Answers(<< "write_line", str >>, -1, << >>, 0)
              /\ Becomes(b, x)
           \/ /\ Admits(x, Len(s)) = Len(s)
              /\ Answers(<< "write_line", str >>, Len(s), << >>, Lost(x, Len(s)))
              /\ PutEnd(b, x, s)

Write(b) ==
    \E s \in Inputs :
        \/ Put(b, << "write", s >>, Len(s), s)
        \/ PutLine(b, s)
        \/ \E n \in Lens : Put(b, << "write_from_fd", n, s >>, n, s)
        \/ Put(b, << "write_from_fd", -1, s >>, Room(q[b]), s)

Advanced(x, n) ==
    [ x EXCEPT !.replay = @ \o first_of(x.unread, n), !.unread = without(@, n) ]

Rewound(x, n) ==
    [ x EXCEPT !.replay = first_of(@, Len(@) - n), !.unread = last_of(x.replay, n) \o @ ]

(* len = -1 stands for all there is. *)
OfAll(len, s) == IF len = -1 THEN Len(s) ELSE low(len, Len(s))

Read(b) ==
    \E len \in Lens \cup { -1 } :
        LET n  == OfAll(len, q[b].unread)
            bs == first_of(q[b].unread, n)
        IN \/ Answers(<< "peek", len >>, n, bs, 0) /\ Same
           \/ Answers(<< "read", len >>, n, bs, 0) /\ Becomes(b, Advanced(q[b], n))
           \/ Answers(<< "drop", len >>, n, << >>, 0) /\ Becomes(b, Advanced(q[b], n))
           \/ \E k \in 0..n :                     \* the descriptor may take less
                 \/ Answers(<< "peek_to_fd", len >>, k, first_of(bs, k), 0) /\ Same
                 \/ /\ Answers(<< "read_to_fd", len >>, k, first_of(bs, k), 0)
                    /\ Becomes(b, Advanced(q[b], k))
           \/ \E op \in { "peek_to_fd", "read_to_fd" } :
                 n > 0 /\ Answers(<< op, len >>, -1, << >>, 0) /\ Same

Replay(b) ==
    \E len \in Lens \cup { -1 } :
        LET n  == OfAll(len, q[b].replay)
            bs == last_of(q[b].replay, n)
        IN \/ Answers(<< "replay", len >>, n, bs, 0) /\ Same
           \/ Answers(<< "rewind", len >>, n, << >>, 0) /\ Becomes(b, Rewound(q[b], n))
           \/ \E k \in 0..n : Answers(<< "replay_to_fd", len >>, k, first_of(bs, k), 0) /\ Same
           \/ n > 0 /\ Answers(<< "replay_to_fd", len >>, -1, << >>, 0) /\ Same

ReadLines(b) ==
    \E len \in Lens, lines \in { -1, 1, 2 } :
        LET n    == LinesAhead(q[b].unread, len, lines)
            m    == LinesAhead(q[b].unread, len - 1, lines)
            line == first_of(q[b].unread, high(0, low(m, len - 1)))
            back == LinesBehind(q[b], len, lines)
            fits == LinesBehind(q[b], len - 1, lines)
            nl   == Missing(q[b])
            tail == last_of(q[b].replay, high(0, low(fits, len - 1 - nl)))
        IN \/ Answers(<< "drop_line", len, lines >>, n, << >>, 0) /\ Becomes(b, Advanced(q[b], n))
           \/ Answers(<< "peek_line", len, lines >>, m, line, 0) /\ Same
           \/ Answers(<< "read_line", len, lines >>, m, line, 0) /\ Becomes(b, Advanced(q[b], m))
           \/ Answers(<< "rewind_line", len, lines >>, back, << >>, 0) /\ Becomes(b, Rewound(q[b], back))
           \/ /\ fits = 0 \/ len = 0
              /\ Answers(<< "replay_line", len, lines >>, fits, << >>, 0)
              /\ Same
           \/ /\ fits > 0 /\ len > 0
              /\ Answers(<< "replay_line", len, lines >>, fits + nl,
                         IF nl = 1 /\ len > 1 THEN Append(tail, newline) ELSE tail, 0)
              /\ Same

Set(b) ==
    \/ /\ Answers(<< "flush" >>, 0, << >>, 0)
       /\ Becomes(b, [ q[b] EXCEPT !.replay = << >>, !.unread = << >>, !.whole = TRUE ])
    \/ /\ Answers(<< "opt_set" >>, 0, << >>, 0)
       /\ \E o \in { "no_drop", "wrap_once", "wrap_many" } : Becomes(b, [ q[b] EXCEPT !.overwrite = o ])

Measure(b) ==
    /\ \/ Answers(<< "used" >>, Len(q[b].unread), << >>, 0)
       \/ Answers(<< "free" >>, MaxSize - Len(q[b].unread), << >>, 0)
       \/ Answers(<< "reused" >>, Len(q[b].replay), << >>, 0)
       \/ Answers(<< "lines_used" >>, Cardinality(Newlines(q[b].unread)), << >>, 0)
    /\ Same

(* From b to d; a move also consumes, of b, what was let into d. *)
Transfer(b, d) ==
    \E len \in Lens \cup { -1 }, op \in { "copy", "move" } :
        LET n == OfAll(len, q[b].unread)
        IN \E cap \in Capacities(q[d], n) :
            LET x == [ q[d] EXCEPT !.cap = cap ]
                k == Admits(x, n)
                s == first_of(q[b].unread, k)
                c == last_of(s, low(k, cap))
                y == IF op = "move" THEN Advanced(q[b], k) ELSE q[b]
            IN /\ b # d
               /\ \/ n = 0 /\ Answers(<< op, len >>, 0, << >>, 0) /\ Same
                  \/ n > 0 /\ k = 0 /\ Answers(<< op, len >>, -1, << >>, 0) /\ Becomes(d, x)
                  \/ /\ k > 0
                     /\ Answers(<< op, len >>, k, << >>, Lost(x, k))
                     /\ \E t \in { s, c } : q' = [ q EXCEPT ![d] = Pushed(x, t), ![b] = y ]

Init ==
    /\ q = [ b \in Bufs |-> Empty ]
    /\ call = << "create" >>
    /\ ret = [ n |-> 0, out |-> << >>, dropped |-> 0 ]

Next ==
    \/ \E b \in Bufs : Write(b) \/ Read(b) \/ Replay(b) \/ ReadLines(b) \/ Set(b) \/ Measure(b)
    \/ \E b, d \in Bufs : Transfer(b, d)

vars == << q, call, ret >>

(* (That a step changes something comes first: it is soon evaluated.) *)
Spec == Init /\ [][vars' # vars /\ Next]_vars
=============================================================================
