------------------------------ MODULE Hostlist ------------------------------
(***************************************************************************)
(* Lists of host names kept as ranges of numbers behind a common prefix    *)
(* (liblsd/hostlist.c): parsing, joining, searching, deleting, sorting and *)
(* printing them.  A name is a sequence of symbols: the numbers below      *)
(* Radix are digits, a larger one stands for a word without digits.        *)
(*                                                                         *)
(* Two widths are equivalent when the numerals come out the same with      *)
(* either; the code then overwrites one by the other, which changes no     *)
(* numeral, and the model leaves both.  The buffers that names and lists   *)
(* are printed to are taken to be large enough, and memory to suffice.     *)
(***************************************************************************)
EXTENDS Integers, SequencesExt

CONSTANTS
    Radix,      \* 10 in the code
    MaxSuffix,  \* MAX_HOST_SUFFIX: a larger number is part of the name
    MaxRange,   \* MAX_RANGE
    MaxRanges,  \* MAX_RANGES
    Texts,      \* what is parsed: sequences of tokens
    Hosts,      \* the names that are asked for
    MaxHosts    \* bound: the length of the list

VARIABLES
    hl,     \* the list: its ranges and its count of hosts
    hli,    \* an iterator: the index of its range, from 0, its depth, and whether hr is set
    hl_op, hl_res   \* the call and what it returned

hl_vars == << hl, hli, hl_op, hl_res >>

-----------------------------------------------------------------------------
(* Numbers and names *)

Largest(S) == CHOOSE n \in S : \A k \in S : k <= n

value(ds) == FoldLeft(LAMBDA n, d : n * Radix + d, 0, ds)

digits(n) == CHOOSE k \in 1..(n + 1) : n < Radix^k /\ (k > 1 => n >= Radix^(k - 1))

(* "%0*lu" *)
numeral(n, width) ==
    LET len == Largest({ width, digits(n) }) IN [ i \in 1..len |-> (n \div Radix^(len - i)) % Radix ]

zero_padded(n, width) == Largest({ 0, width - digits(n) })

width_equiv(n, wn, m, wm) ==
    zero_padded(n, wn) = zero_padded(n, wm) \/ zero_padded(m, wm) = zero_padded(m, wn)

isdigit(c) == c < Radix

host_prefix_end(name) == Largest({0} \cup { i \in DOMAIN name : ~isdigit(name[i]) })

(* suffix is empty where the code has NULL. *)
hostname_create_with_suffix(name, idx) ==
    LET sfx == SubSeq(name, idx + 1, Len(name)) IN
    IF sfx # << >> /\ value(sfx) <= MaxSuffix
    THEN [ hostname |-> name, prefix |-> SubSeq(name, 1, idx), suffix |-> sfx ]
    ELSE [ hostname |-> name, prefix |-> name, suffix |-> << >> ]

hostname_create(name) == hostname_create_with_suffix(name, host_prefix_end(name))

strcmp(s, t) ==
    LET differ == { i \in DOMAIN s \cap DOMAIN t : s[i] # t[i] }
    IN  IF differ = {} THEN Len(s) - Len(t)
        ELSE LET i == CHOOSE i \in differ : \A j \in differ : i <= j IN s[i] - t[i]

-----------------------------------------------------------------------------
(* Ranges *)

hostrange_create_single(name) ==
    [ prefix |-> name, lo |-> 0, hi |-> 0, width |-> 0, singlehost |-> TRUE ]

hostrange_create(prefix, lo, hi, width) ==
    [ prefix |-> prefix, lo |-> lo, hi |-> hi, width |-> width, singlehost |-> FALSE ]

hostrange_count(hr) == IF hr.singlehost THEN 1 ELSE hr.hi - hr.lo + 1

hostrange_empty(hr) == hr.hi < hr.lo

hostrange_string(hr, depth) ==
    IF hr.singlehost THEN hr.prefix ELSE hr.prefix \o numeral(hr.lo + depth, hr.width)

names(hr) == [ i \in 1..hostrange_count(hr) |-> hostrange_string(hr, i - 1) ]

hostrange_width_combine(h0, h1) == width_equiv(h0.lo, h0.width, h1.lo, h1.width)

hostrange_prefix_cmp(h1, h2) ==
    LET as_int(b) == IF b THEN 1 ELSE 0
        c == strcmp(h1.prefix, h2.prefix)
    IN  IF c # 0 THEN c ELSE as_int(h2.singlehost) - as_int(h1.singlehost)

hostrange_cmp(h1, h2) ==
    LET c == hostrange_prefix_cmp(h1, h2) IN
    IF c # 0 THEN c
    ELSE IF hostrange_width_combine(h1, h2) THEN h1.lo - h2.lo ELSE h1.width - h2.width

hostrange_within_range(h1, h2) ==
    hostrange_prefix_cmp(h1, h2) = 0 /\ ~h1.singlehost /\ ~h2.singlehost

(* Mutated form of adjacent: whatever the width. *)
adjacent_any_width(h1, h2) == hostrange_prefix_cmp(h1, h2) = 0 /\ h1.hi = h2.lo - 1

(* h2 starts where h1 ends.  (The number before 0 is the largest there is.) *)
adjacent(h1, h2) ==
    /\ hostrange_prefix_cmp(h1, h2) = 0
    /\ h1.hi = h2.lo - 1
    /\ hostrange_width_combine(h1, h2)

intersects(h1, h2) ==
    /\ ~h1.singlehost /\ ~h2.singlehost
    /\ hostrange_prefix_cmp(h1, h2) = 0
    /\ h1.hi > h2.lo
    /\ hostrange_width_combine(h1, h2)

(* Digits move from the suffix of the name to its prefix as long as the    *)
(* prefix of the range goes on with them.                                  *)
RECURSIVE hostrange_hn_within(_, _)
hostrange_hn_within(hr, hn) ==
    LET width == Len(hn.suffix)
        len_hn == Len(hn.prefix)
        len_hr == Len(hr.prefix)
    IN  IF hr.singlehost THEN (IF hn.hostname = hr.prefix THEN 0 ELSE -1)
        ELSE IF hn.suffix = << >> \/ ~IsPrefix(hn.prefix, hr.prefix) THEN -1
        ELSE IF len_hn < len_hr /\ width > 1 /\ isdigit(Last(hr.prefix))
                /\ hr.prefix[len_hn + 1] = hn.suffix[1]
        THEN hostrange_hn_within(hr, hostname_create_with_suffix(hn.hostname, len_hn + 1))
        ELSE LET num == value(hn.suffix) IN
             IF hn.prefix = hr.prefix /\ num \in hr.lo..hr.hi /\ width_equiv(hr.lo, hr.width, num, width)
             THEN num - hr.lo ELSE -1

-----------------------------------------------------------------------------
(* Lists *)

empty_list == [ hr |-> << >>, nhosts |-> 0 ]

hosts_of(l) == FlattenSeq([ i \in DOMAIN l.hr |-> names(l.hr[i]) ])

hostlist_push_range(l, hr) ==
    [ hr     |-> IF l.hr # << >> /\ adjacent(Last(l.hr), hr)
                 THEN [ l.hr EXCEPT ![Len(l.hr)].hi = hr.hi ]
                 ELSE Append(l.hr, hr),
      nhosts |-> l.nhosts + hostrange_count(hr) ]

hostlist_push_list(l, l2) == FoldLeft(hostlist_push_range, l, l2.hr)

hostlist_push_host(l, name) ==
    LET hn == hostname_create(name) IN
    hostlist_push_range(l,
        IF hn.suffix # << >>
        THEN hostrange_create(hn.prefix, value(hn.suffix), value(hn.suffix), Len(hn.suffix))
        ELSE hostrange_create_single(name))

(* A token is a name, or a prefix, the bounds of ranges in brackets, and   *)
(* what follows the brackets.                                              *)
token(prefix, ranges, suffix) == [ prefix |-> prefix, ranges |-> ranges, suffix |-> suffix ]

(* One range that is bad or too large ends the process: lsd_fatal_error is *)
(* err_exit in this build.  More ranges than there is room for are not     *)
(* parsed.                                                                 *)
parse_single_range(rng) ==
    LET lo == value(rng[1]) hi == value(rng[2]) IN lo <= hi /\ hi - lo + 1 <= MaxRange

fatal(tok) == \E r \in DOMAIN tok.ranges : r <= MaxRanges /\ ~parse_single_range(tok.ranges[r])
crowded(tok) == Len(tok.ranges) > MaxRanges

push_token(l, tok) ==
    IF tok.ranges = << >> THEN hostlist_push_host(l, tok.prefix)
    ELSE IF tok.suffix = << >>
    THEN FoldLeft(LAMBDA acc, rng :
                    hostlist_push_range(acc, hostrange_create(tok.prefix, value(rng[1]), value(rng[2]), Len(rng[1]))),
                  l, tok.ranges)
    ELSE FoldLeft(LAMBDA acc, rng :
                    FoldLeft(LAMBDA a, n :
                               hostlist_push_range(a, hostrange_create_single(
                                   tok.prefix \o numeral(n, Len(rng[1])) \o tok.suffix)),
                             acc, [ i \in 1..(value(rng[2]) - value(rng[1]) + 1) |-> value(rng[1]) + i - 1 ]),
                  l, tok.ranges)

(* The tokens are parsed until the first that fails; the list they make    *)
(* when none does.                                                         *)
ends_at(text) == { t \in DOMAIN text : fatal(text[t]) \/ crowded(text[t]) }
exits(text) == \E t \in ends_at(text) : fatal(text[t]) /\ \A u \in ends_at(text) : t <= u
hostlist_create(text) == FoldLeft(push_token, empty_list, text)

(* The index of the range that holds the nth host, and its place there. *)
before(l, i) == Len(hosts_of([ l EXCEPT !.hr = SubSeq(l.hr, 1, i - 1) ]))
range_of(l, n) == CHOOSE i \in DOMAIN l.hr : n \in before(l, i)..(before(l, i + 1) - 1)

hostlist_find(l, name) ==
    LET hn == hostname_create(name)
        within == { i \in DOMAIN l.hr : hostrange_hn_within(l.hr[i], hn) >= 0 }
        first == CHOOSE i \in within : \A j \in within : i <= j
    IN  IF within = {} THEN -1 ELSE before(l, first) + hostrange_hn_within(l.hr[first], hn)

(* << what is left of the range, as no, one or two ranges >> *)
hostrange_delete_host(hr, n) ==
    IF n = hr.lo THEN << [ hr EXCEPT !.lo = n + 1 ] >>
    ELSE IF n = hr.hi THEN << [ hr EXCEPT !.hi = n - 1 ] >>
    ELSE << [ hr EXCEPT !.hi = n - 1 ], [ hr EXCEPT !.lo = n + 1 ] >>

rest_of(l, n) ==
    LET i == range_of(l, n) hr == l.hr[i]
    IN  SelectSeq(hostrange_delete_host(hr, hr.lo + n - before(l, i)), LAMBDA r : ~hostrange_empty(r))

hostlist_delete_nth(l, n) ==
    LET i == range_of(l, n)
    IN  [ hr     |-> SubSeq(l.hr, 1, i - 1) \o rest_of(l, n) \o SubSeq(l.hr, i + 1, Len(l.hr)),
          nhosts |-> l.nhosts - 1 ]

(* What qsort may leave: equal ranges come in any order. *)
sorted(rs) ==
    { s \in { [ i \in DOMAIN rs |-> rs[p[i]] ] : p \in Permutations(DOMAIN rs) } :
        \A i, j \in DOMAIN rs : i < j => hostrange_cmp(s[i], s[j]) <= 0 }

(* Two ranges that intersect are cut at the ends of what they share, and   *)
(* each host in between is put there twice, on its own.                    *)
split(h1, h2) ==
    LET lo == h2.lo
        hi == IF h2.hi < h1.hi THEN h2.hi ELSE h1.hi
        hprev == [ h1 EXCEPT !.hi = lo ]
        hnext == [ h2 EXCEPT !.lo = hi, !.hi = IF hi < h1.hi THEN h1.hi ELSE @ ]
        host(n) == hostrange_create(h1.prefix, n, n, h1.width)
        copies(n) == (IF n > hprev.hi THEN << host(n) >> ELSE << >>)
                     \o (IF n < hnext.lo THEN << host(n) >> ELSE << >>)
    IN  << hprev >> \o FlattenSeq([ k \in 1..(hi - lo + 1) |-> copies(lo + k - 1) ]) \o << hnext >>

collapse(rs) ==
    FoldRight(LAMBDA hr, acc :
                IF acc # << >> /\ adjacent(hr, acc[1])
                THEN << [ hr EXCEPT !.hi = acc[1].hi ] >> \o Tail(acc)
                ELSE << hr >> \o acc,
              rs, << >>)

RECURSIVE coalesce(_)
coalesce(rs) ==
    LET meet == { i \in 2..Len(rs) : intersects(rs[i - 1], rs[i]) } IN
    IF meet = {} THEN collapse(rs)
    ELSE LET i == Largest(meet) IN
         coalesce(SubSeq(rs, 1, i - 2) \o split(rs[i - 1], rs[i]) \o SubSeq(rs, i + 1, Len(rs)))

(* The text of a list: ranges that may share brackets do, one host alone   *)
(* has none.                                                               *)
hostrange_numstr(hr) == << numeral(hr.lo, hr.width), numeral(hr.hi, hr.width) >>

bracketed_list(rs) ==
    IF Len(rs) = 1 /\ hostrange_count(rs[1]) = 1
    THEN token(names(rs[1])[1], << >>, << >>)
    ELSE token(rs[1].prefix, [ i \in DOMAIN rs |-> hostrange_numstr(rs[i]) ], << >>)

hostlist_ranged_string(l) ==
    LET starts == { i \in DOMAIN l.hr : i > 1 => ~hostrange_within_range(l.hr[i], l.hr[i - 1]) }
        upto(i) == Largest({ k \in i..Len(l.hr) : (i + 1)..k \cap starts = {} })
    IN  [ k \in 1..Cardinality(starts) |->
            LET i == CHOOSE i \in starts : Cardinality({ j \in starts : j <= i }) = k
            IN  bracketed_list(SubSeq(l.hr, i, upto(i))) ]

-----------------------------------------------------------------------------
(* The iterator, as the list changes under it *)

hr_at(l, idx) == idx < Len(l.hr)

iterator_reset(l) == [ idx |-> 0, depth |-> -1, hr |-> hr_at(l, 0) ]

(* hostlist_delete_range and hostlist_insert_range, with the shift of the  *)
(* iterators that is part of them; n counts from 0, l is the list after.   *)
range_deleted(i, l, n) ==
    IF i.idx < n THEN i
    ELSE IF i.idx = 0 THEN iterator_reset(l)
    ELSE [ i EXCEPT !.idx = @ - 1, !.hr = hr_at(l, i.idx - 1) ]

range_inserted(i, l, n) == IF i.idx >= n THEN [ i EXCEPT !.idx = @ + 1, !.hr = hr_at(l, i.idx + 1) ] ELSE i

nth_deleted(i, l, n) ==
    LET k == range_of(l, n) - 1 after == hostlist_delete_nth(l, n)
    IN  CASE rest_of(l, n) = << >>   -> range_deleted(i, after, k)
          [] Len(rest_of(l, n)) = 2 -> range_inserted(i, after, k + 1)
          [] OTHER                   -> i

iterator_advance(i, l) ==
    LET hr == l.hr[i.idx + 1] IN
    IF ~hr_at(l, i.idx) THEN i
    ELSE IF i.depth + 1 > hr.hi - hr.lo
    THEN [ idx |-> i.idx + 1, depth |-> 0, hr |-> hr_at(l, i.idx + 1) ]
    ELSE [ i EXCEPT !.depth = @ + 1 ]

-----------------------------------------------------------------------------
(* Calls.  The answer is a list of names, or the text that was pushed, and *)
(* a number.                                                               *)

Answered(req, l, i, ns, n) == hl' = l /\ hli' = i /\ hl_op' = req /\ hl_res' = << ns, n >>

PushText(text) ==
    \/ LET new == hostlist_create(text) IN
       /\ ends_at(text) = {} /\ hl.nhosts + new.nhosts <= MaxHosts
       /\ Answered("push", hostlist_push_list(hl, new), hli, text, new.nhosts)
    \/ ends_at(text) # {} /\ ~exits(text) /\ Answered("push", hl, hli, text, 0)
    \/ exits(text) /\ Answered("exit", hl, hli, text, 0)

PopHost ==
    LET last == Last(hl.hr) IN
    /\ hl.nhosts > 0
    /\ Answered("pop",
         [ hr     |-> IF hostrange_count(last) = 1 THEN Front(hl.hr) ELSE [ hl.hr EXCEPT ![Len(hl.hr)].hi = @ - 1 ],
           nhosts |-> hl.nhosts - 1 ],
         [ hli EXCEPT !.hr = @ /\ ~(hostrange_count(last) = 1 /\ hli.idx = Len(hl.hr) - 1) ],
         << Last(names(last)) >>, 1)

ShiftHost ==
    LET gone == hostrange_count(hl.hr[1]) = 1
        l == [ hr     |-> IF gone THEN Tail(hl.hr) ELSE [ hl.hr EXCEPT ![1].lo = @ + 1 ],
               nhosts |-> hl.nhosts - 1 ]
    IN  /\ hl.nhosts > 0
        /\ Answered("shift", l,
             IF gone THEN range_deleted(hli, l, 0)
             ELSE IF hli.idx = 0 /\ hli.depth > -1 THEN [ hli EXCEPT !.depth = @ - 1 ]
             ELSE hli,
             << names(hl.hr[1])[1] >>, 1)

DeleteHost(name) ==
    LET n == hostlist_find(hl, name) IN
    IF n >= 0
    THEN Answered("delete_host", hostlist_delete_nth(hl, n), nth_deleted(hli, hl, n), << name >>, 1)
    ELSE Answered("delete_host", hl, hli, << name >>, 0)

FindHost(name) == Answered("find", hl, hli, << name >>, hostlist_find(hl, name))

NthHost(n) ==
    /\ n < hl.nhosts
    /\ LET i == range_of(hl, n)
       IN  Answered("nth", hl, hli, << hostrange_string(hl.hr[i], n - before(hl, i)) >>, n)

CountHosts == Answered("count", hl, hli, << >>, hl.nhosts)

SortHosts ==
    IF Len(hl.hr) <= 1 THEN Answered("sort", hl, hli, << >>, 0)
    ELSE \E rs \in sorted(hl.hr) :
            LET l == [ hl EXCEPT !.hr = coalesce(rs) ] IN Answered("sort", l, iterator_reset(l), << >>, 0)

(* What is printed is read again: a client sends the text on. *)
RangedString == Answered("ranged_string", hl, hli, hosts_of(hostlist_create(hostlist_ranged_string(hl))), 0)

ResetWalk == Answered("reset", hl, iterator_reset(hl), << >>, 0)

(* An iterator that ran off the end must not be used on a list that has    *)
(* grown, without a reset: it has no range.                                *)
NextHost ==
    LET i == iterator_advance(hli, hl) IN
    /\ hr_at(hl, hli.idx) => hli.hr
    /\ Answered("next", hl, i,
         IF hr_at(hl, i.idx) THEN << hostrange_string(hl.hr[i.idx + 1], i.depth) >> ELSE << >>, 0)

HostlistInit ==
    /\ hl = empty_list
    /\ hli = iterator_reset(empty_list)
    /\ hl_op = "create" /\ hl_res = << << >>, 0 >>

HostlistNext ==
    /\ hl_op # "exit"
    /\ \/ \E text \in Texts : PushText(text)
       \/ PopHost \/ ShiftHost \/ CountHosts \/ SortHosts \/ RangedString \/ ResetWalk \/ NextHost
       \/ \E name \in Hosts : DeleteHost(name) \/ FindHost(name)
       \/ \E n \in 0..(MaxHosts - 1) : NthHost(n)

HostlistSpec == HostlistInit /\ [][HostlistNext]_hl_vars
=============================================================================
