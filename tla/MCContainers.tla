---------------------------- MODULE MCContainers ----------------------------
(***************************************************************************)
(* Small circular buffers, lists, hash tables and argument lists for TLC,  *)
(* and what they implement.  They share no state, so a behaviour is one    *)
(* scene: the calls on one of them, while the others stay as they are.     *)
(***************************************************************************)
EXTENDS Cbuf, List, ArgList, Hostlist

CONSTANTS
    b1, b2, p1, p2, p3, u1, u2,
    Scenes,         \* what a run looks at
    ForgetsReturned \* see Cursors

VARIABLES
    scene,
    walked  \* the hosts an iterator has returned since its reset, -1 if the list was changed under it

as_queue(c) ==
    [ replay |-> replay(c), unread |-> unread(c), cap |-> c.size,
      overwrite |-> c.overwrite, whole |-> ~c.got_wrap ]

Queues == INSTANCE ByteQueue WITH q <- [ b \in Bufs |-> as_queue(cb[b]) ]

(* Every call on the circular buffer does what cbuf.h says of a queue with *)
(* a memory: it returns the bytes, the counts and the numbers of dropped   *)
(* bytes the queue would, however the data lies around the end of the      *)
(* array, and keeps the newest bytes when it grows or overflows.           *)
ImplementsQueue == Queues!Spec

cursor(i) ==
    [ live |-> it[i].live,
      at   |-> Cardinality({ k \in 0..count : it[i].live /\ k > 0
                  /\ \A j \in 1..k : chain(this)[j] # it[i].pos }),
      last |-> it[i].live /\ it[i].pos # deref(this, it[i].prev) ]

Places ==
    INSTANCE Cursors WITH seq <- contents(this), cur <- [ i \in Iterators |-> cursor(i) ],
                          Capacity <- Cardinality(Node), call <- op, ret <- res

(* The list is a sequence and its iterators are places in it, whichever    *)
(* calls are made while they are on their way: none skips an item or       *)
(* returns one twice because another was added or removed.                 *)
ImplementsSequence == Places!Spec

(* Names are words and binary numbers, of two digits at most unless they   *)
(* are too large to be a suffix.                                           *)
word == 2
other == 3
AName(digs) == token(<< word >> \o digs, << >>, << >>)
InBrackets(prefix, lo, hi, suffix) == token(prefix, << << lo, hi >> >>, suffix)

FirstThree == InBrackets(<< word >>, << 0 >>, << 1, 0 >>, << >>)
GoodTexts ==
    { << AName(<< >>) >>, << AName(<< 0 >>) >>,
      << AName(<< 0, 1 >>), InBrackets(<< word >>, << 0 >>, << 1 >>, << other >>) >>,
      << FirstThree >>,
      << token(<< word >>, << << << 0, 0 >>, << 0, 1 >> >>, << << 1, 1 >>, << 1, 1 >> >> >>, << >>) >>,
      << InBrackets(<< word, 1 >>, << 0 >>, << 1 >>, << >>) >>,
      << AName(<< 1, 0, 0 >>) >> }
FaultyTexts ==
    { << InBrackets(<< word >>, << 1, 0 >>, << 1 >>, << >>) >>,
      << AName(<< 0 >>), InBrackets(<< word >>, << 0 >>, << 1, 0, 0 >>, << >>) >> }
RejectedTexts ==
    { << token(<< word >>, << << << 0 >>, << 0 >> >>, << << 1 >>, << 1 >> >>, << << 1 >>, << 0 >> >> >>, << >>) >> }
HostTexts == GoodTexts \cup FaultyTexts \cup RejectedTexts
SortTexts ==
    { << FirstThree >>, << AName(<< 0 >>) >>, << AName(<< 1 >>) >>, << AName(<< >>) >>,
      << InBrackets(<< word >>, << 0, 1 >>, << 1, 1 >>, << >>) >>,
      << InBrackets(<< word >>, << 1 >>, << 1, 1 >>, << >>) >> }
(* A number in brackets that makes a name whose digits are too large.      *)
LargeTexts == { << InBrackets(<< word, 1, 0 >>, << 0 >>, << 0 >>, << >>) >> }
HostNames ==
    { << word >> \o d : d \in { << >>, << 0 >>, << 1 >>, << 0, 1 >>, << 1, 0 >>, << 1, 1 >>, << 0, other >>, << 1, 0, 0 >> } }

(* The hosts a text lists: a name's digits at its end are its number,      *)
(* unless that is too large; one in brackets is written as wide as the     *)
(* first of its range.                                                     *)
number_at(name) == CHOOSE k \in 1..(Len(name) + 1) :
    (\A j \in k..Len(name) : name[j] < Radix) /\ (k = 1 \/ name[k - 1] >= Radix)
listed(name) ==
    LET k == number_at(name) number == SubSeq(name, k, Len(name))
    IN  IF value(number) <= MaxSuffix THEN << SubSeq(name, 1, k - 1), number >> ELSE << name, << >> >>
hosts_in(tok) ==
    IF tok.ranges = << >> THEN << listed(tok.prefix) >>
    ELSE FlattenSeq([ r \in DOMAIN tok.ranges |->
            LET lo == tok.ranges[r][1] IN
            [ k \in 1..(value(tok.ranges[r][2]) - value(lo) + 1) |->
                LET number == numeral(value(lo) + k - 1, Len(lo)) IN
                IF tok.suffix = << >> THEN << tok.prefix, number >>
                ELSE << tok.prefix \o number \o tok.suffix, << >> >> ] ])
ListedIn ==
    [ text \in GoodTexts \cup SortTexts \cup LargeTexts |->
        FlattenSeq([ t \in DOMAIN text |-> hosts_in(text[t]) ]) ]

listed_hosts(l) ==
    FlattenSeq([ i \in DOMAIN l.hr |->
        [ d \in 1..hostrange_count(l.hr[i]) |->
            << l.hr[i].prefix, IF l.hr[i].singlehost THEN << >> ELSE numeral(l.hr[i].lo + d - 1, l.hr[i].width) >> ] ])

Sequence ==
    INSTANCE Names WITH hosts <- listed_hosts(hl), at <- walked, op <- hl_op, res <- hl_res,
                        Meaning <- ListedIn, Rejected <- RejectedTexts, Faulty <- FaultyTexts,
                        Before <- LAMBDA s, t : strcmp(s, t) < 0

(* A list of hosts is the sequence of the names that were pushed, however  *)
(* they share ranges, brackets and digits: each is found at its place,     *)
(* deleted alone, kept as often as it is there and put in order when the   *)
(* list is sorted, visited once by an iterator, and read back from the     *)
(* text of the list.                                                       *)
ImplementsNames == Sequence!Spec

-----------------------------------------------------------------------------

Init ==
    /\ CbufInit /\ ListInit /\ HashInit /\ ArgInit /\ HostlistInit /\ walked = 0
    /\ scene \in Scenes

(* One buffer under every call. *)
Buffer ==
    /\ scene = "buffer"
    /\ Writes(b1) \/ Reads(b1) \/ Moves(b1) \/ ReadsToFd(b1) \/ Lines(b1) \/ Settings(b1) \/ Measures(b1)
    /\ UNCHANGED << list_vars, hash_vars, arg_vars, hl_vars, walked, scene >>

(* What is written into one buffer is copied and moved to another, where   *)
(* it is read while the overwrite option changes.                          *)
Transfer ==
    /\ scene = "transfer"
    /\ \/ Returns(b1, << "write", << 1, newline >> >>, cbuf_write(cb[b1], << 1, newline >>, TRUE))
       \/ Transfers(b1, b2)
       \/ Returns(b2, << "drop", 1 >>, cbuf_drop(cb[b2], 1))
       \/ Settings(b2)
    /\ UNCHANGED << list_vars, hash_vars, arg_vars, hl_vars, walked, scene >>

Lists == scene = "list" /\ ListNext /\ UNCHANGED << cbuf_vars, hash_vars, arg_vars, hl_vars, walked, scene >>
Hashes == scene = "hash" /\ HashNext /\ UNCHANGED << cbuf_vars, list_vars, arg_vars, hl_vars, walked, scene >>
Arguments == scene = "arglist" /\ ArgNext /\ UNCHANGED << cbuf_vars, list_vars, hash_vars, hl_vars, walked, scene >>

(* A host list and an iterator on it; an iterator that was left behind is  *)
(* followed up to the bound of the list.                                   *)
ShortHosts == 3

walks_on == hl_op' = "next" /\ walked # -1 /\ hl_res'[1] # << >>
starts_over == hl_op' = "reset" \/ (hl_op' = "sort" /\ Len(hl.hr) > 1)
left_behind ==
    \/ hl_op' \in {"pop", "shift", "delete_host"} /\ hl' # hl /\ walked # 0
    \/ hl_op' = "push" /\ hl' # hl /\ ~hr_at(hl, hli.idx)

HostCalls ==
    /\ scene = "hosts"
    /\ HostlistNext
    /\ hl'.nhosts <= ShortHosts /\ hli'.idx <= ShortHosts
    /\ walked' = CASE walks_on -> walked + 1 [] starts_over -> 0 [] left_behind -> -1 [] OTHER -> walked
    /\ UNCHANGED << cbuf_vars, list_vars, hash_vars, arg_vars, scene >>

(* Longer lists, whose ranges overlap, are sorted. *)
HostSorting ==
    /\ scene = "sorting"
    /\ \/ \E text \in SortTexts : PushText(text)
       \/ SortHosts \/ RangedString
       \/ \E name \in HostNames : FindHost(name)
    /\ UNCHANGED << cbuf_vars, list_vars, hash_vars, arg_vars, walked, scene >>

Next == HostCalls \/ HostSorting \/ Buffer \/ Transfer \/ Lists \/ Hashes \/ Arguments

Spec == Init /\ [][Next]_<< cbuf_vars, list_vars, hash_vars, arg_vars, hl_vars, walked, scene >>

(* No call looks at the one before it or at what it returned: two states   *)
(* that differ in these only need not be told apart.  (Every step is       *)
(* checked.)                                                               *)
Contents == << cb, list, table, hash_free_list, nodes, arg_vars, hl, hli, walked, scene >>

-----------------------------------------------------------------------------

LongInputs == { << >>, << 1 >>, << 1, newline >>, << newline, 1, 1, newline >> }
KeyNumbers == [ k \in 1..3 |-> IF k = 3 THEN 3 ELSE 4 ]
Commands == { << 1, 2 >>, << 3, 1, 3 >> }
=============================================================================
