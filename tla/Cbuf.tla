-------------------------------- MODULE Cbuf --------------------------------
(***************************************************************************)
(* The circular buffer (liblsd/cbuf.c) between powermand's descriptors and *)
(* its handlers: every device and every client has one for each direction. *)
(*                                                                         *)
(* data holds size bytes and one more cell, the sentinel that keeps a full *)
(* buffer from looking empty.  From i_rep to i_out lies what was read and  *)
(* can be replayed, from i_out to i_in what is unread.                     *)
(***************************************************************************)
EXTENDS Integers, Sequences, SequencesExt

CONSTANTS
    Bufs,       (* the buffers *)
    Bytes,      (* the bytes written *)
    newline,    (* one of them *)
    junk,       (* what a cell holds before it is written *)
    MinSize, MaxSize, Chunk,
    Meta,       (* alloc - size: the sentinel, and the cookies of a debug build *)
    Inputs,     (* what is written at once: sequences of Bytes *)
    Lens        (* the lengths a caller asks for *)

ASSUME CbufAssumption ==
    /\ MinSize \in Nat \ {0} /\ MaxSize \in Nat /\ MinSize <= MaxSize
    /\ Chunk \in Nat \ {0} /\ Meta \in Nat \ {0}
    /\ newline \in Bytes /\ junk \notin Bytes
    /\ Inputs \subseteq Seq(Bytes) /\ Lens \subseteq Nat

VARIABLES
    cb,         (* cb[b] is struct cbuf *)
    call,       (* the last call *)
    ret         (* and what it returned: n, the bytes, ndropped *)

cbuf_vars == << cb, call, ret >>

Overwrite == { "no_drop", "wrap_once", "wrap_many" }

least(x, y) == IF x <= y THEN x ELSE y
most(x, y) == IF x >= y THEN x ELSE y

(* The cell n places after (before) cell i. *)
fwd(c, i, n) == (i + n) % (c.size + 1)
back(c, i, n) == (i - n + (c.size + 1)) % (c.size + 1)

(* The n bytes from cell i on. *)
stretch(c, i, n) == [ k \in 1..n |-> c.data[fwd(c, i, k - 1)] ]

reused(c) == back(c, c.i_out, c.i_rep)
unread(c) == stretch(c, c.i_out, c.used)
replay(c) == stretch(c, c.i_rep, reused(c))

cbuf_create ==
    [ size |-> MinSize, used |-> 0, overwrite |-> "wrap_many", got_wrap |-> FALSE,
      i_in |-> 0, i_out |-> 0, i_rep |-> 0, data |-> [ i \in 0..MinSize |-> junk ] ]

cbuf_flush(c) ==
    [ c EXCEPT !.used = 0, !.got_wrap = FALSE, !.i_in = 0, !.i_out = 0, !.i_rep = 0 ]

-----------------------------------------------------------------------------
(* Growing and writing. *)

(* The size the buffer grows to for n more bytes. *)
grown_size(c, n) ==
    LET m == c.size + Meta + n
    IN least(m + (Chunk - (m % Chunk)), MaxSize + Meta) - Meta

(* realloc, if there is memory.  Data that wraps around the old end is     *)
(* moved to the new one, so that the new cells lie between i_in and i_rep. *)
cbuf_grow(c, n, mem) ==
    LET size  == grown_size(c, n)
        by    == size - c.size
        wraps == c.i_rep > c.i_in
    IN IF c.size = MaxSize \/ ~mem THEN c
       ELSE [ c EXCEPT
           !.size = size,
           !.data = [ i \in 0..size |->
                        IF wraps /\ i >= c.i_rep + by THEN c.data[i - by]
                        ELSE IF i <= c.size THEN c.data[i] ELSE junk ],
           !.i_rep = IF wraps THEN @ + by ELSE @,
           !.i_out = IF wraps /\ c.i_out >= c.i_rep THEN @ + by ELSE @ ]

make_room(c, len, mem) ==
    IF len > c.size - c.used /\ c.size < MaxSize
    THEN cbuf_grow(c, len - (c.size - c.used), mem)
    ELSE c

(* How much of len bytes the overwrite option lets in; 0 is ENOSPC. *)
admitted(c, len) ==
    CASE c.overwrite = "no_drop"   -> least(len, c.size - c.used)
      [] c.overwrite = "wrap_once" -> least(len, c.size)
      [] OTHER                     -> len

(* The cells after s is copied in at cell i; of what wraps more than once  *)
(* the last stays.                                                         *)
store(c, i, s) ==
    [ j \in 0..c.size |->
        LET K == { k \in 1..Len(s) : fwd(c, i, k - 1) = j }
        IN IF K = {} THEN c.data[j] ELSE s[CHOOSE k \in K : \A l \in K : l <= k] ]

(* Mutated form of took_in: the replay data is not given up to new data. *)
took_in_keeps_replay(c, s) ==
    LET nfree == c.size - c.used
        i     == fwd(c, c.i_in, Len(s))
        over  == Len(s) > nfree
        rep   == IF over THEN (i + 1) % (c.size + 1) ELSE c.i_rep
    IN [ c EXCEPT
           !.data = store(c, c.i_in, s), !.i_in = i,
           !.used = least(c.used + Len(s), c.size),
           !.got_wrap = @ \/ over, !.i_rep = rep,
           !.i_out = IF over THEN rep ELSE @ ]

(* s is copied in and the indices follow: replay data is given up first,   *)
(* then the oldest unread data.                                            *)
took_in(c, s) ==
    LET nfree == c.size - c.used
        i     == fwd(c, c.i_in, Len(s))
        wrap  == Len(s) > nfree - reused(c)
        rep   == IF wrap THEN (i + 1) % (c.size + 1) ELSE c.i_rep
    IN [ c EXCEPT
           !.data = store(c, c.i_in, s), !.i_in = i,
           !.used = least(c.used + Len(s), c.size),
           !.got_wrap = @ \/ wrap, !.i_rep = rep,
           !.i_out = IF Len(s) > nfree THEN rep ELSE @ ]

answer(c, n, out, dropped) == [ c |-> c, n |-> n, out |-> out, dropped |-> dropped ]

(* Up to len bytes of what the source has: src is all it can give, none is *)
(* what it returns when that is nothing (0: end of file, -1: an error).    *)
cbuf_writer(c, len, src, none, mem) ==
    LET d == make_room(c, len, mem)
        s == SubSeq(src, 1, least(admitted(d, len), Len(src)))
    IN IF admitted(d, len) = 0 THEN answer(d, -1, << >>, 0)
       ELSE IF s = << >> THEN answer(d, none, << >>, 0)
       ELSE answer(took_in(d, s), Len(s), << >>, most(0, Len(s) - (d.size - d.used)))

cbuf_write(c, s, mem) ==
    IF s = << >> THEN answer(c, 0, << >>, 0) ELSE cbuf_writer(c, Len(s), s, -1, mem)

(* With len = -1 all free space is used, or if there is none a chunk. *)
cbuf_write_from_fd(c, len, src, none, mem) ==
    LET room == IF c.size = c.used THEN Chunk ELSE c.size - c.used
        l    == IF len = -1 THEN room ELSE len
    IN IF l = 0 THEN answer(c, 0, << >>, 0) ELSE cbuf_writer(c, l, src, none, mem)

(* A line, with a newline if it has none; it is written whole or not at    *)
(* all, except that of one longer than the buffer the end stays.           *)
cbuf_write_line(c, str, mem) ==
    LET s    == IF str # << >> /\ Last(str) = newline THEN str ELSE Append(str, newline)
        d    == make_room(c, Len(s), mem)
        cut  == most(0, Len(s) - d.size)
        tail == SubSeq(s, cut + 1, Len(s))
    IN IF admitted(d, Len(s)) < Len(s) THEN answer(d, -1, << >>, 0)
       ELSE answer(took_in(d, tail), Len(s), << >>,
                   cut + most(0, Len(tail) - (d.size - d.used)))

-----------------------------------------------------------------------------
(* Reading. *)

(* Nothing is given back: cbuf_shrink is not implemented. *)
cbuf_dropper(c, n) == [ c EXCEPT !.used = @ - n, !.i_out = fwd(c, @, n) ]

wound_back(c, n) == [ c EXCEPT !.used = @ + n, !.i_out = back(c, @, n) ]

(* take is how much the sink accepts; -1 is an error. *)
cbuf_reader(c, len, take) ==
    LET n == least(least(len, c.used), take)
    IN answer(c, n, stretch(c, c.i_out, most(n, 0)), 0)

(* Mutated form of cbuf_replayer: the first bytes of the replay data. *)
cbuf_replayer_oldest(c, len, take) ==
    LET n == least(least(len, reused(c)), take)
    IN answer(c, n, stretch(c, c.i_rep, most(n, 0)), 0)

(* The last len bytes of the replay data. *)
cbuf_replayer(c, len, take) ==
    LET l == least(len, reused(c))
        n == least(l, take)
    IN answer(c, n, stretch(c, back(c, c.i_out, l), most(n, 0)), 0)

consumed(r) == IF r.n > 0 THEN [ r EXCEPT !.c = cbuf_dropper(r.c, r.n) ] ELSE r

cbuf_peek(c, len) == cbuf_reader(c, len, len)
cbuf_read(c, len) == consumed(cbuf_reader(c, len, len))
cbuf_replay(c, len) == cbuf_replayer(c, len, len)

cbuf_drop(c, len) ==
    LET n == IF len = -1 THEN c.used ELSE least(len, c.used)
    IN answer(IF n > 0 THEN cbuf_dropper(c, n) ELSE c, n, << >>, 0)

cbuf_rewind(c, len) ==
    LET n == IF len = -1 THEN reused(c) ELSE least(len, reused(c))
    IN answer(IF n > 0 THEN wound_back(c, n) ELSE c, n, << >>, 0)

(* To a descriptor, which may take less than it is offered or nothing.     *)
(* There is no call to putf, and no error, when there is nothing to put.   *)
put(c, len, avail, take) == IF least(len, avail) = 0 THEN 0 ELSE take

cbuf_peek_to_fd(c, len, take) ==
    LET l == IF len = -1 THEN c.used ELSE len
    IN cbuf_reader(c, l, put(c, l, c.used, take))

cbuf_read_to_fd(c, len, take) == consumed(cbuf_peek_to_fd(c, len, take))

cbuf_replay_to_fd(c, len, take) ==
    LET l == IF len = -1 THEN c.size - c.used ELSE len
    IN cbuf_replayer(c, l, put(c, l, reused(c), take))

-----------------------------------------------------------------------------
(* Lines.  lines > 0 asks for that many, all or none; lines = -1 for as    *)
(* many as fit in chars.  A scan keeps the bytes seen (n), the end of the  *)
(* last line found (m), the lines found (l) and what is left of the two    *)
(* bounds.                                                                 *)

scan_start(chars, lines, l) ==
    [ n |-> 0, m |-> 0, l |-> l, chars |-> chars, lines |-> lines, stop |-> FALSE ]

(* One byte on.  incl is 1 if its newline is a part of the line found. *)
scan_step(s, byte, incl) ==
    LET nl    == byte = newline
        chars == IF s.chars > 0 THEN s.chars - 1 ELSE s.chars
        lines == IF nl /\ s.lines > 0 THEN s.lines - 1 ELSE s.lines
    IN IF s.stop THEN s
       ELSE [ n |-> s.n + 1, m |-> IF nl THEN s.n + incl ELSE s.m,
              l |-> IF nl THEN s.l + 1 ELSE s.l,
              chars |-> chars, lines |-> lines, stop |-> chars = 0 \/ lines = 0 ]

cbuf_find_unread_line(c, chars, lines) ==
    LET s == FoldLeft(LAMBDA t, byte : scan_step(t, byte, 1),
                      scan_start(IF lines > 0 THEN -1 ELSE chars, lines, 0), unread(c))
    IN IF (lines = -1 /\ chars <= 0) \/ c.used = 0 \/ s.lines > 0
       THEN [ n |-> 0, lines |-> 0 ]
       ELSE [ n |-> s.m, lines |-> s.l ]

(* Backwards from the last byte read: a line is known by the newline       *)
(* before it, the first line ever written needs none.                      *)
cbuf_find_replay_line(c, chars, lines) ==
    LET ends  == replay(c) # << >> /\ Last(replay(c)) = newline
        start == scan_start(
                   IF lines > 0 THEN IF ends THEN -1 ELSE -2
                   ELSE IF ends THEN chars + 1 ELSE chars,
                   IF lines > 0 /\ ends THEN lines + 1 ELSE lines,
                   IF ends THEN -1 ELSE 0)
        s     == FoldLeft(LAMBDA t, byte : scan_step(t, byte, 0), start, Reverse(replay(c)))
        first == ~c.got_wrap /\ (s.chars > 0 \/ s.lines > 0)
        want  == IF first /\ s.lines > 0 THEN s.lines - 1 ELSE s.lines
        nl    == IF ends THEN 0 ELSE 1
    IN IF (lines = -1 /\ chars <= 0) \/ reused(c) = 0
       THEN [ n |-> 0, lines |-> 0, nl |-> 0 ]
       ELSE IF want > 0 THEN [ n |-> 0, lines |-> 0, nl |-> nl ]
       ELSE [ n |-> IF first THEN s.n ELSE s.m,
              lines |-> IF first THEN s.l + 1 ELSE s.l, nl |-> nl ]

cbuf_lines_used(c) == cbuf_find_unread_line(c, c.size, -1).lines

cbuf_drop_line(c, len, lines) ==
    LET n == cbuf_find_unread_line(c, len, lines).n
    IN answer(IF n > 0 THEN cbuf_dropper(c, n) ELSE c, n, << >>, 0)

(* The caller's buffer has room for len - 1 bytes: a longer line is cut,   *)
(* and read_line discards what was cut off.                                *)
cbuf_peek_line(c, len, lines) ==
    LET n == cbuf_find_unread_line(c, len - 1, lines).n
    IN answer(c, n, stretch(c, c.i_out, most(0, least(n, len - 1))), 0)

cbuf_read_line(c, len, lines) == consumed(cbuf_peek_line(c, len, lines))

cbuf_replay_line(c, len, lines) ==
    LET f == cbuf_find_replay_line(c, len - 1, lines)
        m == most(0, least(f.n, len - 1 - f.nl))
        out == stretch(c, back(c, c.i_out, m), m)
    IN IF f.n = 0 THEN answer(c, 0, << >>, 0)
       ELSE IF len = 0 THEN answer(c, f.n, << >>, 0)
       ELSE answer(c, f.n + f.nl,
                   IF f.nl = 1 /\ len > 1 THEN Append(out, newline) ELSE out, 0)

cbuf_rewind_line(c, len, lines) ==
    LET n == cbuf_find_replay_line(c, len, lines).n
    IN answer(IF n > 0 THEN wound_back(c, n) ELSE c, n, << >>, 0)

-----------------------------------------------------------------------------
(* From one buffer to another. *)

(* The number returned is that of the bytes let in, though of more than    *)
(* the destination holds only the last are copied.                         *)
cbuf_copier(src, dst, len, mem) ==
    LET l == least(len, src.used)
        d == make_room(dst, l, mem)
        a == admitted(d, l)
        s == stretch(src, fwd(src, src.i_out, most(0, a - d.size)), least(a, d.size))
    IN IF l = 0 THEN answer(dst, 0, << >>, 0)
       ELSE IF a = 0 THEN answer(d, -1, << >>, 0)
       ELSE answer(took_in(d, s), a, << >>, most(0, a - d.size + d.used))

-----------------------------------------------------------------------------
(* The specification: any call, at any time. *)

Result(req, r) == call' = req /\ ret' = [ n |-> r.n, out |-> r.out, dropped |-> r.dropped ]

Returns(b, req, r) == cb' = [ cb EXCEPT ![b] = r.c ] /\ Result(req, r)

Counts == Lens \cup { -1 }

Writes(b) ==
    \E s \in Inputs, mem \in BOOLEAN :
        \/ Returns(b, << "write", s >>, cbuf_write(cb[b], s, mem))
        \/ Returns(b, << "write_line", s >>, cbuf_write_line(cb[b], s, mem))
        \/ \E len \in Counts, none \in { 0, -1 } :
               Returns(b, << "write_from_fd", len, s >>, cbuf_write_from_fd(cb[b], len, s, none, mem))

Reads(b) ==
    \E len \in Lens :
        \/ Returns(b, << "peek", len >>, cbuf_peek(cb[b], len))
        \/ Returns(b, << "read", len >>, cbuf_read(cb[b], len))
        \/ Returns(b, << "replay", len >>, cbuf_replay(cb[b], len))

Moves(b) ==
    \E len \in Counts :
        \/ Returns(b, << "drop", len >>, cbuf_drop(cb[b], len))
        \/ Returns(b, << "rewind", len >>, cbuf_rewind(cb[b], len))

ReadsToFd(b) ==
    \E len \in Counts, take \in (1..MaxSize) \cup { -1 } :
        \/ Returns(b, << "peek_to_fd", len >>, cbuf_peek_to_fd(cb[b], len, take))
        \/ Returns(b, << "read_to_fd", len >>, cbuf_read_to_fd(cb[b], len, take))
        \/ Returns(b, << "replay_to_fd", len >>, cbuf_replay_to_fd(cb[b], len, take))

Lines(b) ==
    \E len \in Lens, lines \in { -1, 1, 2 } :
        \/ Returns(b, << "drop_line", len, lines >>, cbuf_drop_line(cb[b], len, lines))
        \/ Returns(b, << "peek_line", len, lines >>, cbuf_peek_line(cb[b], len, lines))
        \/ Returns(b, << "read_line", len, lines >>, cbuf_read_line(cb[b], len, lines))
        \/ Returns(b, << "replay_line", len, lines >>, cbuf_replay_line(cb[b], len, lines))
        \/ Returns(b, << "rewind_line", len, lines >>, cbuf_rewind_line(cb[b], len, lines))

Settings(b) ==
    \/ Returns(b, << "flush" >>, answer(cbuf_flush(cb[b]), 0, << >>, 0))
    \/ \E o \in Overwrite :                                  \* cbuf_opt_set
           Returns(b, << "opt_set" >>, answer([ cb[b] EXCEPT !.overwrite = o ], 0, << >>, 0))

Measures(b) ==
    \/ Returns(b, << "used" >>, answer(cb[b], cb[b].used, << >>, 0))
    \/ Returns(b, << "free" >>, answer(cb[b], MaxSize - cb[b].used, << >>, 0))
    \/ Returns(b, << "reused" >>, answer(cb[b], reused(cb[b]), << >>, 0))
    \/ Returns(b, << "lines_used" >>, answer(cb[b], cbuf_lines_used(cb[b]), << >>, 0))

Transfers(b, d) ==
    \E len \in Counts, mem \in BOOLEAN :
        LET l == IF len = -1 THEN cb[b].used ELSE len
            r == cbuf_copier(cb[b], cb[d], l, mem)
        IN /\ b # d
           /\ \/ /\ cb' = [ cb EXCEPT ![d] = r.c ]
                 /\ Result(<< "copy", len >>, r)
              \/ /\ cb' = [ cb EXCEPT ![d] = r.c,
                                      ![b] = IF r.n > 0 THEN cbuf_dropper(@, r.n) ELSE @ ]
                 /\ Result(<< "move", len >>, r)

CbufInit ==
    /\ cb = [ b \in Bufs |-> cbuf_create ]
    /\ call = << "create" >>
    /\ ret = [ n |-> 0, out |-> << >>, dropped |-> 0 ]

CbufNext ==
    \/ \E b \in Bufs :
          \/ Writes(b) \/ Reads(b) \/ Moves(b) \/ ReadsToFd(b)
          \/ Lines(b) \/ Settings(b) \/ Measures(b)
    \/ \E b, d \in Bufs : Transfers(b, d)

CbufSpec == CbufInit /\ [][CbufNext]_cbuf_vars

-----------------------------------------------------------------------------
(* Properties. *)

(* cbuf_is_valid, the assertion at the begin and the end of every call:    *)
(* the three indices and the count agree on what is used and free.         *)
Valid ==
    \A b \in Bufs :
        LET c == cb[b]
        IN /\ c.size >= MinSize /\ c.size <= MaxSize
           /\ c.used >= 0 /\ c.used <= c.size
           /\ c.got_wrap \/ c.i_rep = 0
           /\ c.i_in \in 0..c.size /\ c.i_out \in 0..c.size /\ c.i_rep \in 0..c.size
           /\ IF c.i_in >= c.i_out
              THEN c.i_rep > c.i_in \/ c.i_rep <= c.i_out
              ELSE c.i_rep > c.i_in /\ c.i_rep <= c.i_out
           /\ c.size - c.used = (c.i_out - c.i_in - 1 + (c.size + 1)) % (c.size + 1)
=============================================================================
