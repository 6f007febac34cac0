--------------------------- MODULE ContainerProofs --------------------------
(***************************************************************************)
(* Proofs about the containers, for any sizes, contents and calls: the     *)
(* indices and the count of a circular buffer agree on what is used and    *)
(* what is free, the iterators of a list point into it, none of its nodes  *)
(* is lost, a hash table answers every call as a dictionary would, and an  *)
(* argument list lives exactly as long as it is held.                      *)
(***************************************************************************)
EXTENDS Cbuf, List, ArgList, FoldLemmas

Stored == Bytes \cup {junk}

(***************************************************************************)
(* Around the circle                                                       *)
(***************************************************************************)

(* What is left of a number that goes around at most once.                 *)
LEMMA AroundOnce ==
    ASSUME NEW s \in Nat \ {0}, NEW x \in 0..2 * s - 1
    PROVE  x % s = IF x < s THEN x ELSE x - s
<1>1. x = s * (x \div s) + (x % s) /\ x % s \in 0..s - 1 /\ x \div s \in Int
    OBVIOUS
<1>2. CASE x < s
    BY <1>2
<1>3. CASE x >= s
    <2>1. (x - s) % s = x - s
        BY <1>3
    <2>. QED  BY <1>1, <1>3, <2>1
<1>. QED  BY <1>2, <1>3

(***************************************************************************)
(* Three places in their order around the circle                           *)
(***************************************************************************)

(* How many cells lie from i on before j.                                  *)
Apart(size, i, j) == IF i <= j THEN j - i ELSE j - i + size + 1

(* Valid without the circle: i_rep, i_out and i_in follow each other, and  *)
(* used counts from the second to the third.                               *)
InOrder(size, used, in, out, rep) ==
    /\ in \in 0..size /\ out \in 0..size /\ rep \in 0..size
    /\ used = Apart(size, out, in)
    /\ Apart(size, rep, out) + used <= size

(* They do when new cells come between in and rep.                         *)
LEMMA OrderGrows ==
    ASSUME NEW size \in Nat, NEW new \in Nat, size <= new,
           NEW used, NEW in, NEW out, NEW rep, InOrder(size, used, in, out, rep)
    PROVE  InOrder(new, used, in,
                   IF rep > in /\ out >= rep THEN out + (new - size) ELSE out,
                   IF rep > in THEN rep + (new - size) ELSE rep)
<1>. DEFINE o == IF rep > in /\ out >= rep THEN out + (new - size) ELSE out
            r == IF rep > in THEN rep + (new - size) ELSE rep
<1>1. in \in 0..size /\ out \in 0..size /\ rep \in 0..size
    BY DEF InOrder
<1>2. used = Apart(size, out, in) /\ Apart(size, rep, out) + used <= size
    BY DEF InOrder
<1>3. o \in 0..new /\ r \in 0..new
    BY <1>1
<1>4. used = Apart(new, o, in)
    BY <1>1, <1>2 DEF Apart
<1>5. Apart(new, r, o) + used <= new
    BY <1>1, <1>2 DEF Apart
<1>. QED  BY <1>1, <1>3, <1>4, <1>5 DEF InOrder

(* They do when in goes on by n and pushes the others before it.           *)
LEMMA OrderTakesIn ==
    ASSUME NEW size \in Nat, NEW used, NEW in, NEW out, NEW rep, InOrder(size, used, in, out, rep),
           NEW n \in Nat, NEW i \in 0..size,
           n <= size + 1 => i = IF in + n <= size THEN in + n ELSE in + n - size - 1
    PROVE  LET next == IF i = size THEN 0 ELSE i + 1
               r    == IF n > size - used - Apart(size, rep, out) THEN next ELSE rep
               o    == IF n > size - used THEN r ELSE out
               u    == IF used + n <= size THEN used + n ELSE size
           IN InOrder(size, u, i, o, r)
<1>. DEFINE wrap == n > size - used - Apart(size, rep, out)
<1>1. in \in 0..size /\ out \in 0..size /\ rep \in 0..size
    BY DEF InOrder
<1>2. used = Apart(size, out, in) /\ Apart(size, rep, out) + used <= size /\ used \in 0..size
    BY DEF InOrder, Apart
<1>3. CASE n > size - used
    BY <1>1, <1>2, <1>3 DEF Apart, InOrder
<1>4. CASE n <= size - used /\ wrap
    BY <1>1, <1>2, <1>4 DEF Apart, InOrder
<1>5. CASE n <= size - used /\ ~wrap
    BY <1>1, <1>2, <1>5 DEF Apart, InOrder
<1>. QED  BY <1>1, <1>2, <1>3, <1>4, <1>5

(* They do when out goes on by n of used, or back by n of what it left.    *)
LEMMA OrderMoves ==
    ASSUME NEW size \in Nat, NEW used, NEW in, NEW out, NEW rep, InOrder(size, used, in, out, rep),
           NEW n \in Nat
    PROVE  /\ n <= used =>
                InOrder(size, used - n, in, IF out + n <= size THEN out + n ELSE out + n - size - 1, rep)
           /\ n <= Apart(size, rep, out) =>
                InOrder(size, used + n, in, IF n <= out THEN out - n ELSE out - n + size + 1, rep)
<1>1. in \in 0..size /\ out \in 0..size /\ rep \in 0..size
    BY DEF InOrder
<1>2. used = Apart(size, out, in) /\ Apart(size, rep, out) + used <= size
    BY DEF InOrder
<1>3. ASSUME n <= used
      PROVE  InOrder(size, used - n, in, IF out + n <= size THEN out + n ELSE out + n - size - 1, rep)
    BY <1>1, <1>2, <1>3 DEF Apart, InOrder
<1>4. ASSUME n <= Apart(size, rep, out)
      PROVE  InOrder(size, used + n, in, IF n <= out THEN out - n ELSE out - n + size + 1, rep)
    BY <1>1, <1>2, <1>4 DEF Apart, InOrder
<1>. QED  BY <1>3, <1>4

(***************************************************************************)
(* A buffer whose indices and count agree                                  *)
(***************************************************************************)
Buffer ==
    [ size : MinSize..MaxSize, used : Nat, overwrite : Overwrite, got_wrap : BOOLEAN,
      i_in : Nat, i_out : Nat, i_rep : Nat, data : UNION { [0..n -> Stored] : n \in Nat } ]

(* Its indices are in their order, and i_rep moves at the first wrap.      *)
Agrees(c) ==
    /\ InOrder(c.size, c.used, c.i_in, c.i_out, c.i_rep)
    /\ c.got_wrap \/ c.i_rep = 0

Sound(c) == c \in Buffer /\ c.data \in [0..c.size -> Stored] /\ Agrees(c)

(* The cells n places away, of one that goes around at most once.          *)
LEMMA Places ==
    ASSUME NEW c, Sound(c), NEW i \in 0..c.size, NEW n \in Nat
    PROVE  /\ fwd(c, i, n) \in 0..c.size
           /\ n <= c.size + 1 => /\ fwd(c, i, n) = IF i + n <= c.size THEN i + n ELSE i + n - c.size - 1
                                 /\ back(c, i, n) = IF n <= i THEN i - n ELSE i - n + c.size + 1
<1>. DEFINE s == c.size + 1
<1>1. c.size \in Nat /\ s \in Nat \ {0}
    BY CbufAssumption DEF Sound, Buffer
<1>2. fwd(c, i, n) \in 0..c.size
    BY <1>1 DEF fwd
<1>3. ASSUME n <= c.size + 1
      PROVE  fwd(c, i, n) = IF i + n <= c.size THEN i + n ELSE i + n - c.size - 1
    <2>. DEFINE x == i + n
    <2>1. x \in 0..2 * s - 1
        BY <1>1, <1>3
    <2>. HIDE DEF s, x
    <2>2. x % s = IF x < s THEN x ELSE x - s
        BY <1>1, <2>1, AroundOnce
    <2>. QED  BY <1>1, <2>2 DEF fwd, s, x
<1>4. ASSUME n <= c.size + 1
      PROVE  back(c, i, n) = IF n <= i THEN i - n ELSE i - n + c.size + 1
    <2>. DEFINE x == i - n + (c.size + 1)
    <2>1. x \in 0..2 * s - 1
        BY <1>1, <1>4
    <2>. HIDE DEF s, x
    <2>2. x % s = IF x < s THEN x ELSE x - s
        BY <1>1, <2>1, AroundOnce
    <2>. QED  BY <1>1, <2>2 DEF back, s, x
<1>. QED  BY <1>2, <1>3, <1>4

(* What is known of a buffer's indices; reused counts from i_rep to i_out. *)
LEMMA Fields ==
    ASSUME NEW c, Sound(c)
    PROVE  /\ c.size \in MinSize..MaxSize /\ c.size \in Nat
           /\ c.i_in \in 0..c.size /\ c.i_out \in 0..c.size /\ c.i_rep \in 0..c.size
           /\ InOrder(c.size, c.used, c.i_in, c.i_out, c.i_rep)
           /\ c.used \in 0..c.size /\ reused(c) = Apart(c.size, c.i_rep, c.i_out)
           /\ reused(c) \in Nat /\ reused(c) + c.used <= c.size
           /\ c.got_wrap \in BOOLEAN /\ (c.got_wrap \/ c.i_rep = 0)
           /\ c \in Buffer /\ c.data \in [0..c.size -> Stored]
<1>1. c.size \in MinSize..MaxSize /\ c.size \in Nat /\ c.used \in Nat /\ c.got_wrap \in BOOLEAN
    BY CbufAssumption DEF Sound, Buffer
<1>2. InOrder(c.size, c.used, c.i_in, c.i_out, c.i_rep) /\ (c.got_wrap \/ c.i_rep = 0)
    BY DEF Sound, Agrees
<1>3. c.i_in \in 0..c.size /\ c.i_out \in 0..c.size /\ c.i_rep \in 0..c.size
    BY <1>2 DEF InOrder
<1>4. c.used \in 0..c.size /\ Apart(c.size, c.i_rep, c.i_out) \in Nat
      /\ Apart(c.size, c.i_rep, c.i_out) + c.used <= c.size
    BY <1>1, <1>2, <1>3 DEF InOrder, Apart
<1>5. reused(c) = IF c.i_rep <= c.i_out THEN c.i_out - c.i_rep ELSE c.i_out - c.i_rep + c.size + 1
    <2>1. c.i_rep \in Nat /\ c.i_rep <= c.size + 1
        BY <1>1, <1>3
    <2>. QED  BY <1>3, <2>1, Places DEF reused
<1>6. reused(c) = Apart(c.size, c.i_rep, c.i_out)
    BY <1>1, <1>3, <1>5 DEF Apart
<1>. QED  BY <1>1, <1>2, <1>3, <1>4, <1>6 DEF Sound

(* Agrees says no less than the assertion.                                 *)
LEMMA SoundIsValid ==
    ASSUME \A b \in Bufs : Sound(cb[b])
    PROVE  Valid
<1>. SUFFICES ASSUME NEW b \in Bufs
     PROVE  LET c == cb[b]
            IN /\ c.size >= MinSize /\ c.size <= MaxSize
               /\ c.used >= 0 /\ c.used <= c.size
               /\ c.got_wrap \/ c.i_rep = 0
               /\ c.i_in \in 0..c.size /\ c.i_out \in 0..c.size /\ c.i_rep \in 0..c.size
               /\ IF c.i_in >= c.i_out
                  THEN c.i_rep > c.i_in \/ c.i_rep <= c.i_out
                  ELSE c.i_rep > c.i_in /\ c.i_rep <= c.i_out
               /\ c.size - c.used = (c.i_out - c.i_in - 1 + (c.size + 1)) % (c.size + 1)
    BY DEF Valid
<1>. DEFINE c == cb[b]
<1>1. Sound(c)
    OBVIOUS
<1>. HIDE DEF c
<1>2. /\ c.size \in MinSize..MaxSize /\ c.size \in Nat /\ c.used \in 0..c.size
      /\ c.i_in \in 0..c.size /\ c.i_out \in 0..c.size /\ c.i_rep \in 0..c.size
      /\ c.used = Apart(c.size, c.i_out, c.i_in)
      /\ Apart(c.size, c.i_rep, c.i_out) + c.used <= c.size
      /\ c.got_wrap \/ c.i_rep = 0
    BY <1>1, Fields DEF InOrder
<1>3. c.size - c.used = (c.i_out - c.i_in - 1 + (c.size + 1)) % (c.size + 1)
    <2>. DEFINE x == c.i_out - c.i_in - 1 + (c.size + 1)
    <2>1. x \in 0..2 * (c.size + 1) - 1 /\ c.size + 1 \in Nat \ {0}
        BY <1>2
    <2>2. x % (c.size + 1) = IF x < c.size + 1 THEN x ELSE x - (c.size + 1)
        BY <2>1, AroundOnce
    <2>. QED  BY <1>2, <2>2 DEF Apart
<1>4. IF c.i_in >= c.i_out
      THEN c.i_rep > c.i_in \/ c.i_rep <= c.i_out
      ELSE c.i_rep > c.i_in /\ c.i_rep <= c.i_out
    BY <1>2 DEF Apart
<1>5. c.size >= MinSize /\ c.size <= MaxSize /\ c.used >= 0 /\ c.used <= c.size
    BY <1>2, CbufAssumption
<1>. QED  BY <1>2, <1>3, <1>4, <1>5 DEF c

(* n bytes from some cell on are bytes that are stored.                    *)
LEMMA StretchType ==
    ASSUME NEW c, Sound(c), NEW i \in 0..c.size, NEW n \in Nat
    PROVE  stretch(c, i, n) \in Seq(Stored) /\ Len(stretch(c, i, n)) = n
<1>1. c.data \in [0..c.size -> Stored] /\ c.size \in Nat
    BY Fields DEF Sound
<1>2. \A k \in 1..n : k - 1 \in Nat
    OBVIOUS
<1>3. \A k \in 1..n : fwd(c, i, k - 1) \in 0..c.size
    BY <1>2, Places
<1>4. \A k \in 1..n : c.data[fwd(c, i, k - 1)] \in Stored
    BY <1>1, <1>3
<1>. QED  BY <1>4 DEF stretch

(***************************************************************************)
(* What changes a buffer                                                   *)
(***************************************************************************)

(***************************************************************************)
(* What changes a buffer                                                   *)
(***************************************************************************)

(* A new buffer.                                                           *)
LEMMA CreateSound == Sound(cbuf_create)
<1>1. MinSize \in Nat /\ MinSize \in MinSize..MaxSize /\ 0 \in 0..MinSize
    BY CbufAssumption
<1>2. [ i \in 0..MinSize |-> junk ] \in [0..MinSize -> Stored]
    BY DEF Stored
<1>3. cbuf_create \in Buffer
    <2>1. [ i \in 0..MinSize |-> junk ] \in UNION { [0..n -> Stored] : n \in Nat }
        BY <1>1, <1>2
    <2>. QED  BY <1>1, <2>1 DEF cbuf_create, Buffer, Overwrite
<1>4. InOrder(MinSize, 0, 0, 0, 0)
    BY <1>1 DEF InOrder, Apart
<1>. QED  BY <1>2, <1>3, <1>4 DEF Sound, Agrees, cbuf_create

(* One that is emptied, or whose option is set.                            *)
LEMMA FlushSound ==
    ASSUME NEW c, Sound(c)
    PROVE  /\ Sound(cbuf_flush(c))
           /\ \A o \in Overwrite : Sound([ c EXCEPT !.overwrite = o ])
<1>1. c.size \in Nat /\ c \in Buffer /\ c.data \in [0..c.size -> Stored] /\ Agrees(c)
    BY Fields DEF Sound
<1>2. InOrder(c.size, 0, 0, 0, 0)
    BY <1>1 DEF InOrder, Apart
<1>3. cbuf_flush(c) \in Buffer
    BY <1>1 DEF cbuf_flush, Buffer
<1>4. Sound(cbuf_flush(c))
    BY <1>1, <1>2, <1>3 DEF Sound, Agrees, cbuf_flush, Buffer
<1>5. ASSUME NEW o \in Overwrite PROVE Sound([ c EXCEPT !.overwrite = o ])
    BY <1>1 DEF Sound, Agrees, Buffer
<1>. QED  BY <1>4, <1>5

(* The size that is asked of realloc.                                      *)
LEMMA GrownSize ==
    ASSUME NEW c, Sound(c), NEW n \in Nat
    PROVE  grown_size(c, n) \in c.size..MaxSize
<1>. DEFINE m == c.size + Meta + n
<1>1. c.size \in Nat /\ c.size <= MaxSize /\ MaxSize \in Nat /\ Meta \in Nat /\ Chunk \in Nat \ {0}
    BY Fields, CbufAssumption
<1>2. m \in Nat
    BY <1>1
<1>3. m % Chunk \in 0..Chunk - 1
    BY <1>1, <1>2
<1>4. m + (Chunk - (m % Chunk)) \in Nat /\ m + (Chunk - (m % Chunk)) >= m
    BY <1>1, <1>2, <1>3
<1>. QED  BY <1>1, <1>2, <1>4 DEF grown_size, least

(* A buffer that has grown has the same data, and more room.               *)
LEMMA GrowSound ==
    ASSUME NEW c, Sound(c), NEW n \in Nat, NEW mem \in BOOLEAN
    PROVE  Sound(cbuf_grow(c, n, mem))
<1>. DEFINE size  == grown_size(c, n)
            by    == size - c.size
            wraps == c.i_rep > c.i_in
            data  == [ i \in 0..size |->
                         IF wraps /\ i >= c.i_rep + by THEN c.data[i - by]
                         ELSE IF i <= c.size THEN c.data[i] ELSE junk ]
            rep   == IF wraps THEN c.i_rep + by ELSE c.i_rep
            out   == IF wraps /\ c.i_out >= c.i_rep THEN c.i_out + by ELSE c.i_out
            d     == [ c EXCEPT !.size = size, !.data = data, !.i_rep = rep, !.i_out = out ]
<1>1. cbuf_grow(c, n, mem) = IF c.size = MaxSize \/ ~mem THEN c ELSE d
    BY DEF cbuf_grow
<1>2. /\ c \in Buffer /\ c.size \in MinSize..MaxSize /\ c.size \in Nat
      /\ c.data \in [0..c.size -> Stored] /\ (c.got_wrap \/ c.i_rep = 0)
      /\ c.i_in \in 0..c.size /\ c.i_out \in 0..c.size /\ c.i_rep \in 0..c.size
      /\ InOrder(c.size, c.used, c.i_in, c.i_out, c.i_rep)
    BY Fields
<1>3. size \in c.size..MaxSize /\ MinSize \in Nat /\ MaxSize \in Nat
    BY GrownSize, CbufAssumption
<1>. HIDE DEF size
<1>4. size \in MinSize..MaxSize /\ size \in Nat /\ c.size <= size
    BY <1>2, <1>3
<1>5. InOrder(size, c.used, c.i_in, out, rep)
    BY <1>2, <1>4, OrderGrows
<1>6. data \in [0..size -> Stored]
    <2>. SUFFICES ASSUME NEW i \in 0..size PROVE data[i] \in Stored
        OBVIOUS
    <2>1. CASE wraps /\ i >= c.i_rep + by
        <3>1. i - by \in 0..c.size
            BY <1>2, <1>4, <2>1
        <3>. QED  BY <1>2, <2>1, <3>1
    <2>2. CASE ~(wraps /\ i >= c.i_rep + by) /\ i <= c.size
        <3>1. i \in 0..c.size
            BY <1>2, <1>4, <2>2
        <3>. QED  BY <1>2, <2>2, <3>1
    <2>3. CASE ~(wraps /\ i >= c.i_rep + by) /\ ~(i <= c.size)
        BY <2>3 DEF Stored
    <2>. QED  BY <2>1, <2>2, <2>3
<1>7. c.got_wrap \/ rep = 0
    BY <1>2
<1>. HIDE DEF data, rep, out
<1>8. d \in Buffer
    <2>1. data \in UNION { [0..k -> Stored] : k \in Nat }
        BY <1>4, <1>6
    <2>2. rep \in Nat /\ out \in Nat
        BY <1>4, <1>5 DEF InOrder
    <2>. QED  BY <1>2, <1>4, <2>1, <2>2 DEF Buffer
<1>9. /\ d.size = size /\ d.data = data /\ d.i_rep = rep /\ d.i_out = out
      /\ d.used = c.used /\ d.got_wrap = c.got_wrap /\ d.i_in = c.i_in
    BY <1>2 DEF Buffer
<1>. HIDE DEF d
<1>10. Sound(d)
    BY <1>5, <1>6, <1>7, <1>8, <1>9 DEF Sound, Agrees
<1>. QED  BY <1>1, <1>10

(* So it is when room is made.                                             *)
LEMMA RoomSound ==
    ASSUME NEW c, Sound(c), NEW n \in Nat, NEW mem \in BOOLEAN
    PROVE  Sound(make_room(c, n, mem))
<1>1. c.size \in Nat /\ c.used \in 0..c.size /\ MaxSize \in Nat
    BY Fields, CbufAssumption
<1>2. CASE n > c.size - c.used /\ c.size < MaxSize
    <2>1. n - (c.size - c.used) \in Nat
        BY <1>1, <1>2
    <2>. QED  BY <1>2, <2>1, GrowSound DEF make_room
<1>3. CASE ~(n > c.size - c.used /\ c.size < MaxSize)
    BY <1>3 DEF make_room
<1>. QED  BY <1>2, <1>3

(* The last of the bytes that go into a cell is one.                       *)
LEMMA StoreType ==
    ASSUME NEW c, Sound(c), NEW i \in 0..c.size, NEW s \in Seq(Stored)
    PROVE  store(c, i, s) \in [0..c.size -> Stored]
<1>. DEFINE K(j) == { k \in 1..Len(s) : fwd(c, i, k - 1) = j }
            last(j) == CHOOSE k \in K(j) : \A l \in K(j) : l <= k
<1>1. c.data \in [0..c.size -> Stored]
    BY DEF Sound
<1>2. ASSUME NEW j, K(j) # {} PROVE last(j) \in 1..Len(s)
    <2>1. IsFiniteSet(1..Len(s)) /\ K(j) \subseteq 1..Len(s)
        BY FS_Interval
    <2>2. IsFiniteSet(K(j)) /\ K(j) \in SUBSET Int
        BY <2>1, FS_Subset
    <2>. HIDE DEF K
    <2>3. \E k \in K(j) : \A l \in K(j) : k >= l
        BY <1>2, <2>2, LeastAndGreatest
    <2>4. \E k \in K(j) : \A l \in K(j) : l <= k
        BY <2>2, <2>3
    <2>5. last(j) \in K(j)
        BY <2>4
    <2>. QED  BY <2>1, <2>5
<1>3. store(c, i, s) = [ j \in 0..c.size |-> IF K(j) = {} THEN c.data[j] ELSE s[last(j)] ]
    BY DEF store
<1>4. ASSUME NEW j, K(j) # {} PROVE s[last(j)] \in Stored
    <2>. HIDE DEF K, last
    <2>1. last(j) \in 1..Len(s)
        BY <1>2, <1>4
    <2>. QED  BY <2>1
<1>. HIDE DEF K, last
<1>5. ASSUME NEW j \in 0..c.size PROVE (IF K(j) = {} THEN c.data[j] ELSE s[last(j)]) \in Stored
    BY <1>1, <1>4
<1>. QED  BY <1>3, <1>5

(* What is taken in follows what is unread; replay data is given up first, *)
(* then the oldest unread data.                                            *)
LEMMA TookInSound ==
    ASSUME NEW c, Sound(c), NEW s \in Seq(Stored)
    PROVE  Sound(took_in(c, s))
<1>. DEFINE n     == Len(s)
            i     == fwd(c, c.i_in, n)
            next  == (i + 1) % (c.size + 1)
            wrap  == n > c.size - c.used - reused(c)
            used  == least(c.used + n, c.size)
            rep   == IF wrap THEN next ELSE c.i_rep
            out   == IF n > c.size - c.used THEN rep ELSE c.i_out
            data  == store(c, c.i_in, s)
            d     == [ c EXCEPT !.data = data, !.i_in = i, !.used = used,
                                !.got_wrap = c.got_wrap \/ wrap, !.i_rep = rep, !.i_out = out ]
<1>1. took_in(c, s) = d
    BY DEF took_in
<1>2. /\ c \in Buffer /\ c.size \in Nat /\ c.used \in 0..c.size /\ n \in Nat
      /\ reused(c) = Apart(c.size, c.i_rep, c.i_out) /\ c.i_in \in 0..c.size
      /\ InOrder(c.size, c.used, c.i_in, c.i_out, c.i_rep)
      /\ c.got_wrap \in BOOLEAN /\ (c.got_wrap \/ c.i_rep = 0)
    BY Fields
<1>3. data \in [0..c.size -> Stored]
    BY <1>2, StoreType
<1>4. /\ i \in 0..c.size
      /\ n <= c.size + 1 => i = IF c.i_in + n <= c.size THEN c.i_in + n ELSE c.i_in + n - c.size - 1
    BY <1>2, Places
<1>. HIDE DEF i, data, n
<1>5. next = IF i = c.size THEN 0 ELSE i + 1
    <2>1. next = fwd(c, i, 1) /\ 1 \in Nat /\ 1 <= c.size + 1
        BY <1>2 DEF fwd
    <2>2. next = IF i + 1 <= c.size THEN i + 1 ELSE i + 1 - c.size - 1
        BY <1>4, <2>1, Places
    <2>. QED  BY <1>2, <1>4, <2>2
<1>6. InOrder(c.size, used, i, out, rep)
    <2>. HIDE DEF next
    <2>1. LET r == IF n > c.size - c.used - Apart(c.size, c.i_rep, c.i_out)
                   THEN IF i = c.size THEN 0 ELSE i + 1 ELSE c.i_rep
              o == IF n > c.size - c.used THEN r ELSE c.i_out
              u == IF c.used + n <= c.size THEN c.used + n ELSE c.size
          IN InOrder(c.size, u, i, o, r)
        BY <1>2, <1>4, OrderTakesIn
    <2>. QED  BY <1>2, <1>5, <2>1 DEF least
<1>7. (c.got_wrap \/ wrap) \in BOOLEAN /\ ((c.got_wrap \/ wrap) \/ rep = 0)
    BY <1>2
<1>. HIDE DEF used, out, rep, wrap
<1>8. d \in Buffer
    <2>1. data \in UNION { [0..k -> Stored] : k \in Nat }
        BY <1>2, <1>3
    <2>2. i \in Nat /\ out \in Nat /\ rep \in Nat /\ used \in Nat
        BY <1>2, <1>6 DEF InOrder, Apart
    <2>. QED  BY <1>2, <1>7, <2>1, <2>2 DEF Buffer
<1>9. /\ d.size = c.size /\ d.data = data /\ d.i_in = i /\ d.used = used
      /\ d.got_wrap = (c.got_wrap \/ wrap) /\ d.i_rep = rep /\ d.i_out = out
    BY <1>2 DEF Buffer
<1>. HIDE DEF d
<1>10. Sound(d)
    BY <1>3, <1>6, <1>7, <1>8, <1>9 DEF Sound, Agrees
<1>. QED  BY <1>1, <1>10

(* Bytes are read, or wound back.                                          *)
LEMMA MoveSound ==
    ASSUME NEW c, Sound(c), NEW n \in Nat
    PROVE  /\ n <= c.used => Sound(cbuf_dropper(c, n))
           /\ n <= reused(c) => Sound(wound_back(c, n))
<1>1. /\ c \in Buffer /\ c.size \in Nat /\ c.used \in 0..c.size /\ c.data \in [0..c.size -> Stored]
      /\ reused(c) = Apart(c.size, c.i_rep, c.i_out) /\ c.i_out \in 0..c.size
      /\ reused(c) \in Nat /\ reused(c) + c.used <= c.size
      /\ InOrder(c.size, c.used, c.i_in, c.i_out, c.i_rep) /\ (c.got_wrap \/ c.i_rep = 0)
    BY Fields
<1>2. ASSUME NEW m, NEW o, InOrder(c.size, m, c.i_in, o, c.i_rep)
      PROVE  Sound([ c EXCEPT !.used = m, !.i_out = o ])
    <2>. DEFINE d == [ c EXCEPT !.used = m, !.i_out = o ]
    <2>1. m \in Nat /\ o \in Nat
        <3>1. o \in 0..c.size /\ m = Apart(c.size, o, c.i_in) /\ c.i_in \in 0..c.size
            BY <1>2 DEF InOrder
        <3>. QED  BY <1>1, <3>1 DEF Apart
    <2>2. d \in Buffer
        BY <1>1, <2>1 DEF Buffer
    <2>3. /\ d.size = c.size /\ d.data = c.data /\ d.i_in = c.i_in /\ d.used = m
          /\ d.got_wrap = c.got_wrap /\ d.i_rep = c.i_rep /\ d.i_out = o
        BY <1>1 DEF Buffer
    <2>. HIDE DEF d
    <2>4. Sound(d)
        BY <1>1, <1>2, <2>2, <2>3 DEF Sound, Agrees
    <2>. QED  BY <2>4 DEF d
<1>3. ASSUME n <= c.used PROVE Sound(cbuf_dropper(c, n))
    <2>. DEFINE o == fwd(c, c.i_out, n)
    <2>1. n <= c.size + 1
        BY <1>1, <1>3
    <2>2. o = (IF c.i_out + n <= c.size THEN c.i_out + n ELSE c.i_out + n - c.size - 1)
        BY <1>1, <2>1, Places
    <2>. HIDE DEF o
    <2>3. InOrder(c.size, c.used - n, c.i_in, o, c.i_rep)
        BY <1>1, <1>3, <2>2, OrderMoves
    <2>. DEFINE m == c.used - n
    <2>4. cbuf_dropper(c, n) = [ c EXCEPT !.used = m, !.i_out = o ]
        BY DEF cbuf_dropper, o
    <2>. HIDE DEF m
    <2>5. Sound([ c EXCEPT !.used = m, !.i_out = o ])
        BY <1>2, <2>3 DEF m
    <2>. QED  BY <2>4, <2>5
<1>4. ASSUME n <= reused(c) PROVE Sound(wound_back(c, n))
    <2>. DEFINE o == back(c, c.i_out, n)
    <2>1. n <= c.size + 1
        BY <1>1, <1>4
    <2>2. o = (IF n <= c.i_out THEN c.i_out - n ELSE c.i_out - n + c.size + 1)
        BY <1>1, <2>1, Places
    <2>. HIDE DEF o
    <2>3. InOrder(c.size, c.used + n, c.i_in, o, c.i_rep)
        BY <1>1, <1>4, <2>2, OrderMoves
    <2>. DEFINE m == c.used + n
    <2>4. wound_back(c, n) = [ c EXCEPT !.used = m, !.i_out = o ]
        BY DEF wound_back, o
    <2>. HIDE DEF m
    <2>5. Sound([ c EXCEPT !.used = m, !.i_out = o ])
        BY <1>2, <2>3 DEF m
    <2>. QED  BY <2>4, <2>5
<1>. QED  BY <1>3, <1>4

(***************************************************************************)
(* Scanning for lines                                                      *)
(***************************************************************************)
Scans == [ n : Nat, m : Nat, l : Int, chars : Int, lines : Int, stop : BOOLEAN ]

(* The fold of a scan, written out.                                        *)
Scanned(start, bytes, incl) ==
    (CHOOSE g : g = [ p \in SUBSET DOMAIN bytes |->
        IF p = {} THEN start ELSE scan_step(g[p \ {Max(p)}], bytes[Max(p)], incl) ])[DOMAIN bytes]

(* No step sees, or takes for the end of a line, more than one byte more.  *)
LEMMA StepSees ==
    ASSUME NEW s \in Scans, NEW byte, NEW incl \in {0, 1}
    PROVE  /\ scan_step(s, byte, incl) \in Scans
           /\ \A k \in Nat : s.n <= k /\ s.m <= k =>
                scan_step(s, byte, incl).n <= k + 1 /\ scan_step(s, byte, incl).m <= k + 1
<1>. DEFINE nl    == byte = newline
            chars == IF s.chars > 0 THEN s.chars - 1 ELSE s.chars
            lines == IF nl /\ s.lines > 0 THEN s.lines - 1 ELSE s.lines
            m     == IF nl THEN s.n + incl ELSE s.m
            l     == IF nl THEN s.l + 1 ELSE s.l
            stop  == chars = 0 \/ lines = 0
            t     == [ n |-> s.n + 1, m |-> m, l |-> l, chars |-> chars, lines |-> lines, stop |-> stop ]
<1>1. s.n \in Nat /\ s.m \in Nat /\ s.l \in Int /\ s.chars \in Int /\ s.lines \in Int
    BY DEF Scans
<1>2. chars \in Int /\ lines \in Int /\ m \in Nat /\ l \in Int /\ s.n + 1 \in Nat /\ stop \in BOOLEAN
    BY <1>1
<1>3. scan_step(s, byte, incl) = IF s.stop THEN s ELSE t
    BY DEF scan_step
<1>4. \A k \in Nat : s.n <= k /\ s.m <= k => s.n <= k + 1 /\ s.m <= k + 1 /\ s.n + 1 <= k + 1 /\ m <= k + 1
    BY <1>1
<1>. HIDE DEF m, l, chars, lines, stop
<1>5. t \in Scans /\ t.n = s.n + 1 /\ t.m = m
    BY <1>2 DEF Scans
<1>. HIDE DEF t
<1>. QED  BY <1>3, <1>4, <1>5

(* A scan sees no more bytes than there are.                               *)
LEMMA ScanBounds ==
    ASSUME NEW start \in Scans, start.n = 0, start.m = 0,
           NEW bytes \in Seq(Stored), NEW incl \in {0, 1}
    PROVE  /\ Scanned(start, bytes, incl) \in Scans
           /\ Scanned(start, bytes, incl).n \in 0..Len(bytes)
           /\ Scanned(start, bytes, incl).m \in 0..Len(bytes)
<1>. DEFINE n    == Len(bytes)
            step == [ i \in 1..n |-> [ s \in Scans |-> scan_step(s, bytes[i], incl) ] ]
            acc  == CHOOSE g : g = [ p \in SUBSET DOMAIN bytes |->
                       IF p = {} THEN start ELSE scan_step(g[p \ {Max(p)}], bytes[Max(p)], incl) ]
<1>1. n \in Nat /\ DOMAIN bytes = 1..n
    OBVIOUS
<1>2. step \in [1..n -> [Scans -> Scans]]
    <2>1. \A i \in 1..n : \A s \in Scans : scan_step(s, bytes[i], incl) \in Scans
        BY StepSees
    <2>. QED  BY <2>1
<1>3. Scanned(start, bytes, incl) = acc[DOMAIN bytes]
    BY DEF Scanned
<1>4. \E g : g = [ p \in SUBSET DOMAIN bytes |->
                       IF p = {} THEN start ELSE scan_step(g[p \ {Max(p)}], bytes[Max(p)], incl) ]
    <2>. HIDE DEF step, n
    <2>1. PICK iter : TakesLast(iter, Scans, start, n, step)
        BY <1>1, <1>2, FoldRuns
    <2>2. /\ iter \in [SUBSET (1..n) -> Scans]
          /\ \A p \in SUBSET (1..n) :
               iter[p] = IF p = {} THEN start ELSE step[Max(p)][iter[p \ {Max(p)}]]
        BY <2>1 DEF TakesLast
    <2>3. ASSUME NEW p \in SUBSET (1..n), p # {}
          PROVE  iter[p] = scan_step(iter[p \ {Max(p)}], bytes[Max(p)], incl)
        <3>1. Max(p) \in 1..n
            BY <1>1, <2>3, MaxIn
        <3>2. p \ {Max(p)} \in SUBSET (1..n)
            OBVIOUS
        <3>. HIDE DEF Max
        <3>3. iter[p \ {Max(p)}] \in Scans
            BY <2>2, <3>2
        <3>4. iter[p] = step[Max(p)][iter[p \ {Max(p)}]]
            BY <2>2, <2>3
        <3>. QED  BY <3>1, <3>3, <3>4 DEF step
    <2>4. iter = [ p \in SUBSET DOMAIN bytes |->
                     IF p = {} THEN start ELSE scan_step(iter[p \ {Max(p)}], bytes[Max(p)], incl) ]
        BY <1>1, <2>2, <2>3
    <2>. QED  BY <2>4
<1>5. acc = [ p \in SUBSET DOMAIN bytes |->
               IF p = {} THEN start ELSE scan_step(acc[p \ {Max(p)}], bytes[Max(p)], incl) ]
    BY <1>4
<1>. HIDE DEF acc
<1>6. IsReached(acc[1..n], Scans, start, n, step)
    <2>1. acc[{}] = start
        BY <1>5
    <2>2. ASSUME NEW i \in 1..n, acc[1..i - 1] \in Scans
          PROVE  acc[1..i] = step[i][acc[1..i - 1]]
        <3>1. Max(1..i) = i /\ (1..i) \ {i} = 1..i - 1 /\ 1..i # {}
            BY MaxUpTo
        <3>2. 1..i \in SUBSET DOMAIN bytes
            BY <1>1
        <3>. HIDE DEF Max
        <3>3. acc[1..i] = scan_step(acc[1..i - 1], bytes[i], incl)
            BY <1>1, <1>5, <3>1, <3>2
        <3>. QED  BY <2>2, <3>3
    <2>. HIDE DEF step, n
    <2>3. GoesOn(acc, Scans, start, n, step)
        BY <2>1, <2>2 DEF GoesOn
    <2>. QED  BY <1>1, <1>2, <2>3, FoldValues
<1>7. PICK h \in [0..n -> Scans] : h[0] = start /\ h[n] = acc[1..n] /\ \A i \in 1..n : h[i] = step[i][h[i - 1]]
    <2>. HIDE DEF step, n
    <2>. QED  BY <1>6 DEF IsReached, GoesUp
<1>. DEFINE I == { k \in 0..n : h[k].n <= k /\ h[k].m <= k }
<1>8. 0 \in I
    BY <1>1, <1>7
<1>9. ASSUME NEW k \in 0..n - 1, k \in I
      PROVE  k + 1 \in I
    <2>1. k \in Nat /\ k + 1 \in 1..n /\ (k + 1) - 1 = k /\ k + 1 \in 0..n /\ h[k] \in Scans
        BY <1>1
    <2>2. h[k + 1] = step[k + 1][h[k]]
        <3>. HIDE DEF step, n
        <3>. QED  BY <1>7, <2>1
    <2>3. h[k + 1] = scan_step(h[k], bytes[k + 1], incl)
        BY <2>1, <2>2
    <2>4. h[k].n <= k /\ h[k].m <= k
        BY <1>9
    <2>. HIDE DEF step
    <2>5. h[k + 1].n <= k + 1 /\ h[k + 1].m <= k + 1
        BY <2>1, <2>3, <2>4, StepSees
    <2>. QED  BY <2>1, <2>5
<1>10. I = 0..n
    <2>. HIDE DEF n, step
    <2>1. I \in SUBSET (0..n)
        OBVIOUS
    <2>. HIDE DEF I
    <2>. QED  BY <1>1, <1>8, <1>9, <2>1, UpTo
<1>11. h[n] \in Scans /\ h[n].n <= n /\ h[n].m <= n
    <2>1. n \in 0..n
        BY <1>1
    <2>. HIDE DEF n, step
    <2>. QED  BY <1>7, <1>10, <2>1
<1>12. h[n].n \in Nat /\ h[n].m \in Nat
    BY <1>11 DEF Scans
<1>13. h[n] = Scanned(start, bytes, incl)
    BY <1>1, <1>3, <1>7
<1>. HIDE DEF n
<1>. QED  BY <1>1, <1>11, <1>12, <1>13 DEF n

(* The last bytes of the lines that are found are bytes that are there.    *)
LEMMA UnreadLine ==
    ASSUME NEW c, Sound(c), NEW chars \in Int, NEW lines \in Int
    PROVE  cbuf_find_unread_line(c, chars, lines).n \in 0..c.used
<1>. DEFINE start == scan_start(IF lines > 0 THEN -1 ELSE chars, lines, 0)
            s     == Scanned(start, unread(c), 1)
            r     == IF (lines = -1 /\ chars <= 0) \/ c.used = 0 \/ s.lines > 0
                     THEN [ n |-> 0, lines |-> 0 ]
                     ELSE [ n |-> s.m, lines |-> s.l ]
<1>1. cbuf_find_unread_line(c, chars, lines) = r
    BY Zenon DEF cbuf_find_unread_line, Scanned, FoldLeft, MapThenFoldSet
<1>2. start \in Scans /\ start.n = 0 /\ start.m = 0
    BY DEF scan_start, Scans
<1>3. c.used \in Nat /\ unread(c) \in Seq(Stored) /\ Len(unread(c)) = c.used
    BY Fields, StretchType DEF unread
<1>. HIDE DEF start
<1>4. s.m \in 0..c.used
    BY <1>2, <1>3, ScanBounds
<1>. HIDE DEF s
<1>. QED  BY <1>1, <1>3, <1>4

(* So it is of those that can be replayed.                                 *)
LEMMA ReplayLine ==
    ASSUME NEW c, Sound(c), NEW chars \in Int, NEW lines \in Int
    PROVE  cbuf_find_replay_line(c, chars, lines).n \in 0..reused(c)
<1>. DEFINE ends  == replay(c) # << >> /\ Last(replay(c)) = newline
            start == scan_start(
                   IF lines > 0 THEN IF ends THEN -1 ELSE -2
                   ELSE IF ends THEN chars + 1 ELSE chars,
                   IF lines > 0 /\ ends THEN lines + 1 ELSE lines,
                   IF ends THEN -1 ELSE 0)
            bytes == Reverse(replay(c))
            s     == Scanned(start, bytes, 0)
            first == ~c.got_wrap /\ (s.chars > 0 \/ s.lines > 0)
            want  == IF first /\ s.lines > 0 THEN s.lines - 1 ELSE s.lines
            nl    == IF ends THEN 0 ELSE 1
            r     == IF (lines = -1 /\ chars <= 0) \/ reused(c) = 0
                     THEN [ n |-> 0, lines |-> 0, nl |-> 0 ]
                     ELSE IF want > 0 THEN [ n |-> 0, lines |-> 0, nl |-> nl ]
                     ELSE [ n |-> IF first THEN s.n ELSE s.m,
                            lines |-> IF first THEN s.l + 1 ELSE s.l, nl |-> nl ]
<1>1. cbuf_find_replay_line(c, chars, lines) = r
    BY Zenon DEF cbuf_find_replay_line, Scanned, FoldLeft, MapThenFoldSet
<1>2. start \in Scans /\ start.n = 0 /\ start.m = 0
    <2>. HIDE DEF ends
    <2>. QED  BY DEF scan_start, Scans
<1>3. reused(c) \in Nat /\ bytes \in Seq(Stored) /\ Len(bytes) = reused(c)
    <2>1. reused(c) \in Nat /\ replay(c) \in Seq(Stored) /\ Len(replay(c)) = reused(c)
        BY Fields, StretchType DEF replay
    <2>2. \A i \in 1..Len(replay(c)) : Len(replay(c)) - i + 1 \in 1..Len(replay(c))
        BY <2>1
    <2>3. \A i \in 1..Len(replay(c)) : replay(c)[Len(replay(c)) - i + 1] \in Stored
        BY <2>1, <2>2
    <2>. QED  BY <2>1, <2>3 DEF Reverse
<1>. HIDE DEF start, bytes
<1>4. s.n \in 0..reused(c) /\ s.m \in 0..reused(c)
    BY <1>2, <1>3, ScanBounds
<1>. HIDE DEF s, want, first, nl
<1>. QED  BY <1>1, <1>3, <1>4

(***************************************************************************)
(* The calls                                                               *)
(***************************************************************************)

(* No more is let in than is offered.                                      *)
LEMMA AdmittedType ==
    ASSUME NEW c, Sound(c), NEW len \in Nat
    PROVE  admitted(c, len) \in 0..len
<1>1. c.size \in Nat /\ c.used \in 0..c.size
    BY Fields
<1>2. c.size - c.used \in Nat
    BY <1>1
<1>. QED  BY <1>1, <1>2 DEF admitted, least

(* A write leaves the buffer sound.                                        *)
LEMMA WriterSound ==
    ASSUME NEW c, Sound(c), NEW len \in Nat, NEW src \in Seq(Stored), NEW none, NEW mem \in BOOLEAN
    PROVE  Sound(cbuf_writer(c, len, src, none, mem).c)
<1>. DEFINE d == make_room(c, len, mem)
            k == least(admitted(d, len), Len(src))
            s == SubSeq(src, 1, k)
<1>1. Sound(d)
    BY RoomSound
<1>. HIDE DEF d
<1>2. k \in 0..Len(src)
    BY <1>1, AdmittedType DEF least
<1>. HIDE DEF k
<1>3. s \in Seq(Stored)
    BY <1>2
<1>. HIDE DEF s
<1>4. Sound(took_in(d, s))
    BY <1>1, <1>3, TookInSound
<1>5. cbuf_writer(c, len, src, none, mem).c \in { d, took_in(d, s) }
    BY DEF cbuf_writer, answer, d, k, s
<1>. QED  BY <1>1, <1>4, <1>5

(* So does the call that writes a line.                                    *)
LEMMA WriteLineSound ==
    ASSUME NEW c, Sound(c), NEW str \in Seq(Stored), NEW mem \in BOOLEAN
    PROVE  Sound(cbuf_write_line(c, str, mem).c)
<1>. DEFINE s    == IF str # << >> /\ Last(str) = newline THEN str ELSE Append(str, newline)
            d    == make_room(c, Len(s), mem)
            cut  == most(0, Len(s) - d.size)
            rest == SubSeq(s, cut + 1, Len(s))
<1>1. s \in Seq(Stored) /\ Len(s) \in Nat
    <2>1. newline \in Stored
        BY CbufAssumption DEF Stored
    <2>2. Append(str, newline) \in Seq(Stored)
        BY <2>1
    <2>3. s \in Seq(Stored)
        BY <2>2
    <2>. HIDE DEF s
    <2>. QED  BY <2>3
<1>. HIDE DEF s
<1>2. Sound(d)
    BY <1>1, RoomSound
<1>. HIDE DEF d
<1>3. cut \in Nat
    BY <1>1, <1>2, Fields DEF most
<1>. HIDE DEF cut
<1>4. rest \in Seq(Stored)
    BY <1>1, <1>3
<1>. HIDE DEF rest
<1>5. Sound(took_in(d, rest))
    BY <1>2, <1>4, TookInSound
<1>6. cbuf_write_line(c, str, mem).c \in { d, took_in(d, rest) }
    BY DEF cbuf_write_line, answer, d, cut, rest, s
<1>. QED  BY <1>2, <1>5, <1>6

(* Each call that writes leaves the buffer sound.                          *)
LEMMA WritesSound ==
    ASSUME NEW c, Sound(c), NEW s \in Inputs, NEW mem \in BOOLEAN, NEW len \in Counts, NEW none
    PROVE  /\ Sound(cbuf_write(c, s, mem).c) /\ Sound(cbuf_write_line(c, s, mem).c)
           /\ Sound(cbuf_write_from_fd(c, len, s, none, mem).c)
<1>1. s \in Seq(Stored) /\ Len(s) \in Nat
    <2>1. s \in Seq(Bytes)
        BY CbufAssumption
    <2>. QED  BY <2>1 DEF Stored
<1>2. Sound(cbuf_write(c, s, mem).c)
    <2>1. Sound(cbuf_writer(c, Len(s), s, -1, mem).c)
        BY <1>1, WriterSound
    <2>. QED  BY <2>1 DEF cbuf_write, answer
<1>3. Sound(cbuf_write_line(c, s, mem).c)
    BY <1>1, WriteLineSound
<1>4. Sound(cbuf_write_from_fd(c, len, s, none, mem).c)
    <2>. DEFINE room == IF c.size = c.used THEN Chunk ELSE c.size - c.used
                l    == IF len = -1 THEN room ELSE len
    <2>1. l \in Nat
        <3>1. c.size - c.used \in Nat /\ Chunk \in Nat
            BY Fields, CbufAssumption
        <3>2. len = -1 \/ len \in Nat
            BY CbufAssumption DEF Counts
        <3>. QED  BY <3>1, <3>2
    <2>. HIDE DEF l
    <2>2. Sound(cbuf_writer(c, l, s, none, mem).c)
        BY <1>1, <2>1, WriterSound
    <2>. QED  BY <2>2 DEF cbuf_write_from_fd, answer, l
<1>. QED  BY <1>2, <1>3, <1>4

(* What is read was unread, what is wound back can be replayed.            *)
LEMMA ReadSound ==
    ASSUME NEW c, Sound(c), NEW len \in Int, NEW take \in Int
    PROVE  /\ cbuf_reader(c, len, take).c = c /\ cbuf_replayer(c, len, take).c = c
           /\ Sound(consumed(cbuf_reader(c, len, take)).c)
<1>. DEFINE n == least(least(len, c.used), take)
            r == cbuf_reader(c, len, take)
<1>1. n \in Int /\ n <= c.used
    BY Fields DEF least
<1>2. r.c = c /\ r.n = n
    BY DEF cbuf_reader, answer
<1>3. cbuf_replayer(c, len, take).c = c
    BY DEF cbuf_replayer, answer
<1>. HIDE DEF n
<1>4. n > 0 => Sound(cbuf_dropper(c, n))
    BY <1>1, MoveSound
<1>5. consumed(r).c = IF n > 0 THEN cbuf_dropper(c, n) ELSE c
    BY <1>2 DEF consumed, cbuf_reader, answer
<1>. QED  BY <1>2, <1>3, <1>4, <1>5

(* The calls that read, or only look.                                      *)
LEMMA ReadsSound ==
    ASSUME NEW c, Sound(c), NEW len \in Counts, NEW take \in Int
    PROVE  /\ cbuf_peek(c, len).c = c /\ cbuf_replay(c, len).c = c /\ Sound(cbuf_read(c, len).c)
           /\ cbuf_peek_to_fd(c, len, take).c = c /\ cbuf_replay_to_fd(c, len, take).c = c
           /\ Sound(cbuf_read_to_fd(c, len, take).c)
<1>1. len \in Int /\ c.used \in Int /\ c.size - c.used \in Int
    BY Fields, CbufAssumption DEF Counts
<1>2. cbuf_peek(c, len).c = c /\ cbuf_replay(c, len).c = c /\ Sound(cbuf_read(c, len).c)
    BY <1>1, ReadSound DEF cbuf_peek, cbuf_replay, cbuf_read
<1>3. cbuf_peek_to_fd(c, len, take).c = c /\ Sound(cbuf_read_to_fd(c, len, take).c)
    <2>. DEFINE l == IF len = -1 THEN c.used ELSE len
                t == put(c, l, c.used, take)
    <2>1. l \in Int /\ t \in Int
        BY <1>1 DEF put
    <2>. HIDE DEF l, t
    <2>2. cbuf_reader(c, l, t).c = c /\ Sound(consumed(cbuf_reader(c, l, t)).c)
        BY <2>1, ReadSound
    <2>. QED  BY <2>2 DEF cbuf_peek_to_fd, cbuf_read_to_fd, l, t
<1>4. cbuf_replay_to_fd(c, len, take).c = c
    BY DEF cbuf_replay_to_fd, cbuf_replayer, answer
<1>. QED  BY <1>2, <1>3, <1>4

(* The calls that move i_out.                                              *)
LEMMA MovesSound ==
    ASSUME NEW c, Sound(c), NEW len \in Counts
    PROVE  Sound(cbuf_drop(c, len).c) /\ Sound(cbuf_rewind(c, len).c)
<1>1. len \in Int /\ c.used \in Nat /\ reused(c) \in Nat
    BY Fields, CbufAssumption DEF Counts
<1>2. Sound(cbuf_drop(c, len).c)
    <2>. DEFINE n == IF len = -1 THEN c.used ELSE least(len, c.used)
    <2>1. n \in Int /\ n <= c.used
        BY <1>1 DEF least
    <2>. HIDE DEF n
    <2>2. n > 0 => Sound(cbuf_dropper(c, n))
        BY <2>1, MoveSound
    <2>. QED  BY <2>2 DEF cbuf_drop, answer, n
<1>3. Sound(cbuf_rewind(c, len).c)
    <2>. DEFINE n == IF len = -1 THEN reused(c) ELSE least(len, reused(c))
    <2>1. n \in Int /\ n <= reused(c)
        BY <1>1 DEF least
    <2>. HIDE DEF n
    <2>2. n > 0 => Sound(wound_back(c, n))
        BY <2>1, MoveSound
    <2>. QED  BY <2>2 DEF cbuf_rewind, answer, n
<1>. QED  BY <1>2, <1>3

(* The calls that find lines.                                              *)
LEMMA LinesSound ==
    ASSUME NEW c, Sound(c), NEW len \in Lens, NEW lines \in { -1, 1, 2 }
    PROVE  /\ Sound(cbuf_drop_line(c, len, lines).c) /\ cbuf_peek_line(c, len, lines).c = c
           /\ Sound(cbuf_read_line(c, len, lines).c) /\ cbuf_replay_line(c, len, lines).c = c
           /\ Sound(cbuf_rewind_line(c, len, lines).c)
<1>1. len \in Int /\ len - 1 \in Int /\ lines \in Int
    BY CbufAssumption
<1>2. Sound(cbuf_drop_line(c, len, lines).c)
    <2>. DEFINE n == cbuf_find_unread_line(c, len, lines).n
    <2>1. n \in 0..c.used
        BY <1>1, UnreadLine
    <2>. HIDE DEF n
    <2>2. Sound(cbuf_dropper(c, n))
        BY <2>1, Fields, MoveSound
    <2>. QED  BY <2>2 DEF cbuf_drop_line, answer, n
<1>3. cbuf_peek_line(c, len, lines).c = c /\ Sound(cbuf_read_line(c, len, lines).c)
    <2>. DEFINE n == cbuf_find_unread_line(c, len - 1, lines).n
                r == cbuf_peek_line(c, len, lines)
    <2>1. n \in 0..c.used
        BY <1>1, UnreadLine
    <2>2. r.c = c /\ r.n = n
        BY DEF cbuf_peek_line, answer
    <2>. HIDE DEF n
    <2>3. Sound(cbuf_dropper(c, n))
        BY <2>1, Fields, MoveSound
    <2>4. consumed(r).c \in { c, cbuf_dropper(c, n) }
        BY <2>2 DEF consumed, cbuf_peek_line, answer
    <2>. QED  BY <2>2, <2>3, <2>4 DEF cbuf_read_line
<1>4. cbuf_replay_line(c, len, lines).c = c
    BY DEF cbuf_replay_line, answer
<1>5. Sound(cbuf_rewind_line(c, len, lines).c)
    <2>. DEFINE n == cbuf_find_replay_line(c, len, lines).n
    <2>1. n \in 0..reused(c)
        BY <1>1, ReplayLine
    <2>. HIDE DEF n
    <2>2. Sound(wound_back(c, n))
        BY <2>1, Fields, MoveSound
    <2>. QED  BY <2>2 DEF cbuf_rewind_line, answer, n
<1>. QED  BY <1>2, <1>3, <1>4, <1>5

(* A copy leaves the destination sound, and a move drops no more from the  *)
(* source than it holds.                                                   *)
LEMMA CopierSound ==
    ASSUME NEW src, Sound(src), NEW dst, Sound(dst), NEW len \in Nat, NEW mem \in BOOLEAN
    PROVE  /\ Sound(cbuf_copier(src, dst, len, mem).c)
           /\ cbuf_copier(src, dst, len, mem).n \in Int
           /\ cbuf_copier(src, dst, len, mem).n <= src.used
<1>. DEFINE l == least(len, src.used)
            d == make_room(dst, l, mem)
            a == admitted(d, l)
            i == fwd(src, src.i_out, most(0, a - d.size))
            n == least(a, d.size)
            s == stretch(src, i, n)
            r == cbuf_copier(src, dst, len, mem)
<1>1. src.used \in Nat /\ src.i_out \in 0..src.size
    BY Fields
<1>2. l \in Nat /\ l <= src.used
    BY <1>1 DEF least
<1>. HIDE DEF l
<1>3. Sound(d) /\ d.size \in Nat
    BY <1>2, RoomSound, Fields
<1>. HIDE DEF d
<1>4. a \in 0..l
    BY <1>2, <1>3, AdmittedType
<1>5. r = IF l = 0 THEN answer(dst, 0, << >>, 0)
          ELSE IF a = 0 THEN answer(d, -1, << >>, 0)
          ELSE answer(took_in(d, s), a, << >>, most(0, a - d.size + d.used))
    BY DEF cbuf_copier, l, d
<1>. HIDE DEF a, r
<1>6. most(0, a - d.size) \in Nat /\ n \in Nat
    BY <1>2, <1>3, <1>4 DEF most, least
<1>7. i \in 0..src.size
    BY <1>1, <1>6, Places
<1>. HIDE DEF i, n
<1>8. s \in Seq(Stored)
    BY <1>6, <1>7, StretchType
<1>. HIDE DEF s
<1>9. Sound(took_in(d, s))
    BY <1>3, <1>8, TookInSound
<1>10. r.c \in { dst, d, took_in(d, s) } /\ r.n \in { 0, -1, a }
    BY <1>5 DEF answer
<1>11. r.n \in Int /\ r.n <= src.used
    BY <1>1, <1>2, <1>4, <1>10
<1>. QED  BY <1>3, <1>9, <1>10, <1>11 DEF r

(***************************************************************************)
(* Every step                                                              *)
(***************************************************************************)
(* The inductive invariant.                                                *)
AllSound == cb \in [Bufs -> Buffer] /\ \A b \in Bufs : Sound(cb[b])

(* A call that leaves its buffer sound leaves all of them sound.           *)
LEMMA ReturnsSound ==
    ASSUME AllSound, NEW b \in Bufs, NEW req, NEW r, Returns(b, req, r), Sound(r.c)
    PROVE  AllSound'
<1>1. cb' = [ cb EXCEPT ![b] = r.c ] /\ r.c \in Buffer
    BY DEF Returns, Sound
<1>2. cb' \in [Bufs -> Buffer] /\ \A d \in Bufs : cb'[d] = IF d = b THEN r.c ELSE cb[d]
    BY <1>1 DEF AllSound
<1>3. ASSUME NEW d \in Bufs PROVE Sound(cb'[d])
    BY <1>2 DEF AllSound
<1>. QED  BY <1>2, <1>3 DEF AllSound

(* So does every step.                                                     *)
LEMMA StepSound ==
    ASSUME AllSound, [CbufNext]_cbuf_vars
    PROVE  AllSound'
<1>1. ASSUME NEW b \in Bufs, Writes(b) PROVE AllSound'
    <2>1. PICK s \in Inputs, mem \in BOOLEAN :
              \/ Returns(b, << "write", s >>, cbuf_write(cb[b], s, mem))
              \/ Returns(b, << "write_line", s >>, cbuf_write_line(cb[b], s, mem))
              \/ \E len \in Counts, none \in { 0, -1 } :
                     Returns(b, << "write_from_fd", len, s >>, cbuf_write_from_fd(cb[b], len, s, none, mem))
        BY <1>1 DEF Writes
    <2>2. Sound(cb[b])
        BY DEF AllSound
    <2>3. CASE Returns(b, << "write", s >>, cbuf_write(cb[b], s, mem))
        <3>1. -1 \in Counts
            BY DEF Counts
        <3>2. Sound(cbuf_write(cb[b], s, mem).c)
            BY <2>2, <3>1, WritesSound
        <3>. QED  BY <2>3, <3>2, ReturnsSound
    <2>4. CASE Returns(b, << "write_line", s >>, cbuf_write_line(cb[b], s, mem))
        <3>1. -1 \in Counts
            BY DEF Counts
        <3>2. Sound(cbuf_write_line(cb[b], s, mem).c)
            BY <2>2, <3>1, WritesSound
        <3>. QED  BY <2>4, <3>2, ReturnsSound
    <2>5. ASSUME NEW len \in Counts, NEW none \in { 0, -1 },
                 Returns(b, << "write_from_fd", len, s >>, cbuf_write_from_fd(cb[b], len, s, none, mem))
          PROVE  AllSound'
        <3>1. Sound(cbuf_write_from_fd(cb[b], len, s, none, mem).c)
            BY <2>2, WritesSound
        <3>. QED  BY <2>5, <3>1, ReturnsSound
    <2>. QED  BY <2>1, <2>3, <2>4, <2>5
<1>2. ASSUME NEW b \in Bufs, Reads(b) PROVE AllSound'
    <2>1. PICK len \in Lens :
              \/ Returns(b, << "peek", len >>, cbuf_peek(cb[b], len))
              \/ Returns(b, << "read", len >>, cbuf_read(cb[b], len))
              \/ Returns(b, << "replay", len >>, cbuf_replay(cb[b], len))
        BY <1>2 DEF Reads
    <2>2. Sound(cb[b]) /\ len \in Counts /\ 1 \in Int
        BY DEF AllSound, Counts
    <2>3. /\ Sound(cbuf_peek(cb[b], len).c) /\ Sound(cbuf_read(cb[b], len).c)
          /\ Sound(cbuf_replay(cb[b], len).c)
        BY <2>2, ReadsSound
    <2>. QED  BY <2>1, <2>3, ReturnsSound
<1>3. ASSUME NEW b \in Bufs, Moves(b) PROVE AllSound'
    <2>1. PICK len \in Counts :
              \/ Returns(b, << "drop", len >>, cbuf_drop(cb[b], len))
              \/ Returns(b, << "rewind", len >>, cbuf_rewind(cb[b], len))
        BY <1>3 DEF Moves
    <2>2. Sound(cb[b])
        BY DEF AllSound
    <2>3. Sound(cbuf_drop(cb[b], len).c) /\ Sound(cbuf_rewind(cb[b], len).c)
        BY <2>2, MovesSound
    <2>. QED  BY <2>1, <2>3, ReturnsSound
<1>4. ASSUME NEW b \in Bufs, ReadsToFd(b) PROVE AllSound'
    <2>1. PICK len \in Counts, take \in (1..MaxSize) \cup { -1 } :
              \/ Returns(b, << "peek_to_fd", len >>, cbuf_peek_to_fd(cb[b], len, take))
              \/ Returns(b, << "read_to_fd", len >>, cbuf_read_to_fd(cb[b], len, take))
              \/ Returns(b, << "replay_to_fd", len >>, cbuf_replay_to_fd(cb[b], len, take))
        BY <1>4 DEF ReadsToFd
    <2>2. Sound(cb[b]) /\ take \in Int
        BY DEF AllSound
    <2>3. /\ Sound(cbuf_peek_to_fd(cb[b], len, take).c) /\ Sound(cbuf_read_to_fd(cb[b], len, take).c)
          /\ Sound(cbuf_replay_to_fd(cb[b], len, take).c)
        BY <2>2, ReadsSound
    <2>. QED  BY <2>1, <2>3, ReturnsSound
<1>5. ASSUME NEW b \in Bufs, Lines(b) PROVE AllSound'
    <2>1. PICK len \in Lens, lines \in { -1, 1, 2 } :
              \/ Returns(b, << "drop_line", len, lines >>, cbuf_drop_line(cb[b], len, lines))
              \/ Returns(b, << "peek_line", len, lines >>, cbuf_peek_line(cb[b], len, lines))
              \/ Returns(b, << "read_line", len, lines >>, cbuf_read_line(cb[b], len, lines))
              \/ Returns(b, << "replay_line", len, lines >>, cbuf_replay_line(cb[b], len, lines))
              \/ Returns(b, << "rewind_line", len, lines >>, cbuf_rewind_line(cb[b], len, lines))
        BY <1>5 DEF Lines
    <2>2. Sound(cb[b])
        BY DEF AllSound
    <2>3. /\ Sound(cbuf_drop_line(cb[b], len, lines).c) /\ Sound(cbuf_peek_line(cb[b], len, lines).c)
          /\ Sound(cbuf_read_line(cb[b], len, lines).c) /\ Sound(cbuf_replay_line(cb[b], len, lines).c)
          /\ Sound(cbuf_rewind_line(cb[b], len, lines).c)
        BY <2>2, LinesSound
    <2>. QED  BY <2>1, <2>3, ReturnsSound
<1>6. ASSUME NEW b \in Bufs, Settings(b) PROVE AllSound'
    <2>1. Sound(cb[b])
        BY DEF AllSound
    <2>2. CASE Returns(b, << "flush" >>, answer(cbuf_flush(cb[b]), 0, << >>, 0))
        <3>1. Sound(answer(cbuf_flush(cb[b]), 0, << >>, 0).c)
            BY <2>1, FlushSound DEF answer
        <3>. QED  BY <2>2, <3>1, ReturnsSound
    <2>3. ASSUME NEW o \in Overwrite,
                 Returns(b, << "opt_set" >>, answer([ cb[b] EXCEPT !.overwrite = o ], 0, << >>, 0))
          PROVE  AllSound'
        <3>1. Sound([ cb[b] EXCEPT !.overwrite = o ])
            BY <2>1, FlushSound
        <3>2. Sound(answer([ cb[b] EXCEPT !.overwrite = o ], 0, << >>, 0).c)
            BY <3>1 DEF answer
        <3>. QED  BY <2>3, <3>2, ReturnsSound
    <2>. QED  BY <1>6, <2>2, <2>3 DEF Settings
<1>7. ASSUME NEW b \in Bufs, Measures(b) PROVE AllSound'
    <2>1. PICK req, n : Returns(b, req, answer(cb[b], n, << >>, 0))
        BY <1>7 DEF Measures
    <2>2. Sound(answer(cb[b], n, << >>, 0).c)
        BY DEF AllSound, answer
    <2>. QED  BY <2>1, <2>2, ReturnsSound
<1>8. ASSUME NEW b \in Bufs, NEW d \in Bufs, Transfers(b, d) PROVE AllSound'
    <2>1. PICK len \in Counts, mem \in BOOLEAN :
              LET l == IF len = -1 THEN cb[b].used ELSE len
                  r == cbuf_copier(cb[b], cb[d], l, mem)
              IN /\ b # d
                 /\ \/ cb' = [ cb EXCEPT ![d] = r.c ]
                    \/ cb' = [ cb EXCEPT ![d] = r.c,
                                         ![b] = IF r.n > 0 THEN cbuf_dropper(@, r.n) ELSE @ ]
        BY <1>8 DEF Transfers
    <2>. DEFINE l == IF len = -1 THEN cb[b].used ELSE len
                r == cbuf_copier(cb[b], cb[d], l, mem)
                e == IF r.n > 0 THEN cbuf_dropper(cb[b], r.n) ELSE cb[b]
    <2>2. Sound(cb[b]) /\ Sound(cb[d]) /\ cb \in [Bufs -> Buffer]
        BY DEF AllSound
    <2>3. l \in Nat
        <3>1. cb[b].used \in Nat
            BY <2>2, Fields
        <3>. QED  BY <3>1, CbufAssumption DEF Counts
    <2>4. /\ b # d
          /\ cb' = [ cb EXCEPT ![d] = r.c ] \/ cb' = [ cb EXCEPT ![d] = r.c, ![b] = e ]
        BY <2>1, <2>2
    <2>. HIDE DEF l
    <2>5. Sound(r.c) /\ r.n \in Int /\ r.n <= cb[b].used
        BY <2>2, <2>3, CopierSound
    <2>. HIDE DEF r
    <2>6. Sound(e)
        <3>1. r.n > 0 => Sound(cbuf_dropper(cb[b], r.n))
            BY <2>2, <2>5, MoveSound
        <3>. QED  BY <2>2, <3>1
    <2>. HIDE DEF e
    <2>7. r.c \in Buffer /\ e \in Buffer
        BY <2>5, <2>6 DEF Sound
    <2>8. cb' \in [Bufs -> Buffer] /\ \A x \in Bufs : cb'[x] \in { cb[x], r.c, e }
        BY <2>2, <2>4, <2>7
    <2>9. ASSUME NEW x \in Bufs PROVE Sound(cb'[x])
        BY <2>5, <2>6, <2>8 DEF AllSound
    <2>. QED  BY <2>8, <2>9 DEF AllSound
<1>9. ASSUME UNCHANGED cbuf_vars PROVE AllSound'
    <2>1. cb' = cb
        BY <1>9 DEF cbuf_vars
    <2>. QED  BY <2>1 DEF AllSound
<1>. QED  BY <1>1, <1>2, <1>3, <1>4, <1>5, <1>6, <1>7, <1>8, <1>9 DEF CbufNext

(* Whatever calls are made, with whatever sizes, the assertion at the      *)
(* begin and the end of every call of cbuf.c is true.                      *)
THEOREM BuffersAreValid == CbufSpec => []Valid
<1>1. CbufInit => AllSound
    <2>. SUFFICES ASSUME CbufInit PROVE AllSound
        OBVIOUS
    <2>1. Sound(cbuf_create) /\ cbuf_create \in Buffer
        BY CreateSound DEF Sound
    <2>. QED  BY <2>1 DEF CbufInit, AllSound
<1>2. AllSound /\ [CbufNext]_cbuf_vars => AllSound'
    BY StepSound
<1>3. AllSound => Valid
    BY SoundIsValid DEF AllSound
<1>. QED  BY <1>1, <1>2, <1>3, PTL DEF CbufSpec

(***************************************************************************)
(* A list and the nodes it links                                           *)
(***************************************************************************)
Ref == Node \cup {nil}
Addrs == Node \cup {"head"}
Cursor == [ live : BOOLEAN, pos : Ref, prev : Addrs ]
Records ==
    [ head : Ref, tail : Addrs, count : Nat, node : [Node -> [ data : Nat, next : Ref ]],
      free : Seq(Node), it : [Iterators -> Cursor] ]

(* The place k of the nodes s, and the address of the pointer after j.     *)
at(s, k) == IF k \in 1..Len(s) THEN s[k] ELSE nil
addr(s, j) == IF j = 0 THEN "head" ELSE s[j]

Distinct(s) == \A j, k \in 1..Len(s) : s[j] = s[k] => j = k

(* The list links the nodes s in this order, and its tail is the last.     *)
Links(l, s) ==
    /\ l.count = Len(s) /\ l.head = at(s, 1) /\ l.tail = addr(s, Len(s))
    /\ \A k \in 1..Len(s) : l.node[s[k]].next = at(s, k + 1)

(* Each node is on one of two sequences, once.                             *)
Among(s, p) == \E k \in 1..Len(s) : s[k] = p
Split(s, f) ==
    /\ Distinct(s) /\ Distinct(f)
    /\ \A p \in Node : Among(s, p) <=> ~Among(f, p)

(* An iterator has passed j nodes and is to return the next; or, when it   *)
(* has just returned that one, the one after it.                           *)
Walks(i, s) ==
    \E j \in 0..Len(s) :
        /\ i.prev = addr(s, j)
        /\ i.pos = at(s, j + 1) \/ (j < Len(s) /\ i.pos = at(s, j + 2))

IsList(l, s) ==
    /\ l \in Records /\ s \in Seq(Node)
    /\ Links(l, s) /\ Split(s, l.free)
    /\ \A i \in Iterators : l.it[i].live => Walks(l.it[i], s)

WellFormed(l) == \E s \in Seq(Node) : IsList(l, s)

(* What an address in the list leads to.                                   *)
LEMMA Leads ==
    ASSUME NEW l, NEW s, IsList(l, s), NEW j \in 0..Len(s)
    PROVE  /\ deref(l, addr(s, j)) = at(s, j + 1) /\ at(s, j + 1) \in Ref /\ addr(s, j) \in Addrs
           /\ j # 0 => s[j] \in Node /\ addr(s, j) # "head"
<1>1. s \in Seq(Node) /\ Links(l, s) /\ Len(s) \in Nat
    BY DEF IsList
<1>2. \A k \in 1..Len(s) : s[k] \in Node
    BY <1>1
<1>3. CASE j = 0
    BY <1>1, <1>2, <1>3 DEF Links, at, addr, deref, Ref, Addrs
<1>4. CASE j # 0
    <2>1. j \in 1..Len(s)
        BY <1>1, <1>4
    <2>2. s[j] # "head"
        BY <1>2, <2>1, ListAssumption
    <2>. QED  BY <1>1, <1>2, <1>4, <2>1, <2>2 DEF Links, at, addr, deref, Ref, Addrs
<1>. QED  BY <1>3, <1>4

(* chain follows the pointers.                                             *)
LEMMA ChainIs ==
    ASSUME NEW l, NEW s, IsList(l, s)
    PROVE  chain(l) = s
<1>. DEFINE n   == l.count
            nth == CHOOSE g : g = [ k \in 0..n |-> IF k = 0 THEN l.head ELSE l.node[g[k - 1]].next ]
            h   == [ k \in 0..n |-> at(s, k + 1) ]
            I   == { k \in 0..n : nth[k] = h[k] }
<1>1. s \in Seq(Node) /\ n = Len(s) /\ n \in Nat /\ l.head = at(s, 1)
      /\ \A k \in 1..n : l.node[s[k]].next = at(s, k + 1)
    BY DEF IsList, Links
<1>2. chain(l) = [ k \in 1..n |-> nth[k - 1] ]
    BY DEF chain
<1>. HIDE DEF n
<1>3. \A k \in 1..n : k - 1 \in 0..n /\ k \in 0..n /\ (k - 1) + 1 = k /\ at(s, k) = s[k]
    BY <1>1 DEF at
<1>4. \A k \in 1..n : h[k] = l.node[h[k - 1]].next
    BY <1>1, <1>3
<1>5. h[0] = l.head
    BY <1>1
<1>6. h = [ k \in 0..n |-> IF k = 0 THEN l.head ELSE l.node[h[k - 1]].next ]
    <2>1. \A k \in 0..n : k = 0 \/ k \in 1..n
        BY <1>1
    <2>. HIDE DEF h
    <2>2. \A k \in 0..n : h[k] = IF k = 0 THEN l.head ELSE l.node[h[k - 1]].next
        BY <1>4, <1>5, <2>1
    <2>3. h = [ k \in 0..n |-> h[k] ]
        BY DEF h
    <2>. QED  BY <2>2, <2>3
<1>7. nth = [ k \in 0..n |-> IF k = 0 THEN l.head ELSE l.node[nth[k - 1]].next ]
    <2>1. \E g : g = [ k \in 0..n |-> IF k = 0 THEN l.head ELSE l.node[g[k - 1]].next ]
        <3>. HIDE DEF h
        <3>. QED  BY <1>6
    <2>. QED  BY <2>1
<1>. HIDE DEF nth, h
<1>8. I = 0..n
    <2>1. 0 \in I
        BY <1>1, <1>5, <1>7
    <2>2. ASSUME NEW k \in 0..n - 1, k \in I
          PROVE  k + 1 \in I
        <3>1. k + 1 \in 1..n /\ k + 1 \in 0..n /\ (k + 1) - 1 = k /\ k + 1 # 0
            BY <1>1
        <3>2. nth[k + 1] = l.node[nth[k]].next /\ h[k + 1] = l.node[h[k]].next
            BY <1>4, <1>7, <3>1
        <3>. QED  BY <2>2, <3>1, <3>2
    <2>3. I \in SUBSET (0..n)
        OBVIOUS
    <2>. HIDE DEF I
    <2>. QED  BY <1>1, <2>1, <2>2, <2>3, UpTo
<1>9. \A k \in 1..n : nth[k - 1] = s[k]
    <2>1. \A k \in 1..n : nth[k - 1] = h[k - 1]
        BY <1>3, <1>8
    <2>2. \A k \in 1..n : h[k - 1] = at(s, (k - 1) + 1)
        BY <1>3 DEF h
    <2>. QED  BY <1>3, <2>1, <2>2
<1>10. s = [ k \in 1..n |-> s[k] ]
    BY <1>1
<1>. QED  BY <1>2, <1>9, <1>10

(***************************************************************************)
(* A node goes in                                                          *)
(***************************************************************************)

(* The nodes s with p after the first j.                                   *)
spliced(s, j, p) == [ k \in 1..Len(s) + 1 |-> IF k <= j THEN s[k] ELSE IF k = j + 1 THEN p ELSE s[k - 1] ]

(* Where things are then.                                                  *)
LEMMA PutPlaces ==
    ASSUME NEW s \in Seq(Node), Distinct(s), NEW j \in 0..Len(s), NEW p \in Node, ~Among(s, p)
    PROVE  /\ spliced(s, j, p) \in Seq(Node) /\ Len(spliced(s, j, p)) = Len(s) + 1
           /\ Distinct(spliced(s, j, p))
           /\ \A q : Among(spliced(s, j, p), q) <=> Among(s, q) \/ q = p
           /\ \A k \in 1..j + 1 : at(spliced(s, j, p), k) = IF k = j + 1 THEN p ELSE at(s, k)
           /\ \A k \in j + 1..Len(s) + 1 : at(spliced(s, j, p), k + 1) = at(s, k)
<1>. DEFINE t == spliced(s, j, p)
            n == Len(s)
<1>1. n \in Nat /\ j \in Nat /\ j <= n /\ \A k \in 1..n : s[k] \in Node
    OBVIOUS
<1>2. \A k \in 1..n + 1 :
         t[k] = (IF k <= j THEN s[k] ELSE IF k = j + 1 THEN p ELSE s[k - 1]) /\ t[k] \in Node
    BY <1>1 DEF spliced
<1>3. t \in Seq(Node) /\ Len(t) = n + 1
    <2>1. t = [ k \in 1..n + 1 |-> t[k] ] /\ n + 1 \in Nat
        BY <1>1 DEF spliced
    <2>. HIDE DEF t
    <2>. QED  BY <1>2, <2>1
<1>. HIDE DEF t, n
<1>4. \A k \in 1..n : s[k] # p
    BY DEF Among, n
<1>5. Distinct(t)
    <2>1. \A a, b \in 1..n : s[a] = s[b] => a = b
        BY DEF Distinct, n
    <2>2. ASSUME NEW a \in 1..n + 1, NEW b \in 1..n + 1, t[a] = t[b]
          PROVE  a = b
        <3>. DEFINE f(k) == IF k <= j THEN k ELSE k - 1
        <3>1. \A k \in 1..n + 1 : k # j + 1 => f(k) \in 1..n /\ t[k] = s[f(k)]
            BY <1>1, <1>2
        <3>2. t[j + 1] = p
            BY <1>1, <1>2
        <3>3. CASE a = j + 1
            BY <1>4, <2>2, <3>1, <3>2, <3>3
        <3>4. CASE b = j + 1
            BY <1>4, <2>2, <3>1, <3>2, <3>4
        <3>5. CASE a # j + 1 /\ b # j + 1
            <4>1. f(a) = f(b)
                BY <2>1, <2>2, <3>1, <3>5
            <4>. QED  BY <1>1, <3>5, <4>1
        <3>. QED  BY <3>3, <3>4, <3>5
    <2>. QED  BY <1>3, <2>2 DEF Distinct
<1>6. ASSUME NEW q PROVE Among(t, q) <=> Among(s, q) \/ q = p
    <2>1. ASSUME NEW k \in 1..n + 1, t[k] = q PROVE Among(s, q) \/ q = p
        <3>1. k <= j => k \in 1..n
            BY <1>1
        <3>2. k > j + 1 => k - 1 \in 1..n
            BY <1>1
        <3>3. k <= j \/ k = j + 1 \/ k > j + 1
            BY <1>1
        <3>. QED  BY <1>1, <1>2, <2>1, <3>1, <3>2, <3>3 DEF Among, n
    <2>2. ASSUME NEW k \in 1..n, s[k] = q PROVE Among(t, q)
        <3>1. CASE k <= j
            <4>1. k \in 1..n + 1 /\ t[k] = q
                BY <1>1, <1>2, <2>2, <3>1
            <4>. QED  BY <1>3, <4>1 DEF Among
        <3>2. CASE k > j
            <4>1. k + 1 \in 1..n + 1 /\ ~(k + 1 <= j) /\ k + 1 # j + 1 /\ (k + 1) - 1 = k
                BY <1>1, <3>2
            <4>2. t[k + 1] = q
                BY <1>2, <2>2, <4>1
            <4>. QED  BY <1>3, <4>1, <4>2 DEF Among
        <3>. QED  BY <1>1, <3>1, <3>2
    <2>3. Among(t, p)
        <3>1. j + 1 \in 1..n + 1 /\ t[j + 1] = p
            BY <1>1, <1>2
        <3>. QED  BY <1>3, <3>1 DEF Among
    <2>. QED  BY <1>3, <2>1, <2>2, <2>3 DEF Among, n
<1>7. \A k \in 1..j + 1 : at(t, k) = IF k = j + 1 THEN p ELSE at(s, k)
    BY <1>1, <1>2, <1>3 DEF at, n
<1>8. \A k \in j + 1..n + 1 : at(t, k + 1) = at(s, k)
    <2>. SUFFICES ASSUME NEW k \in j + 1..n + 1 PROVE at(t, k + 1) = at(s, k)
        OBVIOUS
    <2>1. k \in Nat /\ ~(k + 1 <= j) /\ k + 1 # j + 1 /\ (k + 1) - 1 = k /\ (k + 1 \in 1..n + 1 <=> k \in 1..n)
        BY <1>1
    <2>. QED  BY <1>2, <1>3, <2>1 DEF at, n
<1>. QED  BY <1>3, <1>5, <1>6, <1>7, <1>8 DEF n, t

(* An iterator that has passed j nodes passes the new one, one that is to  *)
(* return what follows them returns it first.                              *)
LEMMA PutWalks ==
    ASSUME NEW s \in Seq(Node), Distinct(s), NEW j \in 0..Len(s), NEW p \in Node, ~Among(s, p),
           NEW i \in Cursor, Walks(i, s)
    PROVE  LET pp == addr(s, j)
               m  == IF i.prev = pp THEN [ i EXCEPT !.prev = p ]
                     ELSE IF i.pos = at(s, j + 1) THEN [ i EXCEPT !.pos = p ] ELSE i
           IN m \in Cursor /\ m.live = i.live /\ Walks(m, spliced(s, j, p))
<1>. DEFINE t  == spliced(s, j, p)
            n  == Len(s)
            pp == addr(s, j)
            m  == IF i.prev = pp THEN [ i EXCEPT !.prev = p ]
                  ELSE IF i.pos = at(s, j + 1) THEN [ i EXCEPT !.pos = p ] ELSE i
<1>1. n \in Nat /\ j \in Nat /\ j <= n /\ p \in Ref /\ p \in Addrs
    BY DEF Ref, Addrs
<1>2. /\ t \in Seq(Node) /\ Len(t) = n + 1
      /\ \A k \in 1..j + 1 : at(t, k) = IF k = j + 1 THEN p ELSE at(s, k)
      /\ \A k \in j + 1..n + 1 : at(t, k + 1) = at(s, k)
    BY PutPlaces
<1>3. \A k \in 0..n : /\ k # 0 => at(s, k) = s[k] /\ s[k] \in Node /\ s[k] # "head" /\ s[k] # nil
                      /\ at(s, n + 1) = nil /\ at(s, n + 2) = nil
    BY <1>1, ListAssumption DEF at
<1>4. \A a, b \in 1..n : s[a] = s[b] => a = b
    BY DEF Distinct
<1>5. /\ m \in Cursor /\ m.live = i.live
      /\ m.prev = IF i.prev = pp THEN p ELSE i.prev
      /\ m.pos = IF i.prev # pp /\ i.pos = at(s, j + 1) THEN p ELSE i.pos
    BY <1>1 DEF Cursor
<1>6. PICK q \in 0..n : i.prev = addr(s, q) /\ (i.pos = at(s, q + 1) \/ (q < n /\ i.pos = at(s, q + 2)))
    BY DEF Walks
<1>7. \A k \in 1..j : at(t, k) = t[k] /\ t[k] = s[k]
    BY <1>1, <1>2, <1>3 DEF at
<1>8. t[j + 1] = p
    BY <1>1, <1>2 DEF at
<1>9. \A k \in j + 1..n : t[k + 1] = s[k]
    BY <1>1, <1>2, <1>3 DEF at
<1>10. i.prev = pp <=> q = j
    BY <1>1, <1>3, <1>4, <1>6 DEF addr
<1>. HIDE DEF t, n, pp, m
<1>11. \E r \in 0..n + 1 : m.prev = addr(t, r) /\ (m.pos = at(t, r + 1) \/ (r < n + 1 /\ m.pos = at(t, r + 2)))
    <2>1. CASE q = j
        <3>1. m.prev = addr(t, j + 1) /\ m.pos = i.pos
            BY <1>1, <1>5, <1>8, <1>10, <2>1 DEF addr
        <3>2. at(s, q + 1) = at(t, (j + 1) + 1) /\ (q < n => at(s, q + 2) = at(t, (j + 1) + 2))
            <4>1. j + 1 \in j + 1..n + 1 /\ (q < n => j + 2 \in j + 1..n + 1 /\ (j + 2) + 1 = (j + 1) + 2)
                BY <1>1, <2>1
            <4>. QED  BY <1>2, <2>1, <4>1
        <3>3. j + 1 \in 0..n + 1 /\ (q < n => j + 1 < n + 1)
            BY <1>1, <2>1
        <3>. QED  BY <1>6, <3>1, <3>2, <3>3
    <2>2. CASE q < j
        <3>1. m.prev = addr(t, q)
            BY <1>1, <1>5, <1>7, <1>6, <1>10, <2>2 DEF addr
        <3>2. q + 1 \in 1..j /\ q + 1 \in 1..j + 1 /\ q + 1 # j + 1 /\ q \in 0..n + 1 /\ q < n + 1 /\ q + 1 \in 1..n
            BY <1>1, <2>2
        <3>3. at(t, q + 1) = at(s, q + 1)
            BY <1>2, <3>2
        <3>4. at(s, q + 1) # at(s, j + 1)
            <4>1. j + 1 \in 1..n \/ at(s, j + 1) = nil
                BY <1>1 DEF at, n
            <4>2. at(s, q + 1) = s[q + 1] /\ s[q + 1] # nil
                BY <1>3, <3>2
            <4>. QED  BY <1>3, <1>4, <3>2, <4>1, <4>2
        <3>5. CASE i.pos = at(s, q + 1)
            <4>1. m.pos = at(t, q + 1)
                BY <1>5, <3>3, <3>4, <3>5
            <4>. QED  BY <3>1, <3>2, <4>1
        <3>6. CASE i.pos = at(s, q + 2) /\ q + 2 = j + 1
            <4>1. m.pos = p /\ at(t, q + 2) = p
                BY <1>1, <1>2, <1>5, <1>10, <2>2, <3>6
            <4>. QED  BY <3>1, <3>2, <4>1
        <3>7. CASE i.pos = at(s, q + 2) /\ q + 2 # j + 1
            <4>1. q + 2 \in 1..j + 1 /\ q + 2 \in 1..n
                BY <1>1, <2>2, <3>7
            <4>2. at(t, q + 2) = at(s, q + 2)
                BY <1>2, <3>7, <4>1
            <4>3. at(s, q + 2) # at(s, j + 1)
                <5>1. j + 1 \in 1..n \/ at(s, j + 1) = nil
                    BY <1>1 DEF at, n
                <5>2. at(s, q + 2) = s[q + 2] /\ s[q + 2] # nil
                    BY <1>3, <4>1
                <5>. QED  BY <1>3, <1>4, <3>7, <4>1, <5>1, <5>2
            <4>4. m.pos = at(t, q + 2)
                BY <1>5, <3>7, <4>2, <4>3
            <4>. QED  BY <3>1, <3>2, <4>4
        <3>. QED  BY <1>6, <3>5, <3>6, <3>7
    <2>3. CASE q > j
        <3>1. q \in j + 1..n /\ q \in 1..n /\ q # 0 /\ q + 1 # 0 /\ q + 1 \in 0..n + 1
            BY <1>1, <2>3
        <3>2. m.prev = addr(t, q + 1)
            BY <1>5, <1>6, <1>9, <1>10, <2>3, <3>1 DEF addr
        <3>3. j + 1 \in 1..n /\ at(s, j + 1) = s[j + 1] /\ s[j + 1] # nil
            BY <1>1, <1>3, <2>3
        <3>4. \A k \in j + 2..n + 2 : at(s, k) # s[j + 1]
            BY <1>1, <1>3, <1>4, <3>3 DEF at, n
        <3>5. q + 1 \in j + 2..n + 2 /\ (q < n => q + 2 \in j + 2..n + 2)
            BY <1>1, <2>3
        <3>6. m.pos = i.pos
            BY <1>5, <1>6, <3>3, <3>4, <3>5
        <3>7. at(t, (q + 1) + 1) = at(s, q + 1)
            <4>1. q + 1 \in j + 1..n + 1
                BY <1>1, <2>3
            <4>. QED  BY <1>2, <4>1
        <3>8. q < n => at(t, (q + 1) + 2) = at(s, q + 2) /\ q + 1 < n + 1
            <4>1. q < n => q + 2 \in j + 1..n + 1 /\ (q + 2) + 1 = (q + 1) + 2 /\ q + 1 < n + 1
                BY <1>1, <2>3
            <4>. QED  BY <1>2, <4>1
        <3>. QED  BY <1>6, <3>1, <3>2, <3>6, <3>7, <3>8
    <2>. QED  BY <1>1, <2>1, <2>2, <2>3
<1>12. Walks(m, t)
    BY <1>2, <1>11 DEF Walks
<1>. QED  BY <1>5, <1>12 DEF t, pp, m

(* list_node_create, after the first j nodes.                              *)
LEMMA CreateList ==
    ASSUME NEW l, NEW s, IsList(l, s), NEW j \in 0..Len(s), NEW x \in Nat
    PROVE  WellFormed(list_node_create(l, addr(s, j), x))
<1>. DEFINE pp == addr(s, j)
            p  == Head(l.free)
            nx == deref(l, pp)
            m  == [ l EXCEPT !.free = Tail(@), !.count = @ + 1, !.node[p] = [ data |-> x, next |-> nx ],
                             !.tail = IF nx = nil THEN p ELSE @ ]
            o  == point(m, pp, p)
            mv(i) == IF i.prev = pp THEN [ i EXCEPT !.prev = p ]
                     ELSE IF i.pos = nx THEN [ i EXCEPT !.pos = p ] ELSE i
            r  == [ o EXCEPT !.it = [ i \in Iterators |-> IF o.it[i].live THEN mv(o.it[i]) ELSE o.it[i] ] ]
            t  == spliced(s, j, p)
<1>1. list_node_create(l, pp, x) = IF l.free = << >> THEN l ELSE r
    BY DEF list_node_create, each_iterator
<1>2. CASE l.free = << >>
    BY <1>1, <1>2 DEF WellFormed, IsList
<1>3. CASE l.free # << >>
    <2>1. /\ l \in Records /\ s \in Seq(Node) /\ Links(l, s) /\ Split(s, l.free) /\ Len(s) \in Nat
          /\ \A i \in Iterators : l.it[i].live => Walks(l.it[i], s)
        BY DEF IsList
    <2>2. /\ l.free \in Seq(Node) /\ l.node \in [Node -> [ data : Nat, next : Ref ]]
          /\ l.it \in [Iterators -> Cursor] /\ l.count \in Nat
        BY <2>1 DEF Records
    <2>3. nx = at(s, j + 1) /\ nx \in Ref /\ pp \in Addrs /\ (j # 0 => s[j] \in Node /\ pp # "head") /\ pp = addr(s, j)
        BY Leads
    <2>4. p \in Node /\ Tail(l.free) \in Seq(Node) /\ Len(Tail(l.free)) = Len(l.free) - 1
          /\ Len(l.free) \in Nat \ {0} /\ p = l.free[1]
          /\ \A k \in 1..Len(Tail(l.free)) : Tail(l.free)[k] = l.free[k + 1]
        BY <1>3, <2>2
    <2>5. Among(l.free, p)
        BY <2>4 DEF Among
    <2>6. ~Among(s, p) /\ Distinct(s)
        BY <2>1, <2>4, <2>5 DEF Split
    <2>. DEFINE tl == Tail(l.free)
    <2>7. Distinct(tl) /\ \A q \in Node : Among(tl, q) <=> Among(l.free, q) /\ q # p
        <3>1. \A a, b \in 1..Len(l.free) : l.free[a] = l.free[b] => a = b
            BY <2>1 DEF Split, Distinct
        <3>2. \A k \in 1..Len(tl) : k + 1 \in 1..Len(l.free) /\ k + 1 # 1
            BY <2>4
        <3>3. 1 \in 1..Len(l.free)
            BY <2>4
        <3>4. \A k \in 1..Len(l.free) : k # 1 => k - 1 \in 1..Len(tl) /\ (k - 1) + 1 = k
            BY <2>4
        <3>5. \A k \in 1..Len(tl) : tl[k] = l.free[k + 1]
            BY <2>4
        <3>. HIDE DEF tl, p
        <3>6. Distinct(tl)
            <4>. SUFFICES ASSUME NEW a \in 1..Len(tl), NEW b \in 1..Len(tl), tl[a] = tl[b] PROVE a = b
                BY DEF Distinct
            <4>1. a + 1 = b + 1
                BY <3>1, <3>2, <3>5
            <4>. QED  BY <4>1
        <3>7. ASSUME NEW q \in Node PROVE Among(tl, q) <=> Among(l.free, q) /\ q # p
            <4>1. ASSUME NEW k \in 1..Len(tl), tl[k] = q PROVE Among(l.free, q) /\ q # p
                BY <2>4, <3>1, <3>2, <3>3, <3>5, <4>1 DEF Among
            <4>2. ASSUME NEW k \in 1..Len(l.free), l.free[k] = q, q # p PROVE Among(tl, q)
                <5>1. k # 1
                    BY <2>4, <4>2
                <5>. QED  BY <3>4, <3>5, <4>2, <5>1 DEF Among
            <4>. QED  BY <4>1, <4>2 DEF Among
        <3>. QED  BY <3>6, <3>7
    <2>8. /\ t \in Seq(Node) /\ Len(t) = Len(s) + 1 /\ Distinct(t)
          /\ \A q : Among(t, q) <=> Among(s, q) \/ q = p
          /\ \A k \in 1..j + 1 : at(t, k) = IF k = j + 1 THEN p ELSE at(s, k)
          /\ \A k \in j + 1..Len(s) + 1 : at(t, k + 1) = at(s, k)
        BY <2>1, <2>4, <2>6, PutPlaces
    <2>9. Split(t, tl)
        BY <2>1, <2>4, <2>5, <2>6, <2>7, <2>8 DEF Split
    <2>. HIDE DEF tl, t, p, pp
    <2>10. /\ o.head = (IF j = 0 THEN p ELSE l.head) /\ o.tail = (IF nx = nil THEN p ELSE l.tail)
           /\ o.count = l.count + 1 /\ o.free = tl /\ o.it = l.it
           /\ o.node \in [Node -> [ data : Nat, next : Ref ]]
           /\ \A q \in Node : o.node[q].next = IF j # 0 /\ q = s[j] THEN p ELSE IF q = p THEN nx ELSE l.node[q].next
           /\ o \in Records
        <3>. HIDE DEF nx
        <3>1. [ data |-> x, next |-> nx ] \in [ data : Nat, next : Ref ]
            BY <2>3
        <3>. DEFINE nd == [ l.node EXCEPT ![p] = [ data |-> x, next |-> nx ] ]
                    tt == IF nx = nil THEN p ELSE l.tail
        <3>2. nd \in [Node -> [ data : Nat, next : Ref ]] /\ \A q \in Node : nd[q].next = IF q = p THEN nx ELSE l.node[q].next
            BY <2>2, <2>4, <3>1
        <3>3. m = [ l EXCEPT !.free = tl, !.count = l.count + 1, !.node = nd, !.tail = tt ]
            BY <2>1 DEF Records, tl, p
        <3>4. tt \in Addrs /\ l.count + 1 \in Nat /\ tl \in Seq(Node) /\ p \in Ref
            BY <2>1, <2>2, <2>4 DEF Records, Addrs, Ref, tl
        <3>. HIDE DEF nd, tt, m
        <3>5. /\ m \in Records /\ m.head = l.head /\ m.tail = tt /\ m.count = l.count + 1
              /\ m.free = tl /\ m.it = l.it /\ m.node = nd
            BY <2>1, <3>2, <3>3, <3>4 DEF Records
        <3>6. CASE j = 0
            <4>1. pp = "head"
                BY <3>6 DEF pp, addr
            <4>2. o = [ m EXCEPT !.head = p ]
                BY <4>1 DEF point
            <4>. HIDE DEF o
            <4>3. /\ o \in Records /\ o.head = p /\ o.tail = tt /\ o.count = l.count + 1
                  /\ o.free = tl /\ o.it = l.it /\ o.node = nd
                BY <3>4, <3>5, <4>2 DEF Records
            <4>. QED  BY <3>2, <3>6, <4>3 DEF tt
        <3>7. CASE j # 0
            <4>1. pp = s[j] /\ pp # "head" /\ pp \in Node
                BY <2>3, <3>7 DEF addr
            <4>. DEFINE od == [ nd EXCEPT ![pp].next = p ]
            <4>2. o = [ m EXCEPT !.node = od ]
                BY <3>5, <4>1 DEF point, Records
            <4>3. od \in [Node -> [ data : Nat, next : Ref ]]
                BY <3>2, <3>4, <4>1
            <4>4. \A q \in Node : od[q].next = IF q = s[j] THEN p ELSE IF q = p THEN nx ELSE l.node[q].next
                BY <3>2, <4>1
            <4>. HIDE DEF o, od
            <4>5. /\ o \in Records /\ o.head = l.head /\ o.tail = tt /\ o.count = l.count + 1
                  /\ o.free = tl /\ o.it = l.it /\ o.node = od
                BY <3>5, <4>2, <4>3 DEF Records
            <4>. QED  BY <3>7, <4>3, <4>4, <4>5 DEF tt
        <3>. QED  BY <3>6, <3>7
    <2>. HIDE DEF o, m, nx
    <2>11. \A i \in Iterators : /\ mv(l.it[i]) \in Cursor \/ ~l.it[i].live
                                /\ l.it[i].live => mv(l.it[i]).live /\ Walks(mv(l.it[i]), t)
        <3>. SUFFICES ASSUME NEW i \in Iterators, l.it[i].live
             PROVE mv(l.it[i]) \in Cursor /\ mv(l.it[i]).live /\ Walks(mv(l.it[i]), t)
            BY Zenon
        <3>1. l.it[i] \in Cursor /\ Walks(l.it[i], s)
            BY <2>1, <2>2
        <3>. DEFINE c == l.it[i]
        <3>. HIDE DEF c
        <3>2. LET m2 == IF c.prev = addr(s, j) THEN [ c EXCEPT !.prev = p ]
                        ELSE IF c.pos = at(s, j + 1) THEN [ c EXCEPT !.pos = p ] ELSE c
              IN m2 \in Cursor /\ m2.live = c.live /\ Walks(m2, spliced(s, j, p))
            BY <2>1, <2>4, <2>6, <3>1, PutWalks DEF c
        <3>3. mv(c) = IF c.prev = addr(s, j) THEN [ c EXCEPT !.prev = p ]
                      ELSE IF c.pos = at(s, j + 1) THEN [ c EXCEPT !.pos = p ] ELSE c
            BY <2>3
        <3>. HIDE DEF mv
        <3>4. mv(c) \in Cursor /\ mv(c).live = c.live /\ Walks(mv(c), t)
            BY <3>2, <3>3 DEF t
        <3>. QED  BY <3>4 DEF c
    <2>. DEFINE its == [ i \in Iterators |-> IF o.it[i].live THEN mv(o.it[i]) ELSE o.it[i] ]
    <2>12. its \in [Iterators -> Cursor] /\ \A i \in Iterators : its[i].live => Walks(its[i], t)
        <3>. HIDE DEF mv
        <3>. QED  BY <2>2, <2>10, <2>11
    <2>13. r = [ o EXCEPT !.it = its ]
        OBVIOUS
    <2>. HIDE DEF its, r
    <2>14. /\ r \in Records /\ r.head = o.head /\ r.tail = o.tail /\ r.count = o.count
           /\ r.free = o.free /\ r.node = o.node /\ r.it = its
        BY <2>10, <2>12, <2>13 DEF Records
    <2>15. Links(r, t)
        <3>. DEFINE n == Len(s)
        <3>1. /\ l.count = n /\ l.head = at(s, 1) /\ l.tail = addr(s, n) /\ n \in Nat /\ j \in 0..n
              /\ \A k \in 1..n : l.node[s[k]].next = at(s, k + 1)
            BY <2>1 DEF Links
        <3>2. r.count = Len(t)
            BY <2>8, <2>10, <2>14, <3>1
        <3>3. r.head = at(t, 1)
            <4>1. 1 \in 1..j + 1 /\ (1 = j + 1 <=> j = 0)
                BY <3>1
            <4>. QED  BY <2>8, <2>10, <2>14, <3>1, <4>1
        <3>4. nx = nil <=> j = n
            <4>1. j # n => j + 1 \in 1..n /\ s[j + 1] \in Node
                BY <2>1, <3>1
            <4>2. j = n => ~(j + 1 \in 1..n)
                BY <3>1
            <4>. QED  BY <2>3, <4>1, <4>2, ListAssumption DEF at
        <3>5. r.tail = addr(t, Len(t))
            <4>1. Len(t) = n + 1 /\ n + 1 # 0 /\ n + 1 \in 1..n + 1
                BY <2>8, <3>1
            <4>2. CASE j = n
                <5>1. at(t, n + 1) = p
                    BY <2>8, <3>1, <4>1, <4>2
                <5>. QED  BY <2>10, <2>14, <3>4, <4>1, <4>2, <5>1 DEF addr, at
            <4>3. CASE j # n
                <5>1. n \in j + 1..n + 1 /\ n # 0 /\ n \in 1..n
                    BY <3>1, <4>3
                <5>2. at(t, n + 1) = at(s, n)
                    BY <2>8, <5>1
                <5>. QED  BY <2>10, <2>14, <3>1, <3>4, <4>1, <4>3, <5>1, <5>2 DEF addr, at
            <4>. QED  BY <4>2, <4>3
        <3>6. ASSUME NEW k \in 1..Len(t) PROVE r.node[t[k]].next = at(t, k + 1)
            <4>1. k \in 1..n + 1 /\ t[k] \in Node /\ at(t, k) = t[k]
                BY <2>8, <3>1 DEF at
            <4>2. \A a, b \in 1..n : s[a] = s[b] => a = b
                BY <2>6 DEF Distinct
            <4>3. \A a \in 1..n : s[a] # p /\ at(s, a) = s[a] /\ s[a] \in Node
                BY <2>1, <2>6 DEF Among, at
            <4>4. CASE k < j
                <5>1. k \in 1..j + 1 /\ k # j + 1 /\ k + 1 \in 1..j + 1 /\ k + 1 # j + 1 /\ k \in 1..n /\ j \in 1..n /\ k # j
                    BY <3>1, <4>1, <4>4
                <5>2. t[k] = s[k] /\ at(t, k + 1) = at(s, k + 1)
                    BY <2>8, <4>1, <4>3, <5>1
                <5>3. s[k] # s[j] /\ s[k] # p
                    BY <4>2, <4>3, <5>1
                <5>. QED  BY <2>10, <2>14, <3>1, <4>1, <5>1, <5>2, <5>3
            <4>5. CASE k = j
                <5>1. k \in 1..j + 1 /\ k # j + 1 /\ k + 1 \in 1..j + 1 /\ k + 1 = j + 1 /\ k \in 1..n /\ j # 0
                    BY <3>1, <4>1, <4>5
                <5>2. t[k] = s[j] /\ at(t, k + 1) = p
                    BY <2>8, <4>1, <4>3, <4>5, <5>1
                <5>. QED  BY <2>10, <2>14, <4>1, <5>1, <5>2
            <4>6. CASE k = j + 1
                <5>1. k \in 1..j + 1 /\ j + 1 \in j + 1..n + 1
                    BY <3>1, <4>6
                <5>2. t[k] = p /\ at(t, k + 1) = nx
                    BY <2>3, <2>8, <4>1, <4>6, <5>1
                <5>3. j # 0 => s[j] # p
                    BY <3>1, <4>3
                <5>. QED  BY <2>10, <2>14, <4>1, <5>2, <5>3
            <4>7. CASE k > j + 1
                <5>1. k - 1 \in j + 1..n + 1 /\ k \in j + 1..n + 1 /\ (k - 1) + 1 = k /\ k - 1 \in 1..n /\ k - 1 # j /\ (j # 0 => j \in 1..n)
                    BY <3>1, <4>1, <4>7
                <5>2. t[k] = s[k - 1] /\ at(t, k + 1) = at(s, k)
                    BY <2>8, <4>1, <4>3, <5>1
                <5>3. (j # 0 => s[k - 1] # s[j]) /\ s[k - 1] # p
                    BY <4>2, <4>3, <5>1
                <5>. QED  BY <2>10, <2>14, <3>1, <4>1, <5>1, <5>2, <5>3
            <4>. QED  BY <3>1, <4>1, <4>4, <4>5, <4>6, <4>7
        <3>. QED  BY <3>2, <3>3, <3>5, <3>6 DEF Links
    <2>16. IsList(r, t)
        BY <2>8, <2>9, <2>10, <2>12, <2>14, <2>15 DEF IsList
    <2>17. list_node_create(l, pp, x) = r
        BY <1>1, <1>3 DEF r, o, m, nx, p, pp
    <2>. QED  BY <2>8, <2>16, <2>17 DEF WellFormed, pp
<1>. QED  BY <1>2, <1>3

(***************************************************************************)
(* A node goes out                                                         *)
(***************************************************************************)

(* The nodes s without the one after the first j.                          *)
cut(s, j) == [ k \in 1..Len(s) - 1 |-> IF k <= j THEN s[k] ELSE s[k + 1] ]

(* Where things are then.                                                  *)
LEMMA CutPlaces ==
    ASSUME NEW s \in Seq(Node), Distinct(s), NEW j \in 0..Len(s) - 1
    PROVE  /\ cut(s, j) \in Seq(Node) /\ Len(cut(s, j)) = Len(s) - 1
           /\ Distinct(cut(s, j))
           /\ \A q : Among(cut(s, j), q) <=> Among(s, q) /\ q # s[j + 1]
           /\ \A k \in 1..j : at(cut(s, j), k) = at(s, k)
           /\ \A k \in j + 1..Len(s) + 1 : at(cut(s, j), k) = at(s, k + 1)
<1>. DEFINE t == cut(s, j)
            n == Len(s)
<1>1. n \in Nat /\ j \in Nat /\ j + 1 \in 1..n /\ n - 1 \in Nat /\ \A k \in 1..n : s[k] \in Node
    OBVIOUS
<1>2. \A k \in 1..n - 1 : t[k] = (IF k <= j THEN s[k] ELSE s[k + 1]) /\ t[k] \in Node
    BY <1>1 DEF cut
<1>3. t \in Seq(Node) /\ Len(t) = n - 1
    <2>1. t = [ k \in 1..n - 1 |-> t[k] ]
        BY <1>1 DEF cut
    <2>. HIDE DEF t
    <2>. QED  BY <1>1, <1>2, <2>1
<1>. HIDE DEF t, n
<1>4. \A a, b \in 1..n : s[a] = s[b] => a = b
    BY DEF Distinct, n
<1>5. Distinct(t)
    <2>1. ASSUME NEW a \in 1..n - 1, NEW b \in 1..n - 1, t[a] = t[b]
          PROVE  a = b
        <3>. DEFINE f(k) == IF k <= j THEN k ELSE k + 1
        <3>1. \A k \in 1..n - 1 : f(k) \in 1..n /\ t[k] = s[f(k)]
            BY <1>1, <1>2
        <3>2. f(a) = f(b)
            BY <1>4, <2>1, <3>1
        <3>. QED  BY <1>1, <3>2
    <2>. QED  BY <1>3, <2>1 DEF Distinct
<1>6. ASSUME NEW q PROVE Among(t, q) <=> Among(s, q) /\ q # s[j + 1]
    <2>1. ASSUME NEW k \in 1..n - 1, t[k] = q PROVE Among(s, q) /\ q # s[j + 1]
        <3>1. CASE k <= j
            <4>1. k \in 1..n /\ k # j + 1 /\ s[k] = q
                BY <1>1, <1>2, <2>1, <3>1
            <4>. QED  BY <1>1, <1>4, <4>1 DEF Among, n
        <3>2. CASE k > j
            <4>1. k + 1 \in 1..n /\ k + 1 # j + 1 /\ s[k + 1] = q
                BY <1>1, <1>2, <2>1, <3>2
            <4>. QED  BY <1>1, <1>4, <4>1 DEF Among, n
        <3>. QED  BY <1>1, <3>1, <3>2
    <2>2. ASSUME NEW k \in 1..n, s[k] = q, q # s[j + 1] PROVE Among(t, q)
        <3>1. CASE k <= j
            <4>1. k \in 1..n - 1 /\ t[k] = q
                BY <1>1, <1>2, <2>2, <3>1
            <4>. QED  BY <1>3, <4>1 DEF Among
        <3>2. CASE k > j
            <4>1. k # j + 1
                BY <2>2
            <4>2. k - 1 \in 1..n - 1 /\ ~(k - 1 <= j) /\ (k - 1) + 1 = k
                BY <1>1, <3>2, <4>1
            <4>3. t[k - 1] = q
                BY <1>2, <2>2, <4>2
            <4>. QED  BY <1>3, <4>2, <4>3 DEF Among
        <3>. QED  BY <1>1, <3>1, <3>2
    <2>. QED  BY <1>3, <2>1, <2>2 DEF Among, n
<1>7. \A k \in 1..j : at(t, k) = at(s, k)
    BY <1>1, <1>2, <1>3 DEF at, n
<1>8. \A k \in j + 1..n + 1 : at(t, k) = at(s, k + 1)
    <2>. SUFFICES ASSUME NEW k \in j + 1..n + 1 PROVE at(t, k) = at(s, k + 1)
        OBVIOUS
    <2>1. k \in Nat /\ ~(k <= j) /\ (k \in 1..n - 1 <=> k + 1 \in 1..n)
        BY <1>1
    <2>. QED  BY <1>2, <1>3, <2>1 DEF at, n
<1>. QED  BY <1>3, <1>5, <1>6, <1>7, <1>8 DEF n, t

(* An iterator that is to return the node goes to the next one, one that   *)
(* has returned it goes back.                                              *)
LEMMA CutWalks ==
    ASSUME NEW s \in Seq(Node), Distinct(s), NEW j \in 0..Len(s) - 1, NEW i \in Cursor, Walks(i, s)
    PROVE  LET p == s[j + 1]
               m == IF i.pos = p THEN [ i EXCEPT !.pos = at(s, j + 2), !.prev = addr(s, j) ]
                    ELSE IF i.prev = p THEN [ i EXCEPT !.prev = addr(s, j) ] ELSE i
           IN m \in Cursor /\ m.live = i.live /\ Walks(m, cut(s, j))
<1>. DEFINE t  == cut(s, j)
            n  == Len(s)
            p  == s[j + 1]
            nx == at(s, j + 2)
            pp == addr(s, j)
            m  == IF i.pos = p THEN [ i EXCEPT !.pos = nx, !.prev = pp ]
                  ELSE IF i.prev = p THEN [ i EXCEPT !.prev = pp ] ELSE i
<1>1. n \in Nat /\ j \in Nat /\ j + 1 \in 1..n /\ n - 1 \in Nat
    OBVIOUS
<1>2. /\ t \in Seq(Node) /\ Len(t) = n - 1
      /\ \A k \in 1..j : at(t, k) = at(s, k)
      /\ \A k \in j + 1..n + 1 : at(t, k) = at(s, k + 1)
    BY CutPlaces
<1>3. \A k \in 1..n : at(s, k) = s[k] /\ s[k] \in Node /\ s[k] # "head" /\ s[k] # nil
    BY <1>1, ListAssumption DEF at
<1>4. \A a, b \in 1..n : s[a] = s[b] => a = b
    BY DEF Distinct
<1>5. pp \in Addrs /\ nx \in Ref
    <2>1. j # 0 => j \in 1..n
        BY <1>1
    <2>2. nx = nil \/ (j + 2 \in 1..n /\ nx = s[j + 2])
        BY DEF at
    <2>. QED  BY <1>3, <2>1, <2>2 DEF addr, Addrs, Ref
<1>6. /\ m \in Cursor /\ m.live = i.live
      /\ m.prev = (IF i.pos = p \/ i.prev = p THEN pp ELSE i.prev)
      /\ m.pos = (IF i.pos = p THEN nx ELSE i.pos)
    <2>. HIDE DEF pp, nx, p
    <2>. QED  BY <1>5 DEF Cursor
<1>7. PICK q \in 0..n : i.prev = addr(s, q) /\ (i.pos = at(s, q + 1) \/ (q < n /\ i.pos = at(s, q + 2)))
    BY DEF Walks
<1>8. \A k \in 1..j : t[k] = s[k]
    BY <1>1, <1>2, <1>3 DEF at
<1>9. \A k \in j + 1..n - 1 : t[k] = s[k + 1]
    BY <1>1, <1>2, <1>3 DEF at
<1>10. pp = addr(t, j)
    <2>1. j # 0 => j \in 1..j
        BY <1>1
    <2>. QED  BY <1>8, <2>1 DEF addr
<1>11. nx = at(t, j + 1)
    <2>1. j + 1 \in j + 1..n + 1 /\ (j + 1) + 1 = j + 2
        BY <1>1
    <2>. QED  BY <1>2, <2>1
<1>12. i.prev = p <=> q = j + 1
    <2>1. q # 0 => q \in 1..n
        BY <1>1
    <2>. QED  BY <1>1, <1>3, <1>4, <1>7, <2>1 DEF addr
<1>13. \A k \in 1..n + 2 : at(s, k) = p <=> k = j + 1
    <2>. SUFFICES ASSUME NEW k \in 1..n + 2 PROVE at(s, k) = p <=> k = j + 1
        OBVIOUS
    <2>1. CASE k \in 1..n
        BY <1>1, <1>3, <1>4, <2>1
    <2>2. CASE k \notin 1..n
        BY <1>1, <1>3, <2>2 DEF at, n
    <2>. QED  BY <2>1, <2>2
<1>. HIDE DEF t, n, pp, m, p, nx
<1>14. \E r \in 0..n - 1 : m.prev = addr(t, r) /\ (m.pos = at(t, r + 1) \/ (r < n - 1 /\ m.pos = at(t, r + 2)))
    <2>1. CASE i.pos = p
        <3>1. m.prev = addr(t, j) /\ m.pos = at(t, j + 1) /\ j \in 0..n - 1
            BY <1>1, <1>6, <1>10, <1>11, <2>1
        <3>. QED  BY <3>1
    <2>2. CASE i.pos # p /\ q = j + 1
        <3>1. m.prev = addr(t, j) /\ m.pos = i.pos /\ j \in 0..n - 1
            BY <1>1, <1>6, <1>10, <1>12, <2>2
        <3>2. j + 1 \in j + 1..n + 1 /\ (j + 1) + 1 = q + 1
            BY <1>1, <2>2
        <3>3. at(s, q + 1) = at(t, j + 1)
            BY <1>2, <3>2
        <3>4. q < n => j < n - 1 /\ at(s, q + 2) = at(t, j + 2)
            <4>1. q < n => j < n - 1 /\ j + 2 \in j + 1..n + 1 /\ (j + 2) + 1 = q + 2
                BY <1>1, <2>2
            <4>. QED  BY <1>2, <4>1
        <3>. QED  BY <1>7, <3>1, <3>3, <3>4
    <2>3. CASE i.pos # p /\ q # j + 1 /\ q <= j
        <3>1. m.prev = i.prev /\ m.pos = i.pos /\ q \in 0..n - 1
            BY <1>1, <1>6, <1>12, <2>3
        <3>2. i.prev = addr(t, q)
            <4>1. q # 0 => q \in 1..j
                BY <1>1, <2>3
            <4>. QED  BY <1>7, <1>8, <4>1 DEF addr
        <3>3. CASE i.pos = at(s, q + 1)
            <4>1. q + 1 # j + 1 /\ q + 1 \in 1..n + 2
                BY <1>1, <1>13, <2>3, <3>3
            <4>2. q + 1 \in 1..j
                BY <1>1, <2>3, <4>1
            <4>3. at(t, q + 1) = at(s, q + 1)
                BY <1>2, <4>2
            <4>. QED  BY <3>1, <3>2, <3>3, <4>3
        <3>4. CASE q < n /\ i.pos = at(s, q + 2)
            <4>1. q + 2 # j + 1 /\ q + 2 \in 1..n + 2
                BY <1>1, <1>13, <2>3, <3>4
            <4>2. CASE q = j
                <5>1. m.pos = at(t, q + 1)
                    BY <1>11, <3>1, <3>4, <4>2 DEF nx
                <5>. QED  BY <3>1, <3>2, <5>1
            <4>3. CASE q # j
                <5>1. q + 2 \in 1..j /\ q < n - 1
                    BY <1>1, <2>3, <4>1, <4>3
                <5>2. at(t, q + 2) = at(s, q + 2)
                    BY <1>2, <5>1
                <5>. QED  BY <3>1, <3>2, <3>4, <5>1, <5>2
            <4>. QED  BY <4>2, <4>3
        <3>. QED  BY <1>7, <3>3, <3>4
    <2>4. CASE i.pos # p /\ q > j + 1
        <3>1. m.prev = i.prev /\ m.pos = i.pos /\ q - 1 \in 0..n - 1 /\ q # 0 /\ q - 1 # 0
            BY <1>1, <1>6, <1>12, <2>4
        <3>2. i.prev = addr(t, q - 1)
            <4>1. q - 1 \in j + 1..n - 1 /\ (q - 1) + 1 = q
                BY <1>1, <2>4
            <4>. QED  BY <1>7, <1>9, <3>1, <4>1 DEF addr
        <3>3. at(t, (q - 1) + 1) = at(s, q + 1)
            <4>1. q \in j + 1..n + 1 /\ (q - 1) + 1 = q
                BY <1>1, <2>4
            <4>. QED  BY <1>2, <4>1
        <3>4. q < n => q - 1 < n - 1 /\ at(t, (q - 1) + 2) = at(s, q + 2)
            <4>1. q < n => q + 1 \in j + 1..n + 1 /\ (q - 1) + 2 = q + 1 /\ (q + 1) + 1 = q + 2 /\ q - 1 < n - 1
                BY <1>1, <2>4
            <4>. QED  BY <1>2, <4>1
        <3>. QED  BY <1>7, <3>1, <3>2, <3>3, <3>4
    <2>. QED  BY <1>1, <2>1, <2>2, <2>3, <2>4
<1>15. Walks(m, t)
    BY <1>2, <1>14 DEF Walks
<1>. QED  BY <1>6, <1>15 DEF t, pp, m, p, nx

(* list_node_destroy, of the node after the first j.                       *)
LEMMA DestroyList ==
    ASSUME NEW l, NEW s, IsList(l, s), NEW j \in 0..Len(s)
    PROVE  /\ j = Len(s) => list_node_destroy(l, addr(s, j)) = l
           /\ j < Len(s) => IsList(list_node_destroy(l, addr(s, j)), cut(s, j))
<1>. DEFINE pp == addr(s, j)
            p  == deref(l, pp)
            nx == l.node[p].next
            m  == [ l EXCEPT !.free = << p >> \o @, !.count = @ - 1, !.node[p] = blank,
                             !.tail = IF nx = nil THEN pp ELSE @ ]
            o  == point(m, pp, nx)
            mv(i) == IF i.pos = p THEN [ i EXCEPT !.pos = nx, !.prev = pp ]
                     ELSE IF i.prev = p THEN [ i EXCEPT !.prev = pp ] ELSE i
            r  == [ o EXCEPT !.it = [ i \in Iterators |-> IF o.it[i].live THEN mv(o.it[i]) ELSE o.it[i] ] ]
            t  == cut(s, j)
<1>1. list_node_destroy(l, pp) = IF p = nil THEN l ELSE r
    BY DEF list_node_destroy, each_iterator
<1>2. /\ l \in Records /\ s \in Seq(Node) /\ Links(l, s) /\ Split(s, l.free) /\ Len(s) \in Nat
      /\ \A i \in Iterators : l.it[i].live => Walks(l.it[i], s)
    BY DEF IsList
<1>3. p = at(s, j + 1) /\ pp \in Addrs /\ (j # 0 => s[j] \in Node /\ pp # "head") /\ pp = addr(s, j)
    BY Leads
<1>4. ASSUME j = Len(s) PROVE list_node_destroy(l, pp) = l
    <2>1. p = nil
        BY <1>2, <1>3, <1>4 DEF at
    <2>. QED  BY <1>1, <2>1
<1>5. ASSUME j < Len(s) PROVE IsList(list_node_destroy(l, pp), t)
    <2>. DEFINE n == Len(s)
    <2>1. /\ j + 1 \in 1..n /\ p = s[j + 1] /\ p \in Node /\ p # nil /\ n \in Nat /\ j \in 0..n - 1
          /\ j \in Nat
        BY <1>2, <1>3, <1>5, ListAssumption DEF at
    <2>2. /\ l.free \in Seq(Node) /\ l.node \in [Node -> [ data : Nat, next : Ref ]]
          /\ l.it \in [Iterators -> Cursor] /\ l.count \in Nat
          /\ l.head \in Ref /\ l.tail \in Addrs
        BY <1>2 DEF Records
    <2>3. /\ l.count = n /\ l.head = at(s, 1) /\ l.tail = addr(s, n)
          /\ \A k \in 1..n : l.node[s[k]].next = at(s, k + 1)
        BY <1>2 DEF Links
    <2>4. nx = at(s, j + 2) /\ nx \in Ref
        <3>1. (j + 1) + 1 = j + 2
            BY <2>1
        <3>2. nx = at(s, j + 2)
            BY <2>1, <2>3, <3>1
        <3>. QED  BY <2>1, <2>2, <3>2
    <2>5. Distinct(s)
        BY <1>2 DEF Split
    <2>6. /\ t \in Seq(Node) /\ Len(t) = n - 1 /\ Distinct(t)
          /\ \A q : Among(t, q) <=> Among(s, q) /\ q # p
          /\ \A k \in 1..j : at(t, k) = at(s, k)
          /\ \A k \in j + 1..n + 1 : at(t, k) = at(s, k + 1)
        BY <1>2, <2>1, <2>5, CutPlaces
    <2>. DEFINE fr == << p >> \o l.free
    <2>7. /\ fr \in Seq(Node) /\ Len(fr) = Len(l.free) + 1 /\ fr[1] = p /\ Len(l.free) \in Nat
          /\ \A k \in 2..Len(fr) : fr[k] = l.free[k - 1]
        BY <2>1, <2>2
    <2>. HIDE DEF fr, t, p, nx, pp
    <2>8. Split(t, fr)
        <3>1. Among(s, p) /\ ~Among(l.free, p)
            BY <1>2, <2>1 DEF Split, Among
        <3>2. \A a, b \in 1..Len(l.free) : l.free[a] = l.free[b] => a = b
            BY <1>2 DEF Split, Distinct
        <3>3. Distinct(fr)
            <4>. SUFFICES ASSUME NEW a \in 1..Len(fr), NEW b \in 1..Len(fr), fr[a] = fr[b] PROVE a = b
                BY DEF Distinct
            <4>1. \A k \in 1..Len(fr) : k = 1 \/ (k \in 2..Len(fr) /\ k - 1 \in 1..Len(l.free))
                BY <2>7
            <4>2. \A k \in 2..Len(fr) : fr[k] # p
                <5>1. \A k \in 1..Len(l.free) : l.free[k] # p
                    BY <3>1 DEF Among
                <5>2. \A k \in 2..Len(fr) : k - 1 \in 1..Len(l.free)
                    BY <2>7
                <5>. QED  BY <2>7, <5>1, <5>2
            <4>3. CASE a = 1 \/ b = 1
                BY <2>7, <4>1, <4>2, <4>3
            <4>4. CASE a # 1 /\ b # 1
                <5>1. a - 1 = b - 1
                    BY <2>7, <3>2, <4>1, <4>4
                <5>. QED  BY <2>7, <5>1
            <4>. QED  BY <4>3, <4>4
        <3>4. ASSUME NEW q \in Node PROVE Among(fr, q) <=> Among(l.free, q) \/ q = p
            <4>1. \A k \in 1..Len(l.free) : k + 1 \in 1..Len(fr) /\ k + 1 \in 2..Len(fr) /\ (k + 1) - 1 = k
                BY <2>7
            <4>2. \A k \in 1..Len(fr) : k = 1 \/ (k \in 2..Len(fr) /\ k - 1 \in 1..Len(l.free))
                BY <2>7
            <4>3. \A k \in 1..Len(l.free) : fr[k + 1] = l.free[k]
                BY <2>7, <4>1
            <4>4. 1 \in 1..Len(fr)
                BY <2>7
            <4>5. Among(fr, q) => Among(l.free, q) \/ q = p
                BY <2>7, <4>2 DEF Among
            <4>6. Among(l.free, q) => Among(fr, q)
                BY <4>1, <4>3 DEF Among
            <4>7. Among(fr, p)
                BY <2>7, <4>4 DEF Among
            <4>. QED  BY <4>5, <4>6, <4>7
        <3>. QED  BY <1>2, <2>6, <3>1, <3>3, <3>4 DEF Split
    <2>9. /\ o.head = (IF j = 0 THEN nx ELSE l.head) /\ o.tail = (IF nx = nil THEN pp ELSE l.tail)
          /\ o.count = l.count - 1 /\ o.free = fr /\ o.it = l.it
          /\ \A q \in Node : o.node[q].next = IF j # 0 /\ q = s[j] THEN nx ELSE IF q = p THEN nil ELSE l.node[q].next
          /\ o \in Records
        <3>1. blank \in [ data : Nat, next : Ref ] /\ blank.next = nil
            BY DEF blank, Ref
        <3>. DEFINE nd == [ l.node EXCEPT ![p] = blank ]
                    tt == IF nx = nil THEN pp ELSE l.tail
        <3>2. nd \in [Node -> [ data : Nat, next : Ref ]] /\ \A q \in Node : nd[q].next = IF q = p THEN nil ELSE l.node[q].next
            BY <2>1, <2>2, <3>1
        <3>3. m = [ l EXCEPT !.free = fr, !.count = l.count - 1, !.node = nd, !.tail = tt ]
            BY <1>2 DEF Records, fr
        <3>4. tt \in Addrs /\ l.count - 1 \in Nat
            BY <1>3, <2>1, <2>2, <2>3
        <3>. HIDE DEF nd, tt, m
        <3>5. /\ m \in Records /\ m.head = l.head /\ m.tail = tt /\ m.count = l.count - 1
              /\ m.free = fr /\ m.it = l.it /\ m.node = nd
            BY <1>2, <2>7, <3>2, <3>3, <3>4 DEF Records
        <3>6. CASE j = 0
            <4>1. pp = "head"
                BY <3>6 DEF pp, addr
            <4>2. o = [ m EXCEPT !.head = nx ]
                BY <4>1 DEF point
            <4>. HIDE DEF o
            <4>3. /\ o \in Records /\ o.head = nx /\ o.tail = tt /\ o.count = l.count - 1
                  /\ o.free = fr /\ o.it = l.it /\ o.node = nd
                BY <2>4, <3>5, <4>2 DEF Records
            <4>. QED  BY <3>2, <3>6, <4>3 DEF tt
        <3>7. CASE j # 0
            <4>1. pp = s[j] /\ pp # "head" /\ pp \in Node
                BY <1>3, <3>7 DEF addr
            <4>. DEFINE od == [ nd EXCEPT ![pp].next = nx ]
            <4>2. o = [ m EXCEPT !.node = od ]
                BY <3>5, <4>1 DEF point, Records
            <4>3. od \in [Node -> [ data : Nat, next : Ref ]]
                BY <2>4, <3>2, <4>1
            <4>4. \A q \in Node : od[q].next = IF q = s[j] THEN nx ELSE IF q = p THEN nil ELSE l.node[q].next
                BY <3>2, <4>1
            <4>. HIDE DEF o, od
            <4>5. /\ o \in Records /\ o.head = l.head /\ o.tail = tt /\ o.count = l.count - 1
                  /\ o.free = fr /\ o.it = l.it /\ o.node = od
                BY <3>5, <4>2, <4>3 DEF Records
            <4>. QED  BY <3>7, <4>4, <4>5 DEF tt
        <3>. QED  BY <3>6, <3>7
    <2>. HIDE DEF o, m
    <2>10. \A i \in Iterators : l.it[i].live => mv(l.it[i]) \in Cursor /\ Walks(mv(l.it[i]), t)
        <3>. SUFFICES ASSUME NEW i \in Iterators, l.it[i].live
             PROVE mv(l.it[i]) \in Cursor /\ Walks(mv(l.it[i]), t)
            BY Zenon
        <3>1. l.it[i] \in Cursor /\ Walks(l.it[i], s)
            BY <1>2, <2>2
        <3>. DEFINE c == l.it[i]
        <3>. HIDE DEF c
        <3>2. LET pc == s[j + 1]
                  m2 == IF c.pos = pc THEN [ c EXCEPT !.pos = at(s, j + 2), !.prev = addr(s, j) ]
                        ELSE IF c.prev = pc THEN [ c EXCEPT !.prev = addr(s, j) ] ELSE c
              IN m2 \in Cursor /\ m2.live = c.live /\ Walks(m2, cut(s, j))
            BY <1>2, <2>1, <2>5, <3>1, CutWalks DEF c
        <3>3. mv(c) = IF c.pos = s[j + 1] THEN [ c EXCEPT !.pos = at(s, j + 2), !.prev = addr(s, j) ]
                      ELSE IF c.prev = s[j + 1] THEN [ c EXCEPT !.prev = addr(s, j) ] ELSE c
            BY <1>3, <2>1, <2>4
        <3>. HIDE DEF mv
        <3>4. mv(c) \in Cursor /\ Walks(mv(c), t)
            BY <3>2, <3>3 DEF t
        <3>. QED  BY <3>4 DEF c
    <2>. DEFINE its == [ i \in Iterators |-> IF o.it[i].live THEN mv(o.it[i]) ELSE o.it[i] ]
    <2>11. its \in [Iterators -> Cursor] /\ \A i \in Iterators : its[i].live => Walks(its[i], t)
        <3>. HIDE DEF mv
        <3>. QED  BY <2>2, <2>9, <2>10
    <2>12. r = [ o EXCEPT !.it = its ]
        OBVIOUS
    <2>. HIDE DEF its, r
    <2>13. /\ r \in Records /\ r.head = o.head /\ r.tail = o.tail /\ r.count = o.count
           /\ r.free = o.free /\ r.node = o.node /\ r.it = its
        BY <2>9, <2>11, <2>12 DEF Records
    <2>14. Links(r, t)
        <3>1. r.count = Len(t)
            BY <2>3, <2>6, <2>9, <2>13
        <3>2. r.head = at(t, 1)
            <4>1. CASE j = 0
                <5>1. 1 \in j + 1..n + 1 /\ 1 + 1 = j + 2
                    BY <2>1, <4>1
                <5>2. at(t, 1) = at(s, 1 + 1)
                    BY <2>6, <5>1
                <5>. QED  BY <2>4, <2>9, <2>13, <4>1, <5>1, <5>2
            <4>2. CASE j # 0
                <5>1. 1 \in 1..j
                    BY <2>1, <4>2
                <5>. QED  BY <2>3, <2>6, <2>9, <2>13, <4>2, <5>1
            <4>. QED  BY <4>1, <4>2
        <3>3. nx = nil <=> j = n - 1
            <4>1. j # n - 1 => j + 2 \in 1..n /\ s[j + 2] \in Node
                BY <1>2, <2>1
            <4>2. j = n - 1 => ~(j + 2 \in 1..n)
                BY <2>1
            <4>. QED  BY <2>4, <4>1, <4>2, ListAssumption DEF at
        <3>4. r.tail = addr(t, Len(t))
            <4>1. CASE j = n - 1
                <5>1. r.tail = addr(s, j) /\ Len(t) = j
                    BY <2>6, <2>9, <2>13, <3>3, <4>1 DEF pp
                <5>2. j # 0 => j \in 1..j /\ j \in 1..Len(s) /\ j \in 1..Len(t)
                    BY <2>1, <5>1
                <5>3. j # 0 => t[j] = s[j]
                    BY <2>6, <5>2 DEF at
                <5>. QED  BY <5>1, <5>3 DEF addr
            <4>2. CASE j # n - 1
                <5>1. n - 1 \in j + 1..n + 1 /\ n - 1 # 0 /\ n # 0 /\ n \in 1..n /\ n - 1 \in 1..n - 1 /\ (n - 1) + 1 = n
                    <6>. HIDE DEF n
                    <6>1. j < n - 1
                        BY <2>1, <4>2
                    <6>. QED  BY <2>1, <6>1
                <5>2. at(t, n - 1) = at(s, n)
                    BY <2>6, <5>1
                <5>3. t[n - 1] = s[n]
                    BY <2>6, <5>1, <5>2 DEF at
                <5>. QED  BY <2>3, <2>6, <2>9, <2>13, <3>3, <4>2, <5>1, <5>3 DEF addr
            <4>. QED  BY <4>1, <4>2
        <3>5. ASSUME NEW k \in 1..Len(t) PROVE r.node[t[k]].next = at(t, k + 1)
            <4>1. k \in 1..n - 1 /\ t[k] \in Node /\ at(t, k) = t[k] /\ k \in Nat
                BY <2>1, <2>6 DEF at
            <4>2. \A a, b \in 1..n : s[a] = s[b] => a = b
                BY <2>5 DEF Distinct
            <4>3. \A a \in 1..n : at(s, a) = s[a] /\ s[a] \in Node
                BY <1>2 DEF at
            <4>4. t[k] # p
                BY <2>6, <4>1 DEF Among
            <4>5. CASE k < j
                <5>1. k \in 1..j /\ k + 1 \in 1..j /\ k \in 1..n /\ j \in 1..n /\ k # j
                    BY <2>1, <4>1, <4>5
                <5>2. t[k] = s[k] /\ at(t, k + 1) = at(s, k + 1)
                    BY <2>6, <4>1, <4>3, <5>1
                <5>3. s[k] # s[j]
                    BY <4>2, <5>1
                <5>. QED  BY <2>3, <2>9, <2>13, <4>1, <4>4, <5>1, <5>2, <5>3
            <4>6. CASE k = j
                <5>1. k \in 1..j /\ k \in 1..n /\ j # 0 /\ k + 1 \in j + 1..n + 1 /\ (k + 1) + 1 = j + 2
                    BY <2>1, <4>1, <4>6
                <5>2. t[k] = s[j] /\ at(t, k + 1) = at(s, j + 2)
                    BY <2>6, <4>1, <4>3, <4>6, <5>1
                <5>. QED  BY <2>4, <2>9, <2>13, <4>1, <5>1, <5>2
            <4>7. CASE k > j
                <5>1. k \in j + 1..n + 1 /\ k + 1 \in j + 1..n + 1 /\ k + 1 \in 1..n /\ k + 1 # j /\ (j # 0 => j \in 1..n)
                    BY <2>1, <4>1, <4>7
                <5>2. t[k] = s[k + 1] /\ at(t, k + 1) = at(s, (k + 1) + 1)
                    BY <2>6, <4>1, <4>3, <5>1
                <5>3. j # 0 => s[k + 1] # s[j]
                    BY <4>2, <5>1
                <5>. QED  BY <2>3, <2>9, <2>13, <4>1, <4>4, <5>1, <5>2, <5>3
            <4>. QED  BY <2>1, <4>1, <4>5, <4>6, <4>7
        <3>. QED  BY <3>1, <3>2, <3>4, <3>5 DEF Links
    <2>15. IsList(r, t)
        BY <2>6, <2>8, <2>9, <2>11, <2>13, <2>14 DEF IsList
    <2>16. list_node_destroy(l, pp) = r
        BY <1>1, <2>1 DEF r, o, m, nx, p, pp
    <2>. QED  BY <2>15, <2>16
<1>. QED  BY <1>4, <1>5

(***************************************************************************)
(* Calls that take several steps                                           *)
(***************************************************************************)

(* k of n nodes have been deleted or passed.                               *)
Deleting(n) ==
    [ k \in 0..n |-> { t \in [ l : Records, pp : Addrs, n : Nat ] :
        \E s \in Seq(Node) : \E j \in 0..Len(s) :
            IsList(t.l, s) /\ t.pp = addr(s, j) /\ Len(s) - j = n - k } ]

(* A node is deleted or passed.                                            *)
delete_step(t, k) ==
    LET p == deref(t.l, t.pp)
    IN IF key(t.l.node[p].data) = k
       THEN [ l |-> list_node_destroy(t.l, t.pp), pp |-> t.pp, n |-> t.n + 1 ]
       ELSE [ t EXCEPT !.pp = p ]

(* There is one node less to come then.                                    *)
LEMMA DeleteStep ==
    ASSUME NEW n \in Nat, NEW i \in 1..n, NEW t \in Deleting(n)[i - 1], NEW k
    PROVE  delete_step(t, k) \in Deleting(n)[i]
<1>1. i - 1 \in 0..n /\ i \in 0..n
    OBVIOUS
<1>0. PICK s \in Seq(Node) : \E j \in 0..Len(s) :
          IsList(t.l, s) /\ t.pp = addr(s, j) /\ Len(s) - j = n - (i - 1)
    BY <1>1 DEF Deleting
<1>2. PICK j \in 0..Len(s) : IsList(t.l, s) /\ t.pp = addr(s, j) /\ Len(s) - j = n - (i - 1)
    BY <1>0
<1>3. t \in [ l : Records, pp : Addrs, n : Nat ]
    BY <1>1 DEF Deleting
<1>. DEFINE p == deref(t.l, t.pp)
            d == list_node_destroy(t.l, t.pp)
<1>4. j < Len(s) /\ j + 1 \in 1..Len(s) /\ Len(s) \in Nat /\ j \in Nat
    BY <1>2
<1>5. p = s[j + 1] /\ p = addr(s, j + 1) /\ p \in Node
    <2>1. p = at(s, j + 1)
        BY <1>2, Leads
    <2>2. at(s, j + 1) = s[j + 1] /\ addr(s, j + 1) = s[j + 1] /\ s[j + 1] \in Node
        BY <1>4 DEF at, addr
    <2>. QED  BY <2>1, <2>2
<1>6. CASE key(t.l.node[p].data) = k
    <2>1. IsList(d, cut(s, j))
        BY <1>2, <1>4, DestroyList
    <2>2. cut(s, j) \in Seq(Node) /\ Len(cut(s, j)) = Len(s) - 1 /\ d \in Records
        <3>1. Distinct(s) /\ j \in 0..Len(s) - 1
            BY <1>2, <1>4 DEF IsList, Split
        <3>. QED  BY <2>1, <3>1, CutPlaces DEF IsList
    <2>3. t.pp = addr(cut(s, j), j)
        <3>1. j # 0 => j \in 1..Len(s) - 1
            BY <1>4
        <3>2. j # 0 => cut(s, j)[j] = s[j]
            BY <1>4, <3>1 DEF cut
        <3>. QED  BY <1>2, <3>2 DEF addr
    <2>4. j \in 0..Len(cut(s, j)) /\ Len(cut(s, j)) - j = n - i
        BY <1>2, <1>4, <2>2
    <2>. DEFINE r == [ l |-> d, pp |-> t.pp, n |-> t.n + 1 ]
    <2>5. r \in [ l : Records, pp : Addrs, n : Nat ] /\ r.l = d /\ r.pp = t.pp
        BY <1>3, <2>2
    <2>6. delete_step(t, k) = r
        BY <1>6 DEF delete_step
    <2>. HIDE DEF r, d
    <2>. QED  BY <1>1, <2>1, <2>2, <2>3, <2>4, <2>5, <2>6 DEF Deleting
<1>7. CASE key(t.l.node[p].data) # k
    <2>. DEFINE r == [ t EXCEPT !.pp = p ]
    <2>1. r \in [ l : Records, pp : Addrs, n : Nat ] /\ r.l = t.l /\ r.pp = p
        BY <1>3, <1>5 DEF Addrs
    <2>2. delete_step(t, k) = r
        BY <1>7 DEF delete_step
    <2>3. j + 1 \in 0..Len(s) /\ Len(s) - (j + 1) = n - i
        BY <1>2, <1>4
    <2>. HIDE DEF r
    <2>. QED  BY <1>1, <1>2, <1>5, <2>1, <2>2, <2>3 DEF Deleting
<1>. QED  BY <1>6, <1>7

(* What is left is a list.                                                 *)
LEMMA DeleteAllList ==
    ASSUME NEW l, NEW s, IsList(l, s), NEW k
    PROVE  WellFormed(list_delete_all(l, k).l)
<1>. DEFINE n    == l.count
            base == [ l |-> l, pp |-> "head", n |-> 0 ]
            T    == Deleting(n)
            body == [ i \in 1..n |-> [ t \in T[i - 1] |-> delete_step(t, k) ] ]
            step == CHOOSE g : g = [ i \in 0..n |-> IF i = 0 THEN base ELSE delete_step(g[i - 1], k) ]
<1>1. n \in Nat /\ n = Len(s) /\ l \in Records /\ s \in Seq(Node)
    BY DEF IsList, Links
<1>2. list_delete_all(l, k) = step[n]
    BY DEF list_delete_all, delete_step
<1>3. base \in T[0]
    <2>1. 0 \in 0..Len(s) /\ Len(s) - 0 = n - 0 /\ 0 \in 0..n /\ "head" = addr(s, 0)
        BY <1>1 DEF addr
    <2>2. base \in [ l : Records, pp : Addrs, n : Nat ] /\ base.l = l /\ base.pp = "head"
        BY <1>1 DEF Addrs
    <2>. HIDE DEF n, base
    <2>. QED  BY <1>1, <2>1, <2>2 DEF Deleting
<1>. HIDE DEF n, base, T
<1>4. \A i \in 1..n : \A t \in T[i - 1] : delete_step(t, k) \in T[i]
    BY <1>1, DeleteStep DEF T
<1>5. \A i \in 1..n : \A t \in T[i - 1] : body[i][t] = delete_step(t, k)
    OBVIOUS
<1>51. \A i \in 1..n : \A t \in T[i - 1] : body[i][t] \in T[i]
    BY <1>4, <1>5
<1>. HIDE DEF body
<1>6. PICK h : /\ h = [ i \in 0..n |-> h[i] ] /\ h[0] = base
               /\ \A i \in 1..n : h[i] = body[i][h[i - 1]]
               /\ \A i \in 0..n : h[i] \in T[i]
    <2>1. n \in Nat
        BY <1>1
    <2>. HIDE DEF step
    <2>2. Stages(n, T, base, body)
        BY <1>3, <1>51, <2>1 DEF Stages
    <2>. QED  BY <2>2, Recurs
<1>7. step = [ i \in 0..n |-> IF i = 0 THEN base ELSE delete_step(step[i - 1], k) ]
    <2>1. \A i \in 0..n : i = 0 \/ (i \in 1..n /\ i - 1 \in 0..n)
        BY <1>1
    <2>2. \A i \in 1..n : body[i][h[i - 1]] = delete_step(h[i - 1], k)
        <3>1. \A i \in 1..n : i - 1 \in 0..n
            BY <1>1
        <3>. QED  BY <1>5, <1>6, <3>1
    <2>3. h = [ i \in 0..n |-> IF i = 0 THEN base ELSE delete_step(h[i - 1], k) ]
        BY <1>6, <2>1, <2>2
    <2>4. \E g : g = [ i \in 0..n |-> IF i = 0 THEN base ELSE delete_step(g[i - 1], k) ]
        BY <2>3
    <2>. QED  BY <2>4
<1>. HIDE DEF step
<1>. DEFINE I == { i \in 0..n : step[i] \in T[i] }
<1>8. I = 0..n
    <2>1. 0 \in I
        BY <1>1, <1>3, <1>7
    <2>2. ASSUME NEW i \in 0..n - 1, i \in I
          PROVE  i + 1 \in I
        <3>1. i + 1 \in 1..n /\ i + 1 \in 0..n /\ (i + 1) - 1 = i /\ i + 1 # 0
            BY <1>1
        <3>2. step[i + 1] = delete_step(step[i], k)
            BY <1>7, <3>1
        <3>. QED  BY <1>4, <2>2, <3>1, <3>2
    <2>3. I \in SUBSET (0..n)
        OBVIOUS
    <2>. HIDE DEF I
    <2>. QED  BY <1>1, <2>1, <2>2, <2>3, UpTo
<1>9. n \in 0..n /\ step[n] \in T[n]
    BY <1>1, <1>8
<1>10. \E r \in Seq(Node) : IsList(step[n].l, r)
    BY <1>9 DEF T, Deleting
<1>. QED  BY <1>2, <1>10 DEF WellFormed

(* list_next: the iterator goes on along the list.                         *)
LEMMA NextList ==
    ASSUME NEW l, NEW s, IsList(l, s), NEW i \in Iterators, l.it[i].live
    PROVE  IsList(list_next(l, i), s) /\ list_next(l, i).it[i].live
<1>. DEFINE p    == l.it[i].pos
            c    == l.it[i]
            pos  == IF p = nil THEN nil ELSE l.node[p].next
            prev == IF deref(l, c.prev) # p THEN deref(l, c.prev) ELSE c.prev
            d    == [ c EXCEPT !.pos = pos, !.prev = prev ]
            its  == [ l.it EXCEPT ![i] = d ]
            r    == [ l EXCEPT !.it = its ]
            n    == Len(s)
<1>1. /\ l \in Records /\ s \in Seq(Node) /\ Links(l, s) /\ Split(s, l.free) /\ n \in Nat
      /\ \A e \in Iterators : l.it[e].live => Walks(l.it[e], s)
    BY DEF IsList
<1>2. l.it \in [Iterators -> Cursor] /\ c \in Cursor /\ l.node \in [Node -> [ data : Nat, next : Ref ]]
    BY <1>1 DEF Records
<1>3. list_next(l, i) = r
    <2>1. [ l EXCEPT !.it[i].pos = pos, !.it[i].prev = prev ] = r
        BY <1>1, <1>2 DEF Records, Cursor
    <2>. QED  BY <1>1, <1>2, <2>1 DEF list_next, deref, Records, Cursor
<1>4. PICK q \in 0..n : c.prev = addr(s, q) /\ (c.pos = at(s, q + 1) \/ (q < n /\ c.pos = at(s, q + 2)))
    BY <1>1 DEF Walks
<1>5. deref(l, c.prev) = at(s, q + 1) /\ at(s, q + 1) \in Ref /\ c.prev \in Addrs /\ q \in Nat
    BY <1>1, <1>4, Leads
<1>6. \A k \in 1..n : /\ at(s, k) = s[k] /\ s[k] \in Node /\ s[k] # nil
                      /\ l.node[s[k]].next = at(s, k + 1)
    BY <1>1, ListAssumption DEF at, Links
<1>7. \A a, b \in 1..n : s[a] = s[b] => a = b
    BY <1>1 DEF Split, Distinct
<1>8. at(s, n + 1) = nil /\ at(s, n + 2) = nil
    BY <1>1 DEF at
<1>. HIDE DEF n, pos, prev, c
<1>9. pos \in Ref /\ prev \in Addrs
      /\ \E e \in 0..n : prev = addr(s, e) /\ (pos = at(s, e + 1) \/ (e < n /\ pos = at(s, e + 2)))
    <2>1. CASE p = at(s, q + 1)
        <3>1. prev = c.prev
            BY <1>5, <2>1 DEF prev, c
        <3>2. CASE q < n
            <4>1. q + 1 \in 1..n /\ (q + 1) + 1 = q + 2
                BY <1>1, <3>2
            <4>2. pos = at(s, q + 2) /\ pos \in Ref
                BY <1>2, <1>6, <2>1, <4>1 DEF pos
            <4>. QED  BY <1>4, <1>5, <3>1, <3>2, <4>2
        <3>3. CASE q = n
            <4>1. p = nil /\ pos = at(s, q + 1) /\ pos \in Ref
                BY <1>8, <2>1, <3>3 DEF pos, Ref
            <4>. QED  BY <1>4, <1>5, <3>1, <4>1
        <3>. QED  BY <1>1, <3>2, <3>3
    <2>2. CASE p # at(s, q + 1)
        <3>1. q < n /\ p = at(s, q + 2)
            BY <1>4, <2>2 DEF c
        <3>2. q + 1 \in 1..n /\ q + 1 # 0 /\ q + 1 \in 0..n /\ (q + 1) + 1 = q + 2
            BY <1>1, <3>1
        <3>3. prev = addr(s, q + 1) /\ prev \in Addrs
            BY <1>5, <1>6, <2>2, <3>2 DEF prev, c, addr, Addrs
        <3>4. CASE q + 1 < n
            <4>1. q + 2 \in 1..n /\ (q + 2) + 1 = (q + 1) + 2
                BY <1>1, <3>2, <3>4
            <4>2. pos = at(s, (q + 1) + 2) /\ pos \in Ref
                BY <1>2, <1>6, <3>1, <4>1 DEF pos
            <4>. QED  BY <3>2, <3>3, <3>4, <4>2
        <3>5. CASE q + 1 = n
            <4>1. q + 2 = n + 1
                BY <1>1, <3>5
            <4>2. p = nil /\ pos = nil /\ pos \in Ref /\ at(s, (q + 1) + 1) = nil
                BY <1>8, <3>1, <3>2, <4>1 DEF pos, Ref
            <4>. QED  BY <3>2, <3>3, <4>2
        <3>. QED  BY <1>1, <3>2, <3>4, <3>5
    <2>. QED  BY <2>1, <2>2
<1>10. d \in Cursor /\ d.live = c.live /\ d.pos = pos /\ d.prev = prev
    BY <1>2, <1>9 DEF Cursor
<1>. HIDE DEF d
<1>11. Walks(d, s)
    BY <1>9, <1>10 DEF Walks, n
<1>12. its \in [Iterators -> Cursor] /\ \A e \in Iterators : its[e] = IF e = i THEN d ELSE l.it[e]
    BY <1>2, <1>10
<1>. HIDE DEF its
<1>13. /\ r \in Records /\ r.it = its /\ r.head = l.head /\ r.tail = l.tail /\ r.count = l.count
       /\ r.node = l.node /\ r.free = l.free
    BY <1>1, <1>12 DEF Records
<1>. HIDE DEF r
<1>14. Links(r, s)
    BY <1>1, <1>13 DEF Links
<1>15. IsList(r, s)
    BY <1>1, <1>11, <1>12, <1>13, <1>14 DEF IsList
<1>16. r.it[i].live
    BY <1>10, <1>12, <1>13 DEF c
<1>. QED  BY <1>3, <1>15, <1>16

(* One more item is looked at.                                             *)
find_step(t, i, k) ==
    LET x == data_at(t, deref(t, t.it[i].prev))
    IN IF t.it[i].pos = deref(t, t.it[i].prev) \/ key(x) = k THEN t ELSE list_next(t, i)

(* list_find: the iterator goes on along the list.                         *)
LEMMA FindList ==
    ASSUME NEW l, NEW s, IsList(l, s), NEW i \in Iterators, l.it[i].live, NEW k
    PROVE  IsList(list_find(l, i, k), s)
<1>. DEFINE n    == l.count
            base == list_next(l, i)
            W    == { t \in Records : IsList(t, s) /\ t.it[i].live }
            T    == [ m \in 0..n |-> W ]
            body == [ m \in 1..n |-> [ t \in W |-> find_step(t, i, k) ] ]
            step == CHOOSE g : g = [ m \in 0..n |-> IF m = 0 THEN base ELSE find_step(g[m - 1], i, k) ]
<1>1. n \in Nat /\ n = Len(s) /\ l \in Records /\ s \in Seq(Node)
    BY DEF IsList, Links
<1>2. list_find(l, i, k) = step[n]
    BY DEF list_find, find_step
<1>3. \A t \in W : list_next(t, i) \in W
    BY NextList DEF IsList
<1>4. base \in W
    BY NextList DEF IsList
<1>5. \A t \in W : find_step(t, i, k) \in W
    BY <1>3 DEF find_step
<1>6. \A m \in 1..n : m \in 0..n /\ m - 1 \in 0..n /\ m # 0
    BY <1>1
<1>. HIDE DEF n, base, W
<1>7. \A m \in 0..n : T[m] = W
    OBVIOUS
<1>8. \A m \in 1..n : \A t \in W : body[m][t] = find_step(t, i, k)
    OBVIOUS
<1>9. 0 \in 0..n /\ n \in 0..n
    BY <1>1
<1>. HIDE DEF T, body
<1>10. PICK h : /\ h = [ m \in 0..n |-> h[m] ] /\ h[0] = base
                /\ \A m \in 1..n : h[m] = body[m][h[m - 1]]
                /\ \A m \in 0..n : h[m] \in T[m]
    <2>1. Stages(n, T, base, body)
        BY <1>1, <1>4, <1>5, <1>6, <1>7, <1>8, <1>9 DEF Stages
    <2>. HIDE DEF step
    <2>. QED  BY <2>1, Recurs
<1>11. step = [ m \in 0..n |-> IF m = 0 THEN base ELSE find_step(step[m - 1], i, k) ]
    <2>1. \A m \in 0..n : m = 0 \/ m \in 1..n
        BY <1>1
    <2>2. \A m \in 1..n : h[m] = find_step(h[m - 1], i, k)
        BY <1>6, <1>7, <1>8, <1>10
    <2>3. \A m \in 0..n : h[m] = IF m = 0 THEN base ELSE find_step(h[m - 1], i, k)
        BY <1>6, <1>10, <2>1, <2>2
    <2>4. h = [ m \in 0..n |-> IF m = 0 THEN base ELSE find_step(h[m - 1], i, k) ]
        BY <1>10, <2>3
    <2>5. \E g : g = [ m \in 0..n |-> IF m = 0 THEN base ELSE find_step(g[m - 1], i, k) ]
        BY <2>4
    <2>. QED  BY <2>5
<1>. HIDE DEF step
<1>. DEFINE I == { m \in 0..n : step[m] \in W }
<1>12. I = 0..n
    <2>1. 0 \in I
        BY <1>4, <1>9, <1>11
    <2>2. ASSUME NEW m \in 0..n - 1, m \in I
          PROVE  m + 1 \in I
        <3>1. m + 1 \in 0..n /\ (m + 1) - 1 = m /\ m + 1 # 0
            BY <1>1
        <3>2. step[m + 1] = find_step(step[m], i, k)
            BY <1>11, <3>1
        <3>. QED  BY <1>5, <2>2, <3>1, <3>2
    <2>3. I \in SUBSET (0..n)
        OBVIOUS
    <2>. HIDE DEF I
    <2>. QED  BY <1>1, <2>1, <2>2, <2>3, UpTo
<1>. QED  BY <1>2, <1>9, <1>12 DEF W

(* A node is taken out, if there is one.                                   *)
LEMMA DestroyWellFormed ==
    ASSUME NEW l, NEW s, IsList(l, s), NEW j \in 0..Len(s)
    PROVE  WellFormed(list_node_destroy(l, addr(s, j)))
<1>1. s \in Seq(Node) /\ Len(s) \in Nat
    BY DEF IsList
<1>2. CASE j = Len(s)
    BY <1>1, <1>2, DestroyList DEF WellFormed
<1>3. CASE j # Len(s)
    <2>1. j < Len(s) /\ j \in 0..Len(s) - 1
        BY <1>1, <1>3
    <2>2. IsList(list_node_destroy(l, addr(s, j)), cut(s, j))
        BY <2>1, DestroyList
    <2>3. cut(s, j) \in Seq(Node)
        BY <2>2 DEF IsList
    <2>. QED  BY <2>2, <2>3 DEF WellFormed
<1>. QED  BY <1>2, <1>3

(* list_remove: what the iterator has just returned, if anything.          *)
LEMMA RemoveList ==
    ASSUME NEW l, NEW s, IsList(l, s), NEW i \in Iterators, l.it[i].live
    PROVE  WellFormed(list_remove(l, i))
<1>1. \E q \in 0..Len(s) : l.it[i].prev = addr(s, q)
    BY DEF IsList, Walks
<1>2. WellFormed(list_node_destroy(l, l.it[i].prev))
    BY <1>1, DestroyWellFormed
<1>3. WellFormed(l)
    BY DEF WellFormed, IsList
<1>. QED  BY <1>2, <1>3 DEF list_remove

(***************************************************************************)
(* The calls                                                               *)
(***************************************************************************)

(* Two sequences that share the nodes out have as many as there are.       *)
LEMMA AllCounted ==
    ASSUME NEW s \in Seq(Node), NEW f \in Seq(Node), Split(s, f)
    PROVE  Len(s) + Len(f) = Cardinality(Node)
<1>. DEFINE n == Len(s)
            m == Len(f)
            b == [ k \in 1..n + m |-> IF k <= n THEN s[k] ELSE f[k - n] ]
<1>1. n \in Nat /\ m \in Nat /\ (\A k \in 1..n : s[k] \in Node) /\ (\A k \in 1..m : f[k] \in Node)
    OBVIOUS
<1>2. Distinct(s) /\ Distinct(f) /\ \A p \in Node : Among(s, p) <=> ~Among(f, p)
    BY DEF Split
<1>. HIDE DEF n, m
<1>3. \A k \in 1..n + m : IF k <= n THEN k \in 1..n ELSE k - n \in 1..m
    BY <1>1
<1>4. b \in [1..n + m -> Node]
    BY <1>1, <1>3
<1>5. ASSUME NEW j \in 1..n + m, NEW k \in 1..n + m, b[j] = b[k]
      PROVE  j = k
    <2>1. CASE j <= n /\ k <= n
        BY <1>2, <1>3, <1>5, <2>1 DEF Distinct, n
    <2>2. CASE ~(j <= n) /\ ~(k <= n)
        <3>1. j - n \in 1..m /\ k - n \in 1..m /\ f[j - n] = f[k - n]
            BY <1>3, <1>5, <2>2
        <3>2. j - n = k - n
            BY <1>2, <3>1 DEF Distinct, m
        <3>. QED  BY <1>1, <3>2
    <2>3. CASE j <= n /\ ~(k <= n)
        <3>1. j \in 1..n /\ k - n \in 1..m /\ s[j] = f[k - n]
            BY <1>3, <1>5, <2>3
        <3>2. s[j] \in Node /\ Among(s, s[j]) /\ Among(f, s[j])
            BY <1>1, <3>1 DEF Among, n, m
        <3>. QED  BY <1>2, <3>2
    <2>4. CASE ~(j <= n) /\ k <= n
        <3>1. k \in 1..n /\ j - n \in 1..m /\ s[k] = f[j - n]
            BY <1>3, <1>5, <2>4
        <3>2. s[k] \in Node /\ Among(s, s[k]) /\ Among(f, s[k])
            BY <1>1, <3>1 DEF Among, n, m
        <3>. QED  BY <1>2, <3>2
    <2>. QED  BY <2>1, <2>2, <2>3, <2>4
<1>6. ASSUME NEW p \in Node
      PROVE  \E k \in 1..n + m : b[k] = p
    <2>1. CASE Among(s, p)
        <3>1. PICK k \in 1..n : s[k] = p
            BY <2>1 DEF Among, n
        <3>2. k \in 1..n + m /\ k <= n
            BY <1>1
        <3>. QED  BY <3>1, <3>2
    <2>2. CASE ~Among(s, p)
        <3>1. Among(f, p)
            BY <1>2, <2>2
        <3>2. PICK k \in 1..m : f[k] = p
            BY <3>1 DEF Among, m
        <3>3. n + k \in 1..n + m /\ ~(n + k <= n) /\ (n + k) - n = k
            BY <1>1
        <3>4. b[n + k] = p
            BY <3>2, <3>3
        <3>. QED  BY <3>3, <3>4
    <2>. QED  BY <2>1, <2>2
<1>. HIDE DEF b
<1>7. b \in Bijection(1..n + m, Node)
    BY <1>4, <1>5, <1>6 DEF Bijection, Injection, Surjection, IsInjective
<1>8. n + m \in Nat /\ ExistsBijection(1..n + m, Node)
    BY <1>1, <1>7 DEF ExistsBijection
<1>9. Cardinality(Node) = n + m
    BY <1>8, FS_CountingElements
<1>. QED  BY <1>9 DEF n, m

(* All nodes in a sequence, once each.                                     *)
LEMMA AllNodes ==
    /\ SetToSeq(Node) \in Seq(Node) /\ Distinct(SetToSeq(Node))
    /\ \A p \in Node : Among(SetToSeq(Node), p)
<1>. DEFINE n == Cardinality(Node)
            f == SetToSeq(Node)
<1>1. n \in Nat /\ IsFiniteSet(Node) /\ IsFiniteSet(1..n) /\ Cardinality(1..n) = n
    BY FS_CardinalityType, FS_Interval, ListAssumption
<1>2. ExistsBijection(1..n, Node)
    BY <1>1, FS_SameCardinalityBij
<1>3. \E g \in [1..n -> Node] : IsInjective(g)
    BY <1>2 DEF ExistsBijection, Bijection, Injection, IsInjective
<1>4. f \in [1..n -> Node] /\ IsInjective(f)
    BY <1>3 DEF SetToSeq
<1>. HIDE DEF f
<1>5. f \in Injection(1..n, Node)
    BY <1>4 DEF Injection, IsInjective
<1>6. f \in Surjection(1..n, Node)
    BY <1>1, <1>5, FS_Injection
<1>7. f \in Seq(Node) /\ Len(f) = n
    BY <1>1, <1>4
<1>8. Distinct(f)
    BY <1>4, <1>7 DEF Distinct, IsInjective
<1>9. \A p \in Node : Among(f, p)
    BY <1>6, <1>7 DEF Surjection, Among
<1>. QED  BY <1>7, <1>8, <1>9 DEF f

(* An iterator is spliced where it is still in the list.                       *)
LEMMA SetsIterator ==
    ASSUME NEW l, NEW s, IsList(l, s), NEW i \in Iterators, NEW d \in Cursor, d.live => Walks(d, s)
    PROVE  WellFormed([ l EXCEPT !.it[i] = d ])
<1>. DEFINE its == [ l.it EXCEPT ![i] = d ]
            r   == [ l EXCEPT !.it = its ]
<1>1. /\ l \in Records /\ s \in Seq(Node) /\ Links(l, s) /\ Split(s, l.free)
      /\ \A e \in Iterators : l.it[e].live => Walks(l.it[e], s)
    BY DEF IsList
<1>2. l.it \in [Iterators -> Cursor]
    BY <1>1 DEF Records
<1>3. its \in [Iterators -> Cursor] /\ \A e \in Iterators : its[e] = IF e = i THEN d ELSE l.it[e]
    BY <1>2
<1>4. [ l EXCEPT !.it[i] = d ] = r
    BY <1>1 DEF Records
<1>. HIDE DEF its
<1>5. /\ r \in Records /\ r.it = its /\ r.head = l.head /\ r.tail = l.tail /\ r.count = l.count
      /\ r.node = l.node /\ r.free = l.free
    BY <1>1, <1>3 DEF Records
<1>. HIDE DEF r
<1>6. IsList(r, s)
    BY <1>1, <1>3, <1>5 DEF IsList, Links
<1>. QED  BY <1>1, <1>4, <1>6 DEF WellFormed

(* Two sequences, one after the other.                                     *)
LEMMA Joined ==
    ASSUME NEW a \in Seq(Node), NEW b \in Seq(Node)
    PROVE  /\ a \o b \in Seq(Node) /\ Len(a \o b) = Len(a) + Len(b)
           /\ \A k \in 1..Len(a) + Len(b) : (a \o b)[k] = IF k <= Len(a) THEN a[k] ELSE b[k - Len(a)]
    OBVIOUS

(* list_destroy: every node goes to the free list.                         *)
LEMMA DestroyAll ==
    ASSUME NEW l, NEW s, IsList(l, s), NEW its \in [Iterators -> Cursor],
           \A i \in Iterators : ~its[i].live
    PROVE  WellFormed([ l EXCEPT !.head = nil, !.tail = "head", !.count = 0,
                           !.node = [ p \in Node |-> blank ], !.free = Reverse(s) \o @, !.it = its ])
<1>. DEFINE n  == Len(s)
            m  == Len(l.free)
            b  == Reverse(s)
            f  == b \o l.free
            nd == [ p \in Node |-> blank ]
            r  == [ l EXCEPT !.head = nil, !.tail = "head", !.count = 0, !.node = nd, !.free = f, !.it = its ]
<1>1. l \in Records /\ s \in Seq(Node) /\ Split(s, l.free) /\ n \in Nat /\ l.free \in Seq(Node) /\ m \in Nat
    BY DEF IsList, Records
<1>2. b \in Seq(Node) /\ Len(b) = n /\ \A k \in 1..n : b[k] = s[(n - k) + 1] /\ (n - k) + 1 \in 1..n
    <2>1. \A k \in 1..n : (n - k) + 1 \in 1..n
        BY <1>1
    <2>2. \A k \in 1..n : s[(n - k) + 1] \in Node
        BY <1>1, <2>1
    <2>3. b = [ k \in 1..n |-> s[(n - k) + 1] ]
        BY DEF Reverse
    <2>. HIDE DEF b, n
    <2>4. b \in Seq(Node) /\ Len(b) = n
        BY <1>1, <2>2, <2>3
    <2>. QED  BY <2>1, <2>3, <2>4
<1>. HIDE DEF b
<1>3. /\ f \in Seq(Node) /\ Len(f) = n + m
      /\ \A k \in 1..n + m : f[k] = IF k <= n THEN b[k] ELSE l.free[k - n]
    <2>1. b \in Seq(Node) /\ l.free \in Seq(Node) /\ Len(b) = n /\ Len(l.free) = m
        BY <1>1, <1>2
    <2>2. /\ f \in Seq(Node) /\ Len(f) = Len(b) + Len(l.free)
          /\ \A k \in 1..Len(b) + Len(l.free) : f[k] = IF k <= Len(b) THEN b[k] ELSE l.free[k - Len(b)]
        <3>. HIDE DEF n, m
        <3>. QED  BY <2>1, Joined
    <2>. HIDE DEF f, n, m
    <2>. QED  BY <2>1, <2>2
<1>. HIDE DEF f
<1>4. /\ Distinct(s) /\ Distinct(l.free)
      /\ \A p \in Node : Among(s, p) <=> ~Among(l.free, p)
    BY <1>1 DEF Split
<1>5. (\A k \in 1..n : s[k] \in Node) /\ (\A k \in 1..m : l.free[k] \in Node)
    BY <1>1
<1>. HIDE DEF n, m
<1>6. \A k \in 1..n + m : IF k <= n THEN k \in 1..n /\ (n - k) + 1 \in 1..n ELSE k - n \in 1..m
    BY <1>1
<1>7. ASSUME NEW j \in 1..n + m, NEW k \in 1..n + m, f[j] = f[k]
      PROVE  j = k
    <2>1. CASE j <= n /\ k <= n
        <3>1. s[(n - j) + 1] = s[(n - k) + 1]
            BY <1>2, <1>3, <1>6, <1>7, <2>1
        <3>2. (n - j) + 1 = (n - k) + 1
            BY <1>4, <1>6, <2>1, <3>1 DEF Distinct, n
        <3>. QED  BY <1>1, <3>2
    <2>2. CASE ~(j <= n) /\ ~(k <= n)
        <3>1. j - n \in 1..m /\ k - n \in 1..m /\ l.free[j - n] = l.free[k - n]
            BY <1>3, <1>6, <1>7, <2>2
        <3>2. j - n = k - n
            BY <1>4, <3>1 DEF Distinct, m
        <3>. QED  BY <1>1, <3>2
    <2>3. CASE j <= n /\ ~(k <= n)
        <3>1. (n - j) + 1 \in 1..n /\ k - n \in 1..m /\ s[(n - j) + 1] = l.free[k - n]
            BY <1>2, <1>3, <1>6, <1>7, <2>3
        <3>2. l.free[k - n] \in Node /\ Among(s, l.free[k - n]) /\ Among(l.free, l.free[k - n])
            BY <1>5, <3>1 DEF Among, n, m
        <3>. QED  BY <1>4, <3>2
    <2>4. CASE ~(j <= n) /\ k <= n
        <3>1. (n - k) + 1 \in 1..n /\ j - n \in 1..m /\ s[(n - k) + 1] = l.free[j - n]
            BY <1>2, <1>3, <1>6, <1>7, <2>4
        <3>2. l.free[j - n] \in Node /\ Among(s, l.free[j - n]) /\ Among(l.free, l.free[j - n])
            BY <1>5, <3>1 DEF Among, n, m
        <3>. QED  BY <1>4, <3>2
    <2>. QED  BY <2>1, <2>2, <2>3, <2>4
<1>8. ASSUME NEW p \in Node
      PROVE  Among(f, p)
    <2>1. CASE Among(s, p)
        <3>1. PICK k \in 1..n : s[k] = p
            BY <2>1 DEF Among, n
        <3>. DEFINE e == (n - k) + 1
        <3>2. e \in 1..n /\ (n - e) + 1 = k /\ e \in 1..n + m /\ e <= n
            BY <1>1
        <3>. HIDE DEF e
        <3>3. f[e] = p
            BY <1>2, <1>3, <3>1, <3>2
        <3>. QED  BY <1>3, <3>2, <3>3 DEF Among
    <2>2. CASE ~Among(s, p)
        <3>1. Among(l.free, p)
            BY <1>4, <2>2
        <3>2. PICK k \in 1..m : l.free[k] = p
            BY <3>1 DEF Among, m
        <3>3. n + k \in 1..n + m /\ ~(n + k <= n) /\ (n + k) - n = k
            BY <1>1
        <3>4. f[n + k] = p
            BY <1>3, <3>2, <3>3
        <3>. QED  BY <1>3, <3>3, <3>4 DEF Among
    <2>. QED  BY <2>1, <2>2
<1>9. Distinct(f)
    BY <1>3, <1>7 DEF Distinct
<1>10. nd \in [Node -> [ data : Nat, next : Ref ]]
    BY DEF blank, Ref
<1>. HIDE DEF nd
<1>11. /\ r \in Records /\ r.head = nil /\ r.tail = "head" /\ r.count = 0 /\ r.free = f /\ r.it = its
    <2>1. nil \in Ref /\ "head" \in Addrs
        BY DEF Ref, Addrs
    <2>. QED  BY <1>1, <1>3, <1>10, <2>1 DEF Records
<1>. HIDE DEF r
<1>12. << >> \in Seq(Node) /\ Len(<< >>) = 0 /\ 1..0 = {}
    OBVIOUS
<1>13. Split(<< >>, f)
    BY <1>8, <1>9, <1>12 DEF Split, Distinct, Among
<1>14. Links(r, << >>)
    BY <1>11, <1>12 DEF Links, at, addr
<1>15. IsList(r, << >>)
    BY <1>11, <1>12, <1>13, <1>14 DEF IsList
<1>. QED  BY <1>12, <1>15 DEF WellFormed, r, f, b, nd

(***************************************************************************)
(* The invariant                                                           *)
(***************************************************************************)

(* The list is well formed to begin with.                                  *)
LEMMA InitIsList == ListInit => WellFormed(this)
<1>. SUFFICES ASSUME ListInit PROVE WellFormed(this)
    OBVIOUS
<1>1. head = nil /\ tail = "head" /\ count = 0 /\ node = [ p \in Node |-> blank ] /\ free = SetToSeq(Node)
      /\ it = [ i \in Iterators |-> [ live |-> FALSE, pos |-> nil, prev |-> "head" ] ]
    BY DEF ListInit
<1>2. free \in Seq(Node) /\ Distinct(free) /\ \A p \in Node : Among(free, p)
    BY <1>1, AllNodes
<1>3. << >> \in Seq(Node) /\ Len(<< >>) = 0 /\ 1..0 = {}
    OBVIOUS
<1>4. nil \in Ref /\ "head" \in Addrs
    BY DEF Ref, Addrs
<1>5. node \in [Node -> [ data : Nat, next : Ref ]]
    BY <1>1, <1>4 DEF blank
<1>6. it \in [Iterators -> Cursor] /\ \A i \in Iterators : ~it[i].live
    BY <1>1, <1>4 DEF Cursor
<1>7. this \in Records
    BY <1>1, <1>2, <1>4, <1>5, <1>6 DEF this, Records
<1>8. /\ this.head = nil /\ this.tail = "head" /\ this.count = 0 /\ this.free = free /\ this.it = it
    BY <1>1 DEF this
<1>9. Links(this, << >>)
    BY <1>3, <1>8 DEF Links, at, addr
<1>10. Split(<< >>, this.free)
    BY <1>2, <1>3, <1>8 DEF Split, Distinct, Among
<1>11. IsList(this, << >>)
    BY <1>3, <1>6, <1>7, <1>8, <1>9, <1>10 DEF IsList
<1>. QED  BY <1>3, <1>11 DEF WellFormed

(* What becomes of it.                                                     *)
LEMMA BecomesThis ==
    ASSUME NEW l, WellFormed(l), Becomes(l)
    PROVE  WellFormed(this)'
<1>1. l \in Records
    BY DEF WellFormed, IsList
<1>2. l = [ head |-> l.head, tail |-> l.tail, count |-> l.count, node |-> l.node, free |-> l.free, it |-> l.it ]
    BY <1>1 DEF Records
<1>3. this' = l
    BY <1>2 DEF this, Becomes
<1>4. WellFormed(this')
    BY <1>3
<1>. QED  BY <1>4 DEF WellFormed, IsList, Links, Walks, Records, Cursor, Ref, Addrs

(* A step leaves a list.                                                   *)
LEMMA ListStep ==
    ASSUME WellFormed(this), [ListNext]_list_vars
    PROVE  WellFormed(this)'
<1>1. PICK s \in Seq(Node) : IsList(this, s)
    BY DEF WellFormed
<1>2. /\ this.head = head /\ this.tail = tail /\ this.count = count /\ this.node = node
      /\ this.free = free /\ this.it = it
    BY DEF this
<1>3. /\ Len(s) \in Nat /\ tail = addr(s, Len(s)) /\ head = at(s, 1) /\ "head" = addr(s, 0)
      /\ 0 \in 0..Len(s) /\ Len(s) \in 0..Len(s) /\ chain(this) = s /\ it \in [Iterators -> Cursor]
      /\ \A i \in Iterators : it[i].live => Walks(it[i], s)
    <2>1. tail = addr(s, Len(s)) /\ head = at(s, 1) /\ it \in [Iterators -> Cursor]
          /\ \A i \in Iterators : it[i].live => Walks(it[i], s)
        BY <1>1, <1>2 DEF IsList, Links, Records
    <2>2. chain(this) = s
        BY <1>1, ChainIs
    <2>3. Len(s) \in Nat /\ 0 \in 0..Len(s) /\ Len(s) \in 0..Len(s) /\ "head" = addr(s, 0)
        BY <1>1 DEF addr
    <2>. QED  BY <2>1, <2>2, <2>3
<1>4. head \in Ref /\ nil \in Ref /\ "head" \in Addrs
    <2>1. this \in Records
        BY <1>1 DEF IsList
    <2>. QED  BY <1>2, <2>1 DEF Records, Ref, Addrs
<1>5. \A x \in Items : x \in Nat
    BY ListAssumption
<1>6. ASSUME UNCHANGED list
      PROVE  WellFormed(this)'
    <2>1. this' = this
        BY <1>6 DEF list, this
    <2>2. WellFormed(this')
        BY <2>1
    <2>. QED  BY <2>2 DEF WellFormed, IsList, Links, Walks, Records, Cursor, Ref, Addrs
<1>7. CASE \E x \in Items : Add(x)
    <2>1. PICK x \in Items : Add(x)
        BY <1>7
    <2>2. WellFormed(list_node_create(this, tail, x)) /\ WellFormed(list_node_create(this, "head", x))
        BY <1>1, <1>3, <1>5, CreateList
    <2>. QED  BY <2>1, <2>2, BecomesThis DEF Add
<1>8. CASE Pop
    <2>1. WellFormed(list_node_destroy(this, "head"))
        BY <1>1, <1>3, DestroyWellFormed
    <2>. QED  BY <1>8, <2>1, BecomesThis DEF Pop
<1>10. CASE Destroy
    <2>. DEFINE its == [ i \in Iterators |-> [ live |-> FALSE, pos |-> nil, prev |-> "head" ] ]
    <2>1. its \in [Iterators -> Cursor] /\ \A i \in Iterators : ~its[i].live
        BY <1>4 DEF Cursor
    <2>. DEFINE l == [ this EXCEPT !.head = nil, !.tail = "head", !.count = 0,
                         !.node = [ p \in Node |-> blank ], !.free = Reverse(s) \o @, !.it = its ]
    <2>2. WellFormed(l)
        <3>. HIDE DEF its
        <3>. QED  BY <1>1, <2>1, DestroyAll
    <2>3. Becomes(l)
        BY <1>3, <1>10 DEF Destroy
    <2>. HIDE DEF l
    <2>. QED  BY <2>2, <2>3, BecomesThis
<1>11. CASE \E k \in Keys : DeleteAll(k) \/ Look(k)
    <2>1. PICK k \in Keys : DeleteAll(k) \/ Look(k)
        BY <1>11
    <2>2. CASE DeleteAll(k)
        <3>1. WellFormed(list_delete_all(this, k).l)
            BY <1>1, DeleteAllList
        <3>. QED  BY <2>2, <3>1, BecomesThis DEF DeleteAll
    <2>3. CASE Look(k)
        BY <1>6, <2>3 DEF Look
    <2>. QED  BY <2>1, <2>2, <2>3
<1>12. ASSUME NEW i \in Iterators,
              \/ Create(i) \/ Forget(i) \/ Reset(i) \/ NextItem(i) \/ Remove1(i)
              \/ \E k \in Keys : Find(i, k)
              \/ \E x \in Items : Insert(i, x)
       PROVE  WellFormed(this)'
    <2>1. at(s, 0 + 1) = head
        BY <1>3
    <2>2. CASE Create(i)
        <3>. DEFINE d == [ live |-> TRUE, pos |-> head, prev |-> "head" ]
        <3>1. d \in Cursor /\ d.pos = head /\ d.prev = "head"
            BY <1>4 DEF Cursor
        <3>2. Becomes([ this EXCEPT !.it[i] = d ])
            BY <2>2 DEF Create
        <3>. HIDE DEF d
        <3>3. Walks(d, s)
            BY <1>3, <2>1, <3>1 DEF Walks
        <3>4. WellFormed([ this EXCEPT !.it[i] = d ])
            BY <1>1, <3>1, <3>3, SetsIterator
        <3>. QED  BY <3>2, <3>4, BecomesThis
    <2>3. CASE Forget(i)
        <3>. DEFINE d == [ live |-> FALSE, pos |-> nil, prev |-> "head" ]
        <3>1. d \in Cursor /\ ~d.live
            BY <1>4 DEF Cursor
        <3>2. Becomes([ this EXCEPT !.it[i] = d ])
            BY <2>3 DEF Forget
        <3>. HIDE DEF d
        <3>3. WellFormed([ this EXCEPT !.it[i] = d ])
            BY <1>1, <3>1, SetsIterator
        <3>. QED  BY <3>2, <3>3, BecomesThis
    <2>4. CASE Reset(i)
        <3>. DEFINE d == reset(this, it[i])
        <3>1. d \in Cursor /\ d.pos = head /\ d.prev = "head"
            BY <1>2, <1>3, <1>4 DEF Cursor, reset
        <3>2. Becomes([ this EXCEPT !.it[i] = d ])
            BY <1>2, <2>4 DEF Reset
        <3>. HIDE DEF d
        <3>3. Walks(d, s)
            BY <1>3, <2>1, <3>1 DEF Walks
        <3>4. WellFormed([ this EXCEPT !.it[i] = d ])
            BY <1>1, <3>1, <3>3, SetsIterator
        <3>. QED  BY <3>2, <3>4, BecomesThis
    <2>5. CASE NextItem(i)
        <3>1. it[i].live /\ Becomes(list_next(this, i))
            BY <2>5 DEF NextItem
        <3>2. WellFormed(list_next(this, i))
            BY <1>1, <1>2, <3>1, NextList DEF WellFormed
        <3>. QED  BY <3>1, <3>2, BecomesThis
    <2>6. CASE Remove1(i)
        <3>1. it[i].live /\ Becomes(list_remove(this, i))
            BY <2>6 DEF Remove1
        <3>2. WellFormed(list_remove(this, i))
            BY <1>1, <1>2, <3>1, RemoveList
        <3>. QED  BY <3>1, <3>2, BecomesThis
    <2>7. CASE \E k \in Keys : Find(i, k)
        <3>1. PICK k \in Keys : it[i].live /\ Becomes(list_find(this, i, k))
            BY <2>7 DEF Find
        <3>2. WellFormed(list_find(this, i, k))
            BY <1>1, <1>2, <3>1, FindList DEF WellFormed
        <3>. QED  BY <3>1, <3>2, BecomesThis
    <2>8. CASE \E x \in Items : Insert(i, x)
        <3>1. PICK x \in Items : it[i].live /\ Becomes(list_node_create(this, it[i].prev, x))
            BY <2>8 DEF Insert
        <3>2. \E q \in 0..Len(s) : it[i].prev = addr(s, q)
            BY <1>3, <3>1 DEF Walks
        <3>3. WellFormed(list_node_create(this, it[i].prev, x))
            BY <1>1, <1>5, <3>2, CreateList
        <3>. QED  BY <3>1, <3>3, BecomesThis
    <2>. QED  BY <1>12, <2>2, <2>3, <2>4, <2>5, <2>6, <2>7, <2>8
<1>13. CASE UNCHANGED list_vars
    BY <1>6, <1>13 DEF list, list_vars
<1>. QED  BY <1>7, <1>8, <1>10, <1>11, <1>12, <1>13 DEF ListNext

(* What follows of the iterators, and of the nodes.                        *)
LEMMA ListGives ==
    ASSUME WellFormed(this)
    PROVE  IteratorsPointIntoList /\ NodesAccounted
<1>1. PICK s \in Seq(Node) : IsList(this, s)
    BY DEF WellFormed
<1>2. /\ this.head = head /\ this.tail = tail /\ this.count = count /\ this.node = node
      /\ this.free = free /\ this.it = it
    BY DEF this
<1>3. Links(this, s) /\ Split(s, free) /\ free \in Seq(Node) /\ chain(this) = s /\ Len(s) \in Nat
    BY <1>1, <1>2, ChainIs DEF IsList, Records
<1>4. \A k \in 1..Len(s) : s[k] \in Node /\ s[k] \in ToSet(s) /\ at(s, k) = s[k] /\ s[k] # nil
    BY <1>1, ListAssumption DEF ToSet, at
<1>5. ASSUME NEW i \in Iterators, it[i].live
      PROVE  /\ it[i].prev \in { "head" } \cup ToSet(s)
             /\ it[i].pos \in { nil } \cup ToSet(s)
             /\ \/ it[i].pos = deref(this, it[i].prev)
                \/ /\ deref(this, it[i].prev) # nil
                   /\ it[i].pos = node[deref(this, it[i].prev)].next
    <2>1. PICK j \in 0..Len(s) : /\ it[i].prev = addr(s, j)
                                 /\ it[i].pos = at(s, j + 1) \/ (j < Len(s) /\ it[i].pos = at(s, j + 2))
        BY <1>1, <1>2, <1>5 DEF IsList, Walks
    <2>2. addr(s, j) \in { "head" } \cup ToSet(s)
        <3>1. j = 0 \/ j \in 1..Len(s)
            BY <1>3
        <3>. QED  BY <1>4, <3>1 DEF addr
    <2>3. \A k : at(s, k) \in { nil } \cup ToSet(s)
        BY <1>4 DEF at
    <2>4. deref(this, addr(s, j)) = at(s, j + 1)
        BY <1>1, Leads
    <2>5. j < Len(s) => at(s, j + 1) # nil /\ node[at(s, j + 1)].next = at(s, j + 2)
        <3>1. j < Len(s) => j + 1 \in 1..Len(s) /\ (j + 1) + 1 = j + 2
            BY <1>3
        <3>2. \A k \in 1..Len(s) : node[s[k]].next = at(s, k + 1)
            BY <1>2, <1>3 DEF Links
        <3>. QED  BY <1>4, <3>1, <3>2
    <2>. QED  BY <2>1, <2>2, <2>3, <2>4, <2>5
<1>6. ToSet(s) \cup ToSet(free) = Node
    <2>1. \A p \in Node : Among(s, p) \/ Among(free, p)
        BY <1>3 DEF Split
    <2>2. \A p : (Among(s, p) => p \in ToSet(s)) /\ (Among(free, p) => p \in ToSet(free))
        BY <1>1, <1>3 DEF Among, ToSet
    <2>3. ToSet(s) \subseteq Node /\ ToSet(free) \subseteq Node
        BY <1>1, <1>3 DEF ToSet
    <2>. QED  BY <2>1, <2>2, <2>3
<1>7. count + Len(free) = Cardinality(Node)
    BY <1>1, <1>2, <1>3, AllCounted DEF Links
<1>8. tail = IF count = 0 THEN "head" ELSE s[count]
    BY <1>2, <1>3 DEF Links, addr
<1>9. deref(this, tail) = nil
    <2>1. tail = addr(s, Len(s)) /\ Len(s) \in 0..Len(s) /\ Len(s) + 1 \notin 1..Len(s)
        BY <1>2, <1>3 DEF Links
    <2>2. deref(this, tail) = at(s, Len(s) + 1)
        BY <1>1, <2>1, Leads
    <2>. QED  BY <2>1, <2>2 DEF at
<1>. QED  BY <1>3, <1>5, <1>6, <1>7, <1>8, <1>9 DEF IteratorsPointIntoList, NodesAccounted

(* An iterator of a list points into it, whatever was added, removed or    *)
(* sorted since it was made (list.c), for any nodes and items.             *)
THEOREM IteratorsStayInList == ListSpec => []IteratorsPointIntoList
<1>1. ListInit => WellFormed(this)
    BY InitIsList
<1>2. WellFormed(this) /\ [ListNext]_list_vars => WellFormed(this)'
    BY ListStep
<1>3. WellFormed(this) => IteratorsPointIntoList
    BY ListGives
<1>. QED  BY <1>1, <1>2, <1>3, PTL DEF ListSpec

(* No node of a list is lost or linked twice, and tail is where the list   *)
(* ends (list.c), for any nodes and items.                                 *)
THEOREM NodesStayAccounted == ListSpec => []NodesAccounted
<1>1. ListInit => WellFormed(this)
    BY InitIsList
<1>2. WellFormed(this) /\ [ListNext]_list_vars => WellFormed(this)'
    BY ListStep
<1>3. WellFormed(this) => NodesAccounted
    BY ListGives
<1>. QED  BY <1>1, <1>2, <1>3, PTL DEF ListSpec

(***************************************************************************)
(* A hash table                                                            *)
(***************************************************************************)
Entry == [ hkey : HashKeys, data : Nat \ {0} ]
Tables(m) == [ size : {m}, chain : [0..m - 1 -> Seq(Entry)], count : Nat ]

(* The chain of a key is there.                                            *)
LEMMA ChainThere ==
    ASSUME NEW m \in Nat \ {0}, NEW t \in Tables(m), NEW k \in HashKeys
    PROVE  /\ hash_key[k] % m \in 0..m - 1 /\ t.size = m
           /\ chain_of(t, k) = t.chain[hash_key[k] % m] /\ chain_of(t, k) \in Seq(Entry)
<1>1. hash_key[k] \in Nat
    BY HashAssumption
<1>2. hash_key[k] % m \in 0..m - 1
    BY <1>1
<1>. QED  BY <1>2 DEF chain_of, Tables

(* The first node with the key.                                            *)
FirstAt(c, k, i) ==
    i \in 1..Len(c) /\ c[i].hkey = k /\ \A j \in 1..Len(c) : c[j].hkey = k => i <= j

(* What is found is its data.                                              *)
LEMMA FindsFirst ==
    ASSUME NEW m \in Nat \ {0}, NEW t \in Tables(m), NEW k \in HashKeys
    PROVE  /\ places(t, k) = {} => hash_find(t, k) = 0
           /\ places(t, k) # {} => \E i : FirstAt(chain_of(t, k), k, i)
           /\ \A i : FirstAt(chain_of(t, k), k, i) =>
                places(t, k) # {} /\ hash_find(t, k) = chain_of(t, k)[i].data /\ hash_find(t, k) \in Nat \ {0}
<1>. DEFINE c == chain_of(t, k)
            e == places(t, k)
            w == { i \in e : \A j \in e : i <= j }
<1>1. c \in Seq(Entry) /\ Len(c) \in Nat /\ DOMAIN c = 1..Len(c)
    BY ChainThere
<1>2. e = { i \in 1..Len(c) : c[i].hkey = k }
    BY <1>1 DEF places
<1>3. hash_find(t, k) = IF w = {} THEN 0 ELSE c[CHOOSE i \in w : TRUE].data
    BY DEF hash_find
<1>4. \A i : i \in w <=> FirstAt(c, k, i)
    BY <1>2 DEF FirstAt
<1>5. \A i, j \in w : i = j
    <2>1. \A i, j \in w : i \in Int /\ j \in Int /\ i <= j /\ j <= i
        BY <1>2
    <2>. QED  BY <2>1
<1>6. \A i \in w : c[i].data \in Nat \ {0}
    <2>1. \A i \in 1..Len(c) : c[i] \in Entry
        BY <1>1
    <2>2. w \subseteq 1..Len(c)
        BY <1>2
    <2>. HIDE DEF w, c
    <2>. QED  BY <2>1, <2>2 DEF Entry
<1>7. e # {} => w # {}
    <2>1. IsFiniteSet(1..Len(c)) /\ e \in SUBSET (1..Len(c))
        BY <1>1, <1>2, FS_Interval
    <2>2. IsFiniteSet(e)
        BY <2>1, FS_Subset
    <2>3. e \in SUBSET Int
        BY <2>1
    <2>. HIDE DEF e
    <2>. QED  BY <2>2, <2>3, LeastAndGreatest
<1>8. w \subseteq e
    OBVIOUS
<1>9. \A i \in w : (CHOOSE j \in w : TRUE) = i
    <2>. HIDE DEF w
    <2>. QED  BY <1>5
<1>. HIDE DEF c, e, w
<1>10. \A i \in w : hash_find(t, k) = c[i].data
    BY <1>3, <1>9
<1>11. e = {} => hash_find(t, k) = 0
    BY <1>3, <1>8
<1>12. e # {} => \E i : FirstAt(c, k, i)
    BY <1>4, <1>7
<1>13. \A i : FirstAt(c, k, i) => e # {} /\ hash_find(t, k) = c[i].data /\ hash_find(t, k) \in Nat \ {0}
    BY <1>4, <1>6, <1>8, <1>10
<1>. QED  BY <1>11, <1>12, <1>13 DEF c, e

(* A key is found when it is there.                                        *)
LEMMA FindsKeys ==
    ASSUME NEW m \in Nat \ {0}, NEW t \in Tables(m), NEW k \in HashKeys
    PROVE  hash_find(t, k) \in Nat /\ (hash_find(t, k) = 0 <=> places(t, k) = {})
BY FindsFirst

(* What an insert changes: the new node comes first in its chain.          *)
Inserted(t, r, m, k, d) ==
    LET h == hash_key[k] % m
    IN /\ r \in Tables(m) /\ r.count = t.count + 1 /\ h \in 0..m - 1
       /\ \A s \in 0..m - 1 : s # h => r.chain[s] = t.chain[s]
       /\ Len(r.chain[h]) = Len(t.chain[h]) + 1
       /\ r.chain[h][1].hkey = k /\ r.chain[h][1].data = d
       /\ \A i \in 1..Len(t.chain[h]) : r.chain[h][i + 1] = t.chain[h][i]

(* hash_insert does just that with a key the table does not have.          *)
LEMMA InsertIs ==
    ASSUME NEW m \in Nat \ {0}, NEW t \in Tables(m), NEW k \in HashKeys, NEW d \in Nat \ {0}, places(t, k) = {}
    PROVE  Inserted(t, hash_insert(t, k, d), m, k, d)
<1>. DEFINE h  == hash_key[k] % m
            e  == [ hkey |-> k, data |-> d ]
            c  == << e >> \o t.chain[h]
            ch == [ t.chain EXCEPT ![h] = c ]
            r  == [ t EXCEPT !.chain = ch, !.count = @ + 1 ]
<1>1. h \in 0..m - 1 /\ t.size = m /\ t.chain \in [0..m - 1 -> Seq(Entry)] /\ t.count \in Nat
    BY ChainThere DEF Tables
<1>2. hash_insert(t, k, d) = r
    BY <1>1 DEF hash_insert, Tables
<1>3. t.chain[h] \in Seq(Entry)
    BY <1>1
<1>. DEFINE old == t.chain[h]
<1>4. e \in Entry /\ e.hkey = k /\ e.data = d
    BY DEF Entry
<1>. HIDE DEF e, h
<1>5. << e >> \in Seq(Entry) /\ Len(<< e >>) = 1 /\ << e >>[1] = e
    BY <1>4
<1>6. /\ c \in Seq(Entry) /\ Len(c) = Len(old) + 1 /\ Len(old) \in Nat
      /\ c[1] = e /\ \A i \in 1..Len(old) : c[i + 1] = old[i]
    <2>1. old \in Seq(Entry)
        BY <1>3
    <2>. HIDE DEF old
    <2>2. /\ << e >> \o old \in Seq(Entry) /\ Len(<< e >> \o old) = Len(old) + 1 /\ Len(old) \in Nat
          /\ (<< e >> \o old)[1] = e /\ \A i \in 1..Len(old) : (<< e >> \o old)[i + 1] = old[i]
        BY <1>5, <2>1
    <2>. QED  BY <2>2 DEF old
<1>. HIDE DEF c, old
<1>7. ch \in [0..m - 1 -> Seq(Entry)] /\ \A s \in 0..m - 1 : ch[s] = IF s = h THEN c ELSE t.chain[s]
    BY <1>1, <1>6
<1>. HIDE DEF ch
<1>8. r \in Tables(m) /\ r.chain = ch /\ r.count = t.count + 1
    <2>. DEFINE C == [0..m - 1 -> Seq(Entry)]
    <2>1. t \in [ size : {m}, chain : C, count : Nat ] /\ ch \in C
        BY <1>7 DEF Tables
    <2>. HIDE DEF C
    <2>. DEFINE n == t.count + 1
    <2>3. r = [ t EXCEPT !.chain = ch, !.count = n ]
        OBVIOUS
    <2>4. n \in Nat
        BY <1>1
    <2>. HIDE DEF n, r
    <2>2. r \in [ size : {m}, chain : C, count : Nat ] /\ r.chain = ch /\ r.count = n
        BY <2>1, <2>3, <2>4
    <2>. QED  BY <2>2 DEF Tables, C, n
<1>. HIDE DEF r
<1>9. /\ h \in 0..m - 1 /\ \A s \in 0..m - 1 : s # h => r.chain[s] = t.chain[s]
      /\ r.chain[h] = c
    BY <1>1, <1>7, <1>8
<1>10. t.chain[h] = old
    BY DEF old
<1>11. /\ Len(r.chain[h]) = Len(t.chain[h]) + 1 /\ r.chain[h][1].hkey = k /\ r.chain[h][1].data = d
       /\ \A i \in 1..Len(t.chain[h]) : r.chain[h][i + 1] = t.chain[h][i]
    BY <1>4, <1>6, <1>9, <1>10
<1>. QED  BY <1>2, <1>8, <1>9, <1>11 DEF Inserted, h

(* A new key gets its data, unless it is there; the others keep theirs.    *)
LEMMA InsertFinds ==
    ASSUME NEW m \in Nat \ {0}, NEW t \in Tables(m), NEW k \in HashKeys, NEW d \in Nat \ {0}
    PROVE  /\ hash_insert(t, k, d) \in Tables(m)
           /\ \A j \in HashKeys : hash_find(hash_insert(t, k, d), j)
                = IF j = k /\ hash_find(t, k) = 0 THEN d ELSE hash_find(t, j)
<1>1. CASE places(t, k) # {}
    <2>1. hash_insert(t, k, d) = t /\ hash_find(t, k) # 0
        BY <1>1, FindsKeys DEF hash_insert
    <2>. QED  BY <2>1
<1>2. CASE places(t, k) = {}
    <2>. DEFINE h   == hash_key[k] % m
                r   == hash_insert(t, k, d)
                old == t.chain[h]
                c   == r.chain[h]
    <2>1. Inserted(t, r, m, k, d)
        BY <1>2, InsertIs
    <2>2. /\ r \in Tables(m) /\ h \in 0..m - 1 /\ \A s \in 0..m - 1 : s # h => r.chain[s] = t.chain[s]
          /\ Len(c) = Len(old) + 1 /\ c[1].hkey = k /\ c[1].data = d /\ \A i \in 1..Len(old) : c[i + 1] = old[i]
        BY <2>1 DEF Inserted
    <2>3. Len(old) \in Nat
        <3>1. old \in Seq(Entry)
            BY <2>2 DEF Tables
        <3>. QED  BY <3>1
    <2>. HIDE DEF h, r, old, c
    <2>9. ASSUME NEW j \in HashKeys
          PROVE  hash_find(r, j) = IF j = k THEN d ELSE hash_find(t, j)
        <3>. DEFINE g  == hash_key[j] % m
                    ct == chain_of(t, j)
                    cr == chain_of(r, j)
        <3>1. /\ g \in 0..m - 1 /\ ct = t.chain[g] /\ cr = r.chain[g]
              /\ ct \in Seq(Entry) /\ cr \in Seq(Entry)
            BY <2>2, ChainThere DEF h
        <3>2. CASE j = k
            <4>1. g = h
                BY <3>2 DEF h
            <4>2. cr = c
                BY <3>1, <4>1 DEF c
            <4>3. FirstAt(cr, j, 1)
                BY <2>2, <2>3, <3>2, <4>2 DEF FirstAt
            <4>4. hash_find(r, j) = cr[1].data
                BY <2>2, <4>3, FindsFirst
            <4>. QED  BY <2>2, <2>3, <3>2, <4>2, <4>4
        <3>3. CASE j # k /\ g # h
            <4>1. cr = ct
                BY <2>2, <3>1, <3>3
            <4>2. places(r, j) = places(t, j)
                BY <4>1 DEF places
            <4>. QED  BY <3>3, <4>1, <4>2, FindsFirst, <2>2
        <3>4. CASE j # k /\ g = h
            <4>1. cr = c /\ ct = old
                BY <3>1, <3>4 DEF old, c
            <4>2. \A i \in 1..Len(c) : c[i].hkey = j => i - 1 \in 1..Len(old) /\ old[i - 1].hkey = j
                <5>1. \A i \in 1..Len(c) : i = 1 \/ (i - 1 \in 1..Len(old) /\ (i - 1) + 1 = i)
                    BY <2>2, <2>3
                <5>2. c[1].hkey # j
                    BY <2>2, <2>3, <3>4
                <5>. QED  BY <2>2, <2>3, <5>1, <5>2
            <4>3. CASE places(t, j) = {}
                <5>1. \A i \in 1..Len(old) : old[i].hkey # j
                    BY <3>1, <4>1, <4>3 DEF places
                <5>2. places(r, j) = {}
                    BY <3>1, <4>1, <4>2, <5>1 DEF places
                <5>. QED  BY <2>2, <3>4, <4>3, <5>2, FindsFirst
            <4>4. CASE places(t, j) # {}
                <5>1. PICK i : FirstAt(old, j, i)
                    BY <4>1, <4>4, FindsFirst
                <5>2. i + 1 \in 1..Len(c) /\ c[i + 1] = old[i] /\ i \in Nat
                    BY <2>2, <2>3, <5>1 DEF FirstAt
                <5>3. FirstAt(c, j, i + 1)
                    <6>1. \A q \in 1..Len(c) : c[q].hkey = j => i <= q - 1
                        BY <4>2, <5>1 DEF FirstAt
                    <6>2. \A q \in 1..Len(c) : i <= q - 1 => i + 1 <= q
                        BY <2>2, <2>3, <5>2
                    <6>. QED  BY <5>1, <5>2, <6>1, <6>2 DEF FirstAt
                <5>4. hash_find(t, j) = old[i].data
                    BY <4>1, <5>1, FindsFirst
                <5>5. hash_find(r, j) = c[i + 1].data
                    BY <2>2, <4>1, <5>3, FindsFirst
                <5>. QED  BY <3>4, <5>2, <5>4, <5>5
            <4>. QED  BY <4>3, <4>4
        <3>. QED  BY <3>2, <3>3, <3>4
    <2>10. hash_find(t, k) = 0
        BY <1>2, FindsFirst
    <2>. QED  BY <2>2, <2>9, <2>10 DEF r
<1>. QED  BY <1>1, <1>2

(* A table that was just created.                                          *)
LEMMA CreatesEmpty ==
    ASSUME NEW n \in Int
    PROVE  \E m \in Nat \ {0} : /\ hash_create(n) \in Tables(m) /\ hash_create(n).count = 0
                                /\ \A s \in 0..m - 1 : hash_create(n).chain[s] = << >>
                                /\ \A k \in HashKeys : hash_find(hash_create(n), k) = 0
<1>. DEFINE m == IF n <= 0 THEN HASH_DEF_SIZE ELSE n
            t == hash_create(n)
<1>1. m \in Nat \ {0}
    BY HashAssumption
<1>2. t = [ size |-> m, chain |-> [ s \in 0..m - 1 |-> << >> ], count |-> 0 ]
    BY DEF hash_create
<1>. HIDE DEF m, t
<1>3. << >> \in Seq(Entry)
    OBVIOUS
<1>4. t \in Tables(m) /\ t.chain = [ s \in 0..m - 1 |-> << >> ] /\ t.count = 0
    BY <1>2, <1>3 DEF Tables
<1>5. ASSUME NEW k \in HashKeys
      PROVE  hash_find(t, k) = 0
    <2>1. chain_of(t, k) = << >>
        BY <1>1, <1>4, ChainThere
    <2>2. places(t, k) = {}
        BY <2>1 DEF places
    <2>. QED  BY <1>1, <1>4, <2>2, FindsFirst
<1>. QED  BY <1>1, <1>4, <1>5 DEF t

(***************************************************************************)
(* A hash table is a dictionary                                            *)
(***************************************************************************)
(* Each key is in the chain it belongs to, once.                           *)
OneEach(t, m) ==
    \A s \in 0..m - 1 : \A i \in 1..Len(t.chain[s]) :
        /\ hash_key[t.chain[s][i].hkey] % m = s
        /\ \A j \in 1..Len(t.chain[s]) : t.chain[s][j].hkey = t.chain[s][i].hkey => i = j

keys_of(t) == { k \in HashKeys : hash_find(t, k) # 0 }

TableIs(t, m) ==
    /\ t \in Tables(m) /\ OneEach(t, m)
    /\ IsFiniteSet(keys_of(t)) /\ t.count = Cardinality(keys_of(t))

(* What is found is what is there.                                         *)
LEMMA FindsOnly ==
    ASSUME NEW m \in Nat \ {0}, NEW t \in Tables(m), OneEach(t, m), NEW k \in HashKeys
    PROVE  /\ \A i \in 1..Len(chain_of(t, k)) : chain_of(t, k)[i].hkey = k => hash_find(t, k) = chain_of(t, k)[i].data
           /\ hash_find(t, k) # 0 => \E i \in 1..Len(chain_of(t, k)) : chain_of(t, k)[i].hkey = k
           /\ hash_find(t, k) \in Nat
<1>. DEFINE s == hash_key[k] % m
            c == chain_of(t, k)
<1>1. s \in 0..m - 1 /\ c = t.chain[s] /\ c \in Seq(Entry)
    BY ChainThere
<1>2. \A i, j \in 1..Len(c) : c[i].hkey = k /\ c[j].hkey = k => i = j
    BY <1>1 DEF OneEach
<1>3. ASSUME NEW i \in 1..Len(c), c[i].hkey = k
      PROVE  hash_find(t, k) = c[i].data
    <2>1. \A j \in 1..Len(c) : c[j].hkey = k => i <= j
        BY <1>2, <1>3
    <2>2. FirstAt(c, k, i)
        BY <1>3, <2>1 DEF FirstAt
    <2>. QED  BY <2>2, FindsFirst
<1>4. hash_find(t, k) # 0 => \E i \in 1..Len(c) : c[i].hkey = k
    BY FindsFirst DEF FirstAt
<1>5. hash_find(t, k) \in Nat
    BY FindsKeys
<1>. QED  BY <1>3, <1>4, <1>5

(* x has the nodes of y whose keys are not among those.                    *)
Kept(x, y, keys) ==
    /\ x \in Seq(Entry) /\ Len(x) \in Nat
    /\ \A i \in 1..Len(x) : \E p \in 1..Len(y) : y[p].hkey \notin keys /\ x[i] = y[p]
    /\ \A p \in 1..Len(y) : y[p].hkey \notin keys => \E i \in 1..Len(x) : x[i] = y[p]
    /\ \A i, j \in 1..Len(x) : x[i].hkey = x[j].hkey => i = j

(* They do when the other keys are taken out.                              *)
LEMMA KeptIs ==
    ASSUME NEW y \in Seq(Entry), \A i, j \in 1..Len(y) : y[i].hkey = y[j].hkey => i = j,
           NEW keys, NEW T, T = { i \in 1..Len(y) : y[i].hkey \notin keys }
    PROVE  Kept(elements_at(y, T), y, keys)
<1>. DEFINE a == Cardinality(T)
            f == ranked(T)
            x == elements_at(y, T)
<1>1. Len(y) \in Nat
    OBVIOUS
<1>. HIDE DEF x
<1>4. T \in SUBSET Int /\ IsFiniteSet(T)
    <2>1. T \in SUBSET (1..Len(y)) /\ IsFiniteSet(1..Len(y)) /\ 1..Len(y) \in SUBSET Int
        BY <1>1, FS_Interval
    <2>. QED  BY <2>1, FS_Subset
<1>5. a \in Nat /\ Ascends(f, a, T)
    BY <1>4, RankedAscends
<1>6. x = [ i \in 1..a |-> y[f[i]] ]
    BY DEF x, elements_at
<1>. HIDE DEF a, f
<1>7. /\ \A i \in 1..a : f[i] \in T /\ f[i] \in 1..Len(y)
      /\ \A p \in T : \E i \in 1..a : f[i] = p
      /\ \A i, j \in 1..a : i < j => f[i] < f[j]
    BY <1>1, <1>5 DEF Ascends
<1>8. x \in Seq(Entry) /\ Len(x) = a /\ \A i \in 1..a : x[i] = y[f[i]]
    <2>1. \A i \in 1..Len(y) : y[i] \in Entry
        BY <1>1
    <2>2. \A i \in 1..a : y[f[i]] \in Entry
        BY <1>7, <2>1
    <2>. QED  BY <1>5, <1>6, <2>2
<1>9. ASSUME NEW i \in 1..a PROVE \E p \in 1..Len(y) : y[p].hkey \notin keys /\ x[i] = y[p]
    BY <1>1, <1>7, <1>8
<1>10. ASSUME NEW p \in 1..Len(y), y[p].hkey \notin keys PROVE \E i \in 1..a : x[i] = y[p]
    <2>1. p \in T
        BY <1>1, <1>10
    <2>. QED  BY <1>7, <1>8, <2>1
<1>11. ASSUME NEW i \in 1..a, NEW j \in 1..a, x[i].hkey = x[j].hkey PROVE i = j
    <2>0. y[f[i]].hkey = y[f[j]].hkey /\ f[i] \in 1..Len(y) /\ f[j] \in 1..Len(y)
        BY <1>7, <1>8, <1>11
    <2>1. f[i] = f[j] /\ f[i] \in Int
        BY <2>0
    <2>2. ~(i < j) /\ ~(j < i)
        <3>1. ~(f[i] < f[j]) /\ ~(f[j] < f[i])
            BY <2>1
        <3>. QED  BY <1>7, <3>1, Zenon
    <2>. QED  BY <1>5, <2>2
<1>. QED  BY <1>5, <1>8, <1>9, <1>10, <1>11 DEF Kept, x
(* A node of a chain is what is found for its key.                         *)
LEMMA HasEach ==
    ASSUME NEW m \in Nat \ {0}, NEW t \in Tables(m), OneEach(t, m),
           NEW s \in 0..m - 1, NEW i \in 1..Len(t.chain[s])
    PROVE  /\ t.chain[s][i].hkey \in keys_of(t) /\ hash_key[t.chain[s][i].hkey] % m = s
           /\ hash_find(t, t.chain[s][i].hkey) = t.chain[s][i].data
<1>. DEFINE k == t.chain[s][i].hkey
<1>1. t.chain[s] \in Seq(Entry)
    BY DEF Tables
<1>2. t.chain[s][i] \in Entry
    BY <1>1
<1>3. k \in HashKeys /\ t.chain[s][i].data # 0
    BY <1>2 DEF Entry
<1>4. hash_key[k] % m = s
    BY DEF OneEach
<1>. HIDE DEF k
<1>5. chain_of(t, k) = t.chain[s]
    <2>1. chain_of(t, k) = t.chain[hash_key[k] % m]
        BY <1>3, ChainThere
    <2>. QED  BY <1>4, <2>1
<1>6. hash_find(t, k) = t.chain[s][i].data
    BY <1>3, <1>5, FindsOnly DEF k
<1>. QED  BY <1>3, <1>4, <1>6 DEF keys_of, k

(* What is left of the chains when some keys go.                           *)
LEMMA DeleteIs ==
    ASSUME NEW m \in Nat \ {0}, NEW t, TableIs(t, m), NEW keys
    PROVE  LET r == hash_delete_if(t, keys) IN
           /\ r \in Tables(m) /\ OneEach(r, m)
           /\ \A k \in HashKeys : hash_find(r, k) = IF k \in keys THEN 0 ELSE hash_find(t, k)
           /\ r.count = t.count - Cardinality(keys_of(t) \cap keys)
<1>. DEFINE D == 0..m - 1
            c == t.chain
            gone == [ s \in D |-> { i \in DOMAIN c[s] : c[s][i].hkey \in keys } ]
            S(s) == DOMAIN c[s] \ gone[s]
            ch == [ s \in D |-> elements_at(c[s], S(s)) ]
            G == UNION { {s} \X gone[s] : s \in D }
            n == t.count - Cardinality(G)
            r == hash_delete_if(t, keys)
            K == keys_of(t) \cap keys
<1>1. /\ t \in Tables(m) /\ OneEach(t, m) /\ IsFiniteSet(keys_of(t)) /\ t.count = Cardinality(keys_of(t))
      /\ c \in [D -> Seq(Entry)] /\ DOMAIN c = D /\ t.size = m /\ t.count \in Nat
    BY DEF TableIs, Tables
<1>2. r = [ t EXCEPT !.chain = ch, !.count = n ]
    <2>1. DOMAIN gone = D
        OBVIOUS
    <2>. QED  BY <1>1, <2>1 DEF hash_delete_if, Tables
<1>. HIDE DEF r
<1>3. ASSUME NEW s \in D
      PROVE  /\ c[s] \in Seq(Entry) /\ DOMAIN c[s] = 1..Len(c[s]) /\ Len(c[s]) \in Nat
             /\ gone[s] = { i \in 1..Len(c[s]) : c[s][i].hkey \in keys }
             /\ S(s) = { i \in 1..Len(c[s]) : c[s][i].hkey \notin keys }
    <2>1. c[s] \in Seq(Entry) /\ DOMAIN c[s] = 1..Len(c[s]) /\ Len(c[s]) \in Nat
        BY <1>1
    <2>. QED  BY <2>1
<1>4. ASSUME NEW s \in D
      PROVE  Kept(ch[s], c[s], keys)
    <2>1. c[s] \in Seq(Entry) /\ S(s) = { i \in 1..Len(c[s]) : c[s][i].hkey \notin keys }
        BY <1>3
    <2>2. \A i, j \in 1..Len(c[s]) : c[s][i].hkey = c[s][j].hkey => i = j
        BY <1>1 DEF OneEach
    <2>. HIDE DEF S, gone
    <2>3. Kept(elements_at(c[s], S(s)), c[s], keys)
        BY <2>1, <2>2, KeptIs
    <2>. QED  BY <2>3
<1>5. /\ Cardinality(G) = Cardinality(K) /\ IsFiniteSet(K) /\ Cardinality(K) \in Nat
      /\ Cardinality(K) <= Cardinality(keys_of(t))
    <2>. DEFINE f == [ g \in G |-> c[g[1]][g[2]].hkey ]
    <2>0. IsFiniteSet(K) /\ Cardinality(K) <= Cardinality(keys_of(t))
        BY <1>1, FS_Intersection
    <2>1. \A g \in G : g[1] \in D /\ g[2] \in gone[g[1]] /\ g = << g[1], g[2] >>
        OBVIOUS
    <2>2. \A g \in G : g[2] \in 1..Len(c[g[1]]) /\ f[g] \in keys
        BY <1>3, <2>1
    <2>. HIDE DEF gone
    <2>3. ASSUME NEW s \in D, NEW i \in gone[s] PROVE << s, i >> \in G
        OBVIOUS
    <2>. HIDE DEF G
    <2>10. ASSUME NEW s \in D, NEW i \in 1..Len(c[s])
          PROVE  c[s][i].hkey \in keys_of(t) /\ hash_key[c[s][i].hkey] % m = s
        BY <1>1, HasEach
    <2>4. ASSUME NEW g \in G
          PROVE  /\ f[g] \in K /\ hash_key[f[g]] % m = g[1]
        <3>. DEFINE s == g[1]
                    i == g[2]
                    k == f[g]
        <3>1. s \in D /\ i \in 1..Len(c[s]) /\ k = c[s][i].hkey /\ k \in keys
            BY <2>1, <2>2
        <3>2. c[s][i].hkey \in keys_of(t) /\ hash_key[c[s][i].hkey] % m = s
            BY <2>10, <3>1
        <3>. QED  BY <3>1, <3>2
    <2>5. f \in [G -> K]
        BY <2>4
    <2>6. ASSUME NEW g \in G, NEW h \in G, f[g] = f[h] PROVE g = h
        <3>1. g[1] = h[1]
            BY <2>4, <2>6
        <3>2. g[1] \in D /\ g[2] \in 1..Len(c[g[1]]) /\ h[2] \in 1..Len(c[g[1]])
            BY <2>1, <2>2, <3>1
        <3>3. c[g[1]][g[2]].hkey = c[g[1]][h[2]].hkey
            BY <2>6, <3>1
        <3>4. g[2] = h[2]
            BY <1>1, <3>2, <3>3 DEF OneEach
        <3>. QED  BY <2>1, <3>1, <3>4
    <2>7. ASSUME NEW k \in K PROVE \E g \in G : f[g] = k
        <3>. DEFINE s == hash_key[k] % m
        <3>1. k \in HashKeys /\ hash_find(t, k) # 0 /\ k \in keys
            BY DEF keys_of
        <3>2. s \in D /\ chain_of(t, k) = c[s]
            BY <1>1, <3>1, ChainThere
        <3>3. PICK i \in 1..Len(c[s]) : c[s][i].hkey = k
            BY <1>1, <3>1, <3>2, FindsOnly
        <3>4. i \in gone[s]
            BY <1>3, <3>1, <3>2, <3>3
        <3>5. << s, i >> \in G
            BY <2>3, <3>2, <3>4
        <3>6. f[<< s, i >>] = c[s][i].hkey
            BY <3>5
        <3>. QED  BY <3>3, <3>5, <3>6
    <2>. HIDE DEF f, K
    <2>8. f \in Injection(G, K) /\ f \in Surjection(G, K)
        BY <2>5, <2>6, <2>7 DEF Injection, Surjection, IsInjective
    <2>9. Cardinality(G) = Cardinality(K)
        BY <2>0, <2>8, FS_Injection
    <2>. QED  BY <2>0, <2>9, FS_CardinalityType
<1>. HIDE DEF K, G, ch, c
<1>6. n \in Nat /\ n = t.count - Cardinality(K)
    BY <1>1, <1>5
<1>7. ch \in [D -> Seq(Entry)]
    <2>1. \A s \in D : ch[s] \in Seq(Entry)
        BY <1>4 DEF Kept
    <2>2. ch = [ s \in D |-> ch[s] ]
        BY DEF ch
    <2>. QED  BY <2>1, <2>2
<1>8. r \in Tables(m) /\ r.chain = ch /\ r.count = n
    <2>. DEFINE C == [D -> Seq(Entry)]
    <2>1. t \in [ size : {m}, chain : C, count : Nat ] /\ ch \in C
        BY <1>1, <1>7 DEF Tables
    <2>. HIDE DEF C, n, r
    <2>2. r \in [ size : {m}, chain : C, count : Nat ] /\ r.chain = ch /\ r.count = n
        BY <1>2, <1>6, <2>1 DEF r
    <2>. QED  BY <2>2 DEF Tables, C
<1>. HIDE DEF n, gone, S
<1>9. OneEach(r, m)
    <2>1. ASSUME NEW s \in D, NEW i \in 1..Len(ch[s])
          PROVE  /\ hash_key[ch[s][i].hkey] % m = s
                 /\ \A j \in 1..Len(ch[s]) : ch[s][j].hkey = ch[s][i].hkey => i = j
        <3>0. Kept(ch[s], c[s], keys)
            BY <1>4
        <3>1. PICK p \in 1..Len(c[s]) : ch[s][i] = c[s][p]
            BY <3>0 DEF Kept
        <3>2. hash_key[c[s][p].hkey] % m = s
            BY <1>1 DEF OneEach, c
        <3>. QED  BY <3>0, <3>1, <3>2 DEF Kept
    <2>. QED  BY <1>8, <2>1 DEF OneEach
<1>. HIDE DEF D
<1>10. ASSUME NEW k \in HashKeys
       PROVE  hash_find(r, k) = IF k \in keys THEN 0 ELSE hash_find(t, k)
    <2>. DEFINE s == hash_key[k] % m
    <2>0. s \in D /\ chain_of(t, k) = t.chain[s] /\ chain_of(r, k) = r.chain[s]
        BY <1>1, <1>8, ChainThere DEF D
    <2>1. s \in D /\ chain_of(t, k) = c[s] /\ chain_of(r, k) = ch[s]
        BY <1>8, <2>0 DEF c
    <2>. HIDE DEF s
    <2>. DEFINE x == ch[s]
                y == c[s]
    <2>2. Kept(x, y, keys)
        BY <1>4, <2>1
    <2>3. /\ \A i \in 1..Len(x) : x[i].hkey = k => hash_find(r, k) = x[i].data
          /\ hash_find(r, k) # 0 => \E i \in 1..Len(x) : x[i].hkey = k
        BY <1>8, <1>9, <2>1, FindsOnly
    <2>4. /\ \A p \in 1..Len(y) : y[p].hkey = k => hash_find(t, k) = y[p].data
          /\ hash_find(t, k) # 0 => \E p \in 1..Len(y) : y[p].hkey = k
        BY <1>1, <2>1, FindsOnly
    <2>. HIDE DEF x, y
    <2>5. CASE k \in keys
        <3>1. \A i \in 1..Len(x) : x[i].hkey # k
            BY <2>2, <2>5 DEF Kept
        <3>. QED  BY <2>3, <2>5, <3>1
    <2>6. CASE k \notin keys /\ hash_find(r, k) # 0
        <3>1. PICK i \in 1..Len(x) : x[i].hkey = k
            BY <2>3, <2>6
        <3>2. PICK p \in 1..Len(y) : x[i] = y[p]
            BY <2>2 DEF Kept
        <3>. QED  BY <2>3, <2>4, <2>6, <3>1, <3>2
    <2>7. CASE k \notin keys /\ hash_find(r, k) = 0 /\ hash_find(t, k) # 0
        <3>1. PICK p \in 1..Len(y) : y[p].hkey = k
            BY <2>4, <2>7
        <3>2. PICK i \in 1..Len(x) : x[i] = y[p]
            BY <2>2, <2>7, <3>1 DEF Kept
        <3>3. x[i].hkey = k /\ x[i].data = y[p].data
            BY <3>1, <3>2
        <3>. QED  BY <2>3, <2>4, <2>7, <3>1, <3>3
    <2>. QED  BY <2>5, <2>6, <2>7
<1>. QED  BY <1>6, <1>8, <1>9, <1>10 DEF r, K

IsTable(t) == \E m \in Nat \ {0} : TableIs(t, m)

(* What a table is as a dictionary.                                        *)
LEMMA DictIs ==
    ASSUME NEW t
    PROVE  /\ DOMAIN dict_of(t) = keys_of(t) /\ \A k \in keys_of(t) : dict_of(t)[k] = hash_find(t, k)
           /\ dict_of(t) = [ k \in keys_of(t) |-> hash_find(t, k) ]
BY DEF dict_of, keys_of

(* hash_create makes an empty dictionary.                                  *)
LEMMA CreateTable ==
    ASSUME NEW n \in Int
    PROVE  IsTable(hash_create(n)) /\ hash_create(n).count = 0 /\ dict_of(hash_create(n)) = << >>
<1>. DEFINE t == hash_create(n)
<1>1. PICK m \in Nat \ {0} :
        /\ t \in Tables(m) /\ t.count = 0
        /\ \A s \in 0..m - 1 : t.chain[s] = << >>
        /\ \A k \in HashKeys : hash_find(t, k) = 0
    BY CreatesEmpty
<1>. HIDE DEF t
<1>2. keys_of(t) = {}
    BY <1>1 DEF keys_of
<1>3. OneEach(t, m)
    BY <1>1 DEF OneEach
<1>4. TableIs(t, m)
    BY <1>1, <1>2, <1>3, FS_EmptySet DEF TableIs
<1>5. dict_of(t) = << >>
    <2>1. dict_of(t) = [ k \in {} |-> hash_find(t, k) ]
        BY <1>2, DictIs
    <2>. QED  BY <2>1
<1>. QED  BY <1>1, <1>4, <1>5 DEF IsTable, t

(* Inserting is what it is in a dictionary.                                *)
LEMMA InsertTable ==
    ASSUME NEW t, IsTable(t), NEW k \in HashKeys, NEW d \in Nat \ {0}
    PROVE  LET r == hash_insert(t, k, d) IN
           /\ IsTable(r) /\ (r = t <=> k \in keys_of(t))
           /\ r # t => dict_of(r) = [ j \in keys_of(t) \cup {k} |-> IF j = k THEN d ELSE dict_of(t)[j] ]
<1>. DEFINE r == hash_insert(t, k, d)
<1>1. PICK m \in Nat \ {0} : TableIs(t, m)
    BY DEF IsTable
<1>2. t \in Tables(m) /\ OneEach(t, m) /\ IsFiniteSet(keys_of(t)) /\ t.count = Cardinality(keys_of(t)) /\ t.count \in Nat
    BY <1>1 DEF TableIs, Tables
<1>3. k \in keys_of(t) <=> places(t, k) # {}
    BY <1>2, FindsKeys DEF keys_of
<1>4. CASE places(t, k) # {}
    <2>1. r = t
        BY <1>4 DEF hash_insert
    <2>. QED  BY <1>3, <1>4, <2>1
<1>5. CASE places(t, k) = {}
    <2>. DEFINE h == hash_key[k] % m
                c == r.chain[h]
                old == t.chain[h]
    <2>1. Inserted(t, r, m, k, d)
        BY <1>2, <1>5, InsertIs
    <2>2. /\ r \in Tables(m) /\ r.count = t.count + 1 /\ h \in 0..m - 1
          /\ \A s \in 0..m - 1 : s # h => r.chain[s] = t.chain[s]
          /\ Len(c) = Len(old) + 1 /\ c[1].hkey = k /\ c[1].data = d
          /\ \A i \in 1..Len(old) : c[i + 1] = old[i]
        BY <2>1 DEF Inserted
    <2>3. \A j \in HashKeys : hash_find(r, j) = IF j = k THEN d ELSE hash_find(t, j)
        BY <1>2, <1>3, <1>5, InsertFinds DEF keys_of
    <2>4. Len(old) \in Nat /\ chain_of(t, k) = old
        <3>1. old \in Seq(Entry)
            BY <1>2, <2>2 DEF Tables
        <3>. QED  BY <1>2, <3>1, ChainThere
    <2>5. \A i \in 1..Len(old) : old[i].hkey # k
        BY <1>2, <1>5, <2>4, ChainThere DEF places
    <2>6. OneEach(r, m)
        <3>1. ASSUME NEW s \in 0..m - 1, NEW i \in 1..Len(r.chain[s])
              PROVE  /\ hash_key[r.chain[s][i].hkey] % m = s
                     /\ \A j \in 1..Len(r.chain[s]) : r.chain[s][j].hkey = r.chain[s][i].hkey => i = j
            <4>1. CASE s # h
                <5>1. r.chain[s] = t.chain[s]
                    BY <2>2, <4>1
                <5>. HIDE DEF r, h
                <5>. QED  BY <1>2, <5>1 DEF OneEach
            <4>2. CASE s = h
                <5>1. \A x \in 1..Len(old) : /\ hash_key[old[x].hkey] % m = h
                                             /\ \A y \in 1..Len(old) : old[y].hkey = old[x].hkey => x = y
                    BY <1>2, <2>2 DEF OneEach
                <5>. HIDE DEF c, old
                <5>2. ASSUME NEW x \in 1..Len(c)
                      PROVE  x = 1 \/ (x - 1 \in 1..Len(old) /\ c[x] = old[x - 1])
                    <6>1. x = 1 \/ (x - 1 \in 1..Len(old) /\ (x - 1) + 1 = x)
                        BY <2>2, <2>4
                    <6>. QED  BY <2>2, <6>1
                <5>. HIDE DEF h
                <5>3. ASSUME NEW x \in 1..Len(c) PROVE hash_key[c[x].hkey] % m = h
                    <6>1. CASE x = 1
                        BY <2>2, <6>1 DEF h
                    <6>2. CASE x # 1
                        <7>1. x - 1 \in 1..Len(old) /\ c[x] = old[x - 1]
                            BY <5>2, <6>2
                        <7>2. hash_key[old[x - 1].hkey] % m = h
                            BY <5>1, <7>1
                        <7>. QED  BY <7>1, <7>2
                    <6>. QED  BY <6>1, <6>2
                <5>4. ASSUME NEW x \in 1..Len(c), NEW y \in 1..Len(c), c[y].hkey = c[x].hkey PROVE x = y
                    <6>1. x = 1 => y = 1
                        BY <2>2, <2>5, <5>2, <5>4
                    <6>2. y = 1 => x = 1
                        BY <2>2, <2>5, <5>2, <5>4
                    <6>3. x # 1 /\ y # 1 => x - 1 = y - 1
                        <7>1. SUFFICES ASSUME x # 1, y # 1 PROVE x - 1 = y - 1
                            OBVIOUS
                        <7>2. x - 1 \in 1..Len(old) /\ y - 1 \in 1..Len(old)
                            BY <5>2, <7>1
                        <7>3. old[x - 1].hkey = old[y - 1].hkey
                            BY <5>2, <5>4, <7>1
                        <7>. QED  BY <5>1, <7>2, <7>3
                    <6>. QED  BY <2>2, <2>4, <6>1, <6>2, <6>3
                <5>5. r.chain[s] = c
                    BY <4>2 DEF c
                <5>. QED  BY <4>2, <5>3, <5>4, <5>5
            <4>. QED  BY <4>1, <4>2
        <3>. HIDE DEF r
        <3>. QED  BY <3>1 DEF OneEach
    <2>. HIDE DEF r, h, c, old
    <2>7. keys_of(r) = keys_of(t) \cup {k} /\ k \notin keys_of(t)
        BY <1>3, <1>5, <2>3 DEF keys_of
    <2>8. IsFiniteSet(keys_of(r)) /\ Cardinality(keys_of(r)) = Cardinality(keys_of(t)) + 1
        BY <1>2, <2>7, FS_AddElement
    <2>9. TableIs(r, m)
        BY <1>2, <2>2, <2>6, <2>8 DEF TableIs
    <2>10. r # t
        BY <1>2, <2>2
    <2>11. dict_of(r) = [ j \in keys_of(t) \cup {k} |-> IF j = k THEN d ELSE dict_of(t)[j] ]
        <3>1. \A j \in keys_of(t) \cup {k} : hash_find(r, j) = IF j = k THEN d ELSE dict_of(t)[j]
            BY <2>3, DictIs DEF keys_of
        <3>. QED  BY <2>7, <3>1, DictIs
    <2>. QED  BY <1>3, <1>5, <2>9, <2>10, <2>11 DEF IsTable, r
<1>. QED  BY <1>4, <1>5

(* Deleting is what it is in a dictionary.                                 *)
LEMMA DeleteTable ==
    ASSUME NEW t, IsTable(t), NEW keys
    PROVE  LET r == hash_delete_if(t, keys) IN
           /\ IsTable(r) /\ t.count - r.count = Cardinality(keys_of(t) \cap keys)
           /\ dict_of(r) = [ j \in keys_of(t) \ keys |-> dict_of(t)[j] ]
<1>. DEFINE r == hash_delete_if(t, keys)
<1>1. PICK m \in Nat \ {0} : TableIs(t, m)
    BY DEF IsTable
<1>2. /\ r \in Tables(m) /\ OneEach(r, m)
      /\ \A k \in HashKeys : hash_find(r, k) = IF k \in keys THEN 0 ELSE hash_find(t, k)
      /\ r.count = t.count - Cardinality(keys_of(t) \cap keys)
    BY <1>1, DeleteIs
<1>. HIDE DEF r
<1>3. keys_of(r) = keys_of(t) \ keys
    BY <1>2 DEF keys_of
<1>4. IsFiniteSet(keys_of(t)) /\ t.count = Cardinality(keys_of(t)) /\ t.count \in Nat
    BY <1>1 DEF TableIs, Tables
<1>5. /\ IsFiniteSet(keys_of(r)) /\ Cardinality(keys_of(r)) = r.count
      /\ Cardinality(keys_of(t) \cap keys) \in Nat
    <2>1. IsFiniteSet(keys_of(t) \cap keys)
        BY <1>4, FS_Intersection
    <2>2. /\ IsFiniteSet(keys_of(t) \ keys)
          /\ Cardinality(keys_of(t) \ keys) = Cardinality(keys_of(t)) - Cardinality(keys_of(t) \cap keys)
        BY <1>4, FS_Difference
    <2>. QED  BY <1>2, <1>3, <1>4, <2>1, <2>2, FS_CardinalityType
<1>6. TableIs(r, m)
    BY <1>2, <1>5 DEF TableIs
<1>7. dict_of(r) = [ j \in keys_of(t) \ keys |-> dict_of(t)[j] ]
    <2>1. \A j \in keys_of(t) \ keys : hash_find(r, j) = dict_of(t)[j]
        BY <1>2, DictIs DEF keys_of
    <2>. QED  BY <1>3, <2>1, DictIs
<1>. QED  BY <1>2, <1>4, <1>5, <1>6, <1>7 DEF IsTable, r

(* The tables the specification begins with are empty dictionaries.        *)
LEMMA HashInitMaps == HashInit => IsTable(table) /\ Mapping!Init
<1>. SUFFICES ASSUME HashInit PROVE IsTable(table) /\ Mapping!Init
    OBVIOUS
<1>1. IsTable(hash_create(0)) /\ dict_of(hash_create(0)) = << >>
    BY CreateTable
<1>. QED  BY <1>1 DEF HashInit, Mapping!Init

(* (The instance has a definition of its own of the number of elements.)   *)
LEMMA SameCardinality == \A S : Mapping!Cardinality(S) = Cardinality(S)
BY DEF Mapping!Cardinality, Cardinality

(* A call on the table is one on the dictionary.                           *)
LEMMA HashStep ==
    IsTable(table) /\ [HashNext]_hash_vars => IsTable(table)' /\ [Mapping!Next]_(Mapping!vars)
<1>. SUFFICES ASSUME IsTable(table), [HashNext]_hash_vars
              PROVE  IsTable(table)' /\ [Mapping!Next]_(Mapping!vars)
    OBVIOUS
<1>. DEFINE f == dict_of(table)
<1>0. /\ DOMAIN f = keys_of(table) /\ \A k \in keys_of(table) : f[k] = hash_find(table, k)
      /\ f' = dict_of(table') /\ keys_of(table) \subseteq HashKeys
    BY DictIs DEF keys_of, dict_of
<1>1. ASSUME NEW k \in HashKeys, NEW d \in HashData, HashInsert(k, d)
      PROVE  IsTable(table') /\ Mapping!Insert(k, d)
    <2>. DEFINE t == hash_insert(table, k, d)
    <2>0. d \in Nat \ {0}
        BY HashAssumption
    <2>1. /\ IsTable(t) /\ (t = table <=> k \in keys_of(table))
          /\ t # table => dict_of(t) = [ j \in keys_of(table) \cup {k} |-> IF j = k THEN d ELSE f[j] ]
        BY <2>0, InsertTable
    <2>. HIDE DEF t
    <2>2. CASE t = table /\ table' = table /\ HashReturns(<< "insert", k, d >>, EEXIST)
        BY <1>0, <2>1, <2>2 DEF HashReturns, EEXIST, Mapping!Insert, Mapping!Answers, Mapping!EEXIST
    <2>3. CASE t # table /\ table' = t /\ HashReturns(<< "insert", k, d >>, d)
        BY <1>0, <2>1, <2>3 DEF HashReturns, Mapping!Insert, Mapping!Answers
    <2>4. CASE t # table /\ table' = table /\ HashReturns(<< "insert", k, d >>, ENOMEM)
        BY <1>0, <2>1, <2>4 DEF HashReturns, ENOMEM, Mapping!Insert, Mapping!Answers, Mapping!ENOMEM
    <2>. QED  BY <1>1, <2>2, <2>3, <2>4 DEF HashInsert, t
<1>2. ASSUME NEW k \in HashKeys, HashRemove(k)
      PROVE  IsTable(table') /\ Mapping!Remove(k)
    <2>. DEFINE t == hash_delete_if(table, {k})
    <2>1. IsTable(t) /\ dict_of(t) = [ j \in keys_of(table) \ {k} |-> f[j] ]
        BY DeleteTable
    <2>2. table' = t /\ hash_op' = << "remove", k >> /\ hash_res' = hash_find(table, k)
        BY <1>2 DEF HashRemove, TableBecomes, HashReturns, hash_remove
    <2>. HIDE DEF t
    <2>3. hash_find(table, k) = IF k \in DOMAIN f THEN f[k] ELSE 0
        BY <1>0 DEF keys_of
    <2>. QED  BY <1>0, <2>1, <2>2, <2>3 DEF Mapping!Remove, Mapping!Answers, Mapping!At, Mapping!Restrict
<1>3. ASSUME NEW d \in HashData
      PROVE  LET t == hash_delete_if(table, passing(table, d)) IN
             /\ IsTable(t) /\ dict_of(t) = [ j \in DOMAIN f \ Mapping!With(d) |-> f[j] ]
             /\ table.count - t.count = Cardinality(Mapping!With(d))
    <2>1. d # 0
        BY HashAssumption
    <2>2. keys_of(table) \cap passing(table, d) = Mapping!With(d)
        BY <1>0, <2>1 DEF passing, keys_of, Mapping!With
    <2>3. keys_of(table) \ passing(table, d) = DOMAIN f \ Mapping!With(d)
        BY <1>0, <2>2
    <2>. DEFINE P == passing(table, d)
                t == hash_delete_if(table, P)
                W == Mapping!With(d)
    <2>4. /\ IsTable(t) /\ table.count - t.count = Cardinality(keys_of(table) \cap P)
          /\ dict_of(t) = [ j \in keys_of(table) \ P |-> f[j] ]
        BY DeleteTable
    <2>. HIDE DEF t, W
    <2>5. dict_of(t) = [ j \in DOMAIN f \ W |-> f[j] ] /\ table.count - t.count = Cardinality(W)
        BY <2>2, <2>3, <2>4 DEF W
    <2>. QED  BY <2>4, <2>5 DEF t, W
<1>4. ASSUME NEW d \in HashData, HashDeleteIf(d)
      PROVE  IsTable(table') /\ Mapping!DeleteIf(d)
    <2>. DEFINE t == hash_delete_if(table, passing(table, d))
    <2>1. table' = t /\ hash_op' = << "delete_if", d >> /\ hash_res' = table.count - t.count
        BY <1>4 DEF HashDeleteIf, TableBecomes, HashReturns
    <2>2. /\ IsTable(t) /\ dict_of(t) = [ j \in DOMAIN f \ Mapping!With(d) |-> f[j] ]
          /\ table.count - t.count = Cardinality(Mapping!With(d))
        BY <1>3
    <2>. HIDE DEF t
    <2>3. /\ dict_of(table') = [ j \in DOMAIN f \ Mapping!With(d) |-> f[j] ]
          /\ hash_res' = Cardinality(Mapping!With(d)) /\ IsTable(table')
        BY <2>1, <2>2
    <2>. QED  BY <2>1, <2>3, SameCardinality DEF Mapping!DeleteIf, Mapping!Answers, Mapping!Restrict
<1>5. ASSUME HashLook
      PROVE  IsTable(table') /\ Mapping!Look
    <2>1. table' = table /\ f' = f
        BY <1>0, <1>5 DEF HashLook
    <2>2. ASSUME NEW k \in HashKeys, HashReturns(<< "find", k >>, hash_find(table, k))
          PROVE  Mapping!Answers(<< "find", k >>, Mapping!At(k))
        <3>1. hash_find(table, k) = IF k \in DOMAIN f THEN f[k] ELSE 0
            BY <1>0 DEF keys_of
        <3>. QED  BY <2>2, <3>1 DEF HashReturns, Mapping!Answers, Mapping!At
    <2>3. ASSUME NEW d \in HashData,
                 HashReturns(<< "for_each", d >>, table.count - hash_delete_if(table, passing(table, d)).count)
          PROVE  Mapping!Answers(<< "for_each", d >>, Cardinality(Mapping!With(d)))
        BY <1>3, <2>3 DEF HashReturns, Mapping!Answers
    <2>4. ASSUME HashReturns(<< "count" >>, table.count)
          PROVE  Mapping!Answers(<< "count" >>, Cardinality(DOMAIN f))
        BY <1>0, <2>4 DEF HashReturns, Mapping!Answers, IsTable, TableIs
    <2>5. IsTable(table') /\ UNCHANGED dict_of(table)
        BY <2>1
    <2>6. CASE \E k \in HashKeys : HashReturns(<< "find", k >>, hash_find(table, k))
        BY <2>2, <2>5, <2>6 DEF Mapping!Look
    <2>7. CASE \E d \in HashData : HashReturns(<< "for_each", d >>, table.count - hash_delete_if(table, passing(table, d)).count)
        BY <2>3, <2>5, <2>7, SameCardinality DEF Mapping!Look
    <2>8. CASE HashReturns(<< "count" >>, table.count)
        BY <2>4, <2>5, <2>8, SameCardinality DEF Mapping!Look
    <2>. QED  BY <1>5, <2>6, <2>7, <2>8 DEF HashLook
<1>6. ASSUME NEW size \in Sizes, HashDestroy(size)
      PROVE  IsTable(table') /\ Mapping!Destroy(size)
    <2>1. size \in Int
        BY HashAssumption
    <2>2. IsTable(hash_create(size)) /\ dict_of(hash_create(size)) = << >>
        BY <2>1, CreateTable
    <2>3. table' = hash_create(size) /\ hash_op' = << "destroy", size >> /\ hash_res' = table.count
        BY <1>6 DEF HashDestroy, TableBecomes, HashReturns
    <2>4. table.count = Cardinality(DOMAIN f)
        BY <1>0 DEF IsTable, TableIs
    <2>5. IsTable(table') /\ dict_of(table') = << >> /\ hash_res' = Cardinality(DOMAIN dict_of(table))
        BY <2>2, <2>3, <2>4
    <2>. QED  BY <2>3, <2>5, SameCardinality DEF Mapping!Destroy, Mapping!Answers
<1>7. CASE UNCHANGED hash_vars
    BY <1>0, <1>7 DEF hash_vars, Mapping!vars
<1>. HIDE DEF f
<1>8. CASE HashNext
    <2>1. IsTable(table') /\ Mapping!Next
        BY <1>1, <1>2, <1>4, <1>5, <1>6, <1>8 DEF HashNext, Mapping!Next
    <2>. QED  BY <2>1
<1>. QED  BY <1>7, <1>8

(* A hash table is a function from keys to data: whatever keys share a     *)
(* chain and whatever the size, an insert, a removal, a deletion, a search *)
(* and a count do and return what they would on that function.             *)
THEOREM HashesAreDictionaries == HashSpec => ImplementsDictionary
<1>1. HashInit => IsTable(table) /\ Mapping!Init
    BY HashInitMaps
<1>2. IsTable(table) /\ [HashNext]_hash_vars => IsTable(table)' /\ [Mapping!Next]_(Mapping!vars)
    BY HashStep
<1>3. [Mapping!Next]_(Mapping!vars) => [Mapping!vars' # Mapping!vars /\ Mapping!Next]_(Mapping!vars)
    OBVIOUS
<1>. QED  BY <1>1, <1>2, <1>3, PTL DEF HashSpec, ImplementsDictionary, Mapping!Spec

(***************************************************************************)
(* New addresses                                                           *)
(***************************************************************************)

(* There is a number of each rank in a set.                                *)
LEMMA HasRanks ==
    ASSUME NEW S \in SUBSET Int, IsFiniteSet(S), NEW i \in 1..Cardinality(S)
    PROVE  \E p \in S : Cardinality({ q \in S : q <= p }) = i
<1>1. S # {}
    BY FS_CardinalityType, FS_EmptySet
<1>. QED  BY <1>1, Ranks DEF upto_in

(* Enough numbers are left.                                                *)
LEMMA Leaves ==
    ASSUME NEW D, IsFiniteSet(D), NEW n \in Nat
    PROVE  LET S == (1..Cardinality(D) + n) \ D
           IN IsFiniteSet(S) /\ n <= Cardinality(S) /\ S \in SUBSET Nat /\ Cardinality(S) \in Nat
<1>. DEFINE m == Cardinality(D) + n
            A == 1..m
            S == A \ D
<1>1. Cardinality(D) \in Nat /\ m \in Nat
    BY FS_CardinalityType
<1>2. IsFiniteSet(A) /\ Cardinality(A) = m
    BY <1>1, FS_Interval
<1>3. IsFiniteSet(S) /\ Cardinality(S) = Cardinality(A) - Cardinality(A \cap D)
    <2>. HIDE DEF A
    <2>. QED  BY <1>2, FS_Difference
<1>4. IsFiniteSet(A \cap D) /\ Cardinality(A \cap D) <= Cardinality(D) /\ Cardinality(A \cap D) \in Nat
    <2>1. A \cap D \in SUBSET D
        OBVIOUS
    <2>. HIDE DEF A
    <2>. QED  BY <2>1, FS_Subset, FS_CardinalityType
<1>5. Cardinality(S) \in Nat
    BY <1>3, FS_CardinalityType
<1>6. n <= Cardinality(S)
    <2>. HIDE DEF A, S
    <2>. QED  BY <1>1, <1>2, <1>3, <1>4, <1>5 DEF m
<1>. QED  BY <1>3, <1>5, <1>6

(* The address of the i-th Arg.                                            *)
unused(D, n) == (1..Cardinality(D) + n) \ D
address(D, n) ==
    [ i \in 1..n |-> CHOOSE p \in unused(D, n) : Cardinality({ q \in unused(D, n) : q <= p }) = i ]

(* They are new and different.                                             *)
LEMMA Addresses ==
    ASSUME NEW D, IsFiniteSet(D), NEW n \in Nat
    PROVE  /\ \A i \in 1..n : address(D, n)[i] \in Nat \ {0} /\ address(D, n)[i] \notin D
           /\ \A i, j \in 1..n : address(D, n)[i] = address(D, n)[j] => i = j
<1>. DEFINE S == unused(D, n)
            a == address(D, n)
<1>1. IsFiniteSet(S) /\ n <= Cardinality(S) /\ S \in SUBSET Int /\ Cardinality(S) \in Nat
    BY Leaves DEF unused
<1>2. \A p \in S : p \in Nat \ {0} /\ p \notin D
    <2>1. Cardinality(D) \in Nat
        BY FS_CardinalityType
    <2>. QED  BY <2>1 DEF unused
<1>. HIDE DEF S
<1>3. ASSUME NEW i \in 1..n
      PROVE  a[i] \in S /\ Cardinality({ q \in S : q <= a[i] }) = i
    <2>1. i \in 1..Cardinality(S)
        BY <1>1
    <2>2. \E p \in S : Cardinality({ q \in S : q <= p }) = i
        BY <1>1, <2>1, HasRanks
    <2>3. a[i] = CHOOSE p \in S : Cardinality({ q \in S : q <= p }) = i
        BY DEF address, S
    <2>. HIDE DEF a
    <2>. QED  BY <2>2, <2>3
<1>. HIDE DEF a
<1>4. \A i, j \in 1..n : a[i] = a[j] => i = j
    BY <1>3
<1>. QED  BY <1>2, <1>3, <1>4 DEF a

(***************************************************************************)
(* A new list                                                              *)
(***************************************************************************)
places_of(hl) == [ i \in 1..Len(hl) |-> i ]
inserted(hl, arg) ==
    FoldLeft(LAMBDA t, i : hash_insert(t, hl[i], arg[i]), hash_create(Len(hl)), places_of(hl))

(* Of the first n hosts each is found, at an address that is for it.       *)
HasHosts(t, hl, arg, n) ==
    \A k \in HashKeys :
        \/ hash_find(t, k) = 0 /\ \A i \in 1..n : hl[i] # k
        \/ \E i \in 1..n : hl[i] = k /\ hash_find(t, k) = arg[i]

(* One host more.                                                          *)
LEMMA HasMore ==
    ASSUME NEW m \in Nat \ {0}, NEW t \in Tables(m), NEW hl \in Seq(HashKeys), NEW arg,
           \A i \in 1..Len(hl) : arg[i] \in Nat \ {0},
           NEW n \in 0..Len(hl) - 1, HasHosts(t, hl, arg, n)
    PROVE  HasHosts(hash_insert(t, hl[n + 1], arg[n + 1]), hl, arg, n + 1)
<1>. DEFINE k == hl[n + 1]
            d == arg[n + 1]
            u == hash_insert(t, k, d)
<1>1. n \in Nat /\ n + 1 \in 1..Len(hl) /\ k \in HashKeys /\ d \in Nat \ {0}
    OBVIOUS
<1>2. \A j \in HashKeys : hash_find(u, j) = IF j = k /\ hash_find(t, k) = 0 THEN d ELSE hash_find(t, j)
    <2>. HIDE DEF k, d, u
    <2>. QED  BY <1>1, InsertFinds DEF u
<1>. HIDE DEF u
<1>3. \A i \in 1..n + 1 : i \in 1..n \/ i = n + 1
    BY <1>1
<1>4. n + 1 \in 1..n + 1 /\ \A i \in 1..n : i \in 1..n + 1
    BY <1>1
<1>5. ASSUME NEW j \in HashKeys
      PROVE  \/ hash_find(u, j) = 0 /\ \A i \in 1..n + 1 : hl[i] # j
             \/ \E i \in 1..n + 1 : hl[i] = j /\ hash_find(u, j) = arg[i]
    <2>1. CASE \E i \in 1..n : hl[i] = j /\ hash_find(t, j) = arg[i]
        <3>1. PICK i \in 1..n : hl[i] = j /\ hash_find(t, j) = arg[i]
            BY <2>1
        <3>2. arg[i] # 0
            BY <1>1
        <3>3. hash_find(u, j) = arg[i]
            BY <1>2, <3>1, <3>2
        <3>. QED  BY <1>4, <3>1, <3>3
    <2>2. CASE hash_find(t, j) = 0 /\ \A i \in 1..n : hl[i] # j
        <3>1. CASE j = k
            BY <1>2, <1>4, <2>2, <3>1
        <3>2. CASE j # k
            BY <1>2, <1>3, <2>2, <3>2
        <3>. QED  BY <3>1, <3>2
    <2>. QED  BY <2>1, <2>2 DEF HasHosts
<1>. QED  BY <1>5 DEF HasHosts, u

(* All of them, then.                                                      *)
LEMMA InsertsAll ==
    ASSUME NEW hl \in Seq(HashKeys), NEW arg, \A i \in 1..Len(hl) : arg[i] \in Nat \ {0}
    PROVE  \E m \in Nat \ {0} : inserted(hl, arg) \in Tables(m) /\ HasHosts(inserted(hl, arg), hl, arg, Len(hl))
<1>. DEFINE n    == Len(hl)
            q    == places_of(hl)
            base == hash_create(n)
            it0  == CHOOSE g : g = [ e \in SUBSET DOMAIN q |->
                       IF e = {} THEN base ELSE hash_insert(g[e \ {Max(e)}], hl[q[Max(e)]], arg[q[Max(e)]]) ]
<1>1. n \in Nat /\ DOMAIN q = 1..n /\ \A i \in 1..n : q[i] = i /\ hl[i] \in HashKeys
    BY DEF places_of
<1>2. PICK m \in Nat \ {0} : base \in Tables(m) /\ \A k \in HashKeys : hash_find(base, k) = 0
    BY <1>1, CreatesEmpty
<1>. DEFINE S    == Tables(m)
            step == [ i \in 1..n |-> [ t \in S |-> hash_insert(t, hl[i], arg[i]) ] ]
<1>3. step \in [1..n -> [S -> S]]
    <2>1. \A i \in 1..n : \A t \in S : hash_insert(t, hl[i], arg[i]) \in S
        BY <1>1, InsertFinds
    <2>. HIDE DEF S
    <2>. QED  BY <2>1
<1>4. inserted(hl, arg) = it0[DOMAIN q]
    BY Zenon DEF inserted, FoldLeft, MapThenFoldSet
<1>. HIDE DEF q, base, S
<1>5. \E g : g = [ e \in SUBSET DOMAIN q |->
                       IF e = {} THEN base ELSE hash_insert(g[e \ {Max(e)}], hl[q[Max(e)]], arg[q[Max(e)]]) ]
    <2>. HIDE DEF step, n
    <2>1. PICK iter : TakesLast(iter, S, base, n, step)
        BY <1>1, <1>2, <1>3, FoldRuns DEF S
    <2>2. /\ iter \in [SUBSET (1..n) -> S]
          /\ \A e \in SUBSET (1..n) :
               iter[e] = IF e = {} THEN base ELSE step[Max(e)][iter[e \ {Max(e)}]]
        BY <2>1 DEF TakesLast
    <2>3. ASSUME NEW e \in SUBSET (1..n), e # {}
          PROVE  iter[e] = hash_insert(iter[e \ {Max(e)}], hl[q[Max(e)]], arg[q[Max(e)]])
        <3>1. Max(e) \in 1..n
            BY <1>1, <2>3, MaxIn
        <3>2. e \ {Max(e)} \in SUBSET (1..n)
            OBVIOUS
        <3>. HIDE DEF Max
        <3>3. iter[e \ {Max(e)}] \in S
            BY <2>2, <3>2
        <3>4. iter[e] = step[Max(e)][iter[e \ {Max(e)}]]
            BY <2>2, <2>3
        <3>5. q[Max(e)] = Max(e)
            BY <1>1, <3>1
        <3>. QED  BY <3>1, <3>3, <3>4, <3>5 DEF step
    <2>4. iter = [ e \in SUBSET DOMAIN q |->
                     IF e = {} THEN base ELSE hash_insert(iter[e \ {Max(e)}], hl[q[Max(e)]], arg[q[Max(e)]]) ]
        BY <1>1, <2>2, <2>3
    <2>. QED  BY <2>4
<1>6. it0 = [ e \in SUBSET DOMAIN q |->
               IF e = {} THEN base ELSE hash_insert(it0[e \ {Max(e)}], hl[q[Max(e)]], arg[q[Max(e)]]) ]
    BY <1>5
<1>. HIDE DEF it0
<1>7. IsReached(it0[1..n], S, base, n, step)
    <2>1. it0[{}] = base
        BY <1>6
    <2>2. ASSUME NEW i \in 1..n, it0[1..i - 1] \in S
          PROVE  it0[1..i] = step[i][it0[1..i - 1]]
        <3>1. Max(1..i) = i /\ (1..i) \ {i} = 1..i - 1 /\ 1..i # {}
            BY MaxUpTo
        <3>2. 1..i \in SUBSET DOMAIN q /\ q[i] = i
            BY <1>1
        <3>. HIDE DEF Max
        <3>3. it0[1..i] = hash_insert(it0[1..i - 1], hl[i], arg[i])
            <4>. DEFINE e == 1..i
            <4>1. it0[e] = hash_insert(it0[e \ {Max(e)}], hl[q[Max(e)]], arg[q[Max(e)]])
                <5>. HIDE DEF e
                <5>1. e \in SUBSET DOMAIN q /\ e # {}
                    BY <3>1, <3>2 DEF e
                <5>. QED  BY <1>6, <5>1
            <4>2. Max(e) = i /\ e \ {i} = 1..i - 1
                BY <3>1
            <4>3. it0[e] = hash_insert(it0[1..i - 1], hl[i], arg[i])
                <5>. HIDE DEF e
                <5>. QED  BY <3>2, <4>1, <4>2
            <4>. QED  BY <4>3
        <3>. QED  BY <2>2, <3>3
    <2>. HIDE DEF step, n
    <2>3. GoesOn(it0, S, base, n, step)
        BY <2>1, <2>2 DEF GoesOn
    <2>4. base \in S
        BY <1>2 DEF S
    <2>. QED  BY <1>1, <1>3, <2>3, <2>4, FoldValues
<1>8. PICK h \in [0..n -> S] : h[0] = base /\ h[n] = it0[1..n] /\ \A i \in 1..n : h[i] = step[i][h[i - 1]]
    <2>. HIDE DEF step, n
    <2>. QED  BY <1>7 DEF IsReached, GoesUp
<1>. DEFINE I == { k \in 0..n : HasHosts(h[k], hl, arg, k) }
<1>9. 0 \in I
    <2>. HIDE DEF n
    <2>1. 1..0 = {}
        OBVIOUS
    <2>2. HasHosts(base, hl, arg, 0)
        BY <1>2, <2>1 DEF HasHosts
    <2>. QED  BY <1>1, <1>8, <2>2
<1>10. ASSUME NEW k \in 0..n - 1, k \in I
       PROVE  k + 1 \in I
    <2>1. k + 1 \in 1..n /\ k + 1 \in 0..n /\ (k + 1) - 1 = k /\ k \in 0..n
        BY <1>1
    <2>2. h[k + 1] = step[k + 1][h[k]] /\ h[k] \in S
        <3>. HIDE DEF step, n
        <3>. QED  BY <1>8, <2>1
    <2>3. h[k + 1] = hash_insert(h[k], hl[k + 1], arg[k + 1])
        <3>. HIDE DEF n
        <3>. QED  BY <2>1, <2>2
    <2>4. HasHosts(hash_insert(h[k], hl[k + 1], arg[k + 1]), hl, arg, k + 1)
        BY <1>10, <2>2, HasMore DEF S
    <2>. QED  BY <2>1, <2>3, <2>4
<1>11. I = 0..n
    <2>1. I \in SUBSET (0..n)
        OBVIOUS
    <2>. HIDE DEF I, n
    <2>. QED  BY <1>1, <1>9, <1>10, <2>1, UpTo
<1>12. n \in I /\ n \in 0..n
    <2>. HIDE DEF I
    <2>. QED  BY <1>1, <1>11
<1>13. inserted(hl, arg) = h[n] /\ h[n] \in Tables(m)
    BY <1>1, <1>4, <1>8, <1>12 DEF S
<1>. QED  BY <1>12, <1>13

(* The lists, and the Args.                                                *)
Listed == [ refcount : Nat, args : UNION { Tables(m) : m \in Nat \ {0} }, hl : Seq(HashKeys) ]
States == Values \cup {"unknown"}
Arg == [ node : HashKeys, state : States ]

(* The addresses in the table of a list.                                   *)
Mine(a) == { p \in Nat \ {0} : \E k \in HashKeys : hash_find(a.args, k) = p }

(* Each host of a list has its Arg on the heap hp.                         *)
Served(a, hp) ==
    /\ \A k \in HashKeys : hash_find(a.args, k) \in Nat
    /\ \A k \in HashKeys : hash_find(a.args, k) # 0 =>
         hash_find(a.args, k) \in DOMAIN hp /\ hp[hash_find(a.args, k)].node = k
    /\ \A i \in 1..Len(a.hl) : hash_find(a.args, a.hl[i]) # 0

(* A list that is created has all of its hosts, at new addresses.          *)
LEMMA CreatesList ==
    ASSUME NEW hl \in Seq(HashKeys), IsFiniteSet(DOMAIN heap)
    PROVE  LET new == arglist_create(hl)
           IN /\ new.list \in Listed /\ new.list.refcount = 1 /\ new.list.hl = hl
              /\ Served(new.list, new.heap) /\ Mine(new.list) \subseteq DOMAIN new.heap
              /\ IsFiniteSet(DOMAIN new.heap) /\ DOMAIN new.heap \subseteq Nat \ {0}
              /\ \A p \in DOMAIN new.heap : p \notin DOMAIN heap /\ new.heap[p] \in Arg
              /\ \A p \in Mine(new.list) : hash_find(new.list.args, new.heap[p].node) = p
<1>. DEFINE n   == Len(hl)
            arg == address(DOMAIN heap, n)
            D   == { arg[i] : i \in 1..n }
            t   == inserted(hl, arg)
            i_of(p) == CHOOSE i \in 1..n : arg[i] = p
            hp  == [ p \in D |-> [ node |-> hl[i_of(p)], state |-> "unknown" ] ]
            a   == [ refcount |-> 1, args |-> t, hl |-> hl ]
<1>1. arglist_create(hl) = [ list |-> a, heap |-> hp ]
    BY Zenon DEF arglist_create, inserted, places_of, address, unused
<1>2. /\ n \in Nat /\ \A i \in 1..n : hl[i] \in HashKeys
      /\ \A i \in 1..n : arg[i] \in Nat \ {0} /\ arg[i] \notin DOMAIN heap
      /\ \A i, j \in 1..n : arg[i] = arg[j] => i = j
    BY Addresses
<1>. HIDE DEF arg
<1>3. PICK m \in Nat \ {0} : t \in Tables(m) /\ HasHosts(t, hl, arg, n)
    BY <1>2, InsertsAll
<1>. HIDE DEF t
<1>4. \A i \in 1..n : arg[i] \in D /\ hp[arg[i]] = [ node |-> hl[i], state |-> "unknown" ]
    <2>1. ASSUME NEW i \in 1..n
          PROVE  i_of(arg[i]) = i
        <3>. DEFINE e == i_of(arg[i])
        <3>1. e \in 1..n /\ arg[e] = arg[i]
            OBVIOUS
        <3>. HIDE DEF e
        <3>2. e = i
            BY <1>2, <3>1
        <3>. QED  BY <3>2 DEF e
    <2>. HIDE DEF i_of
    <2>. QED  BY <2>1
<1>5. DOMAIN hp = D /\ \A p \in D : \E i \in 1..n : p = arg[i]
    OBVIOUS
<1>6. IsFiniteSet(D)
    <2>. DEFINE f == [ i \in 1..n |-> arg[i] ]
    <2>1. f \in Surjection(1..n, D)
        BY DEF Surjection
    <2>2. IsFiniteSet(1..n)
        BY <1>2, FS_Interval
    <2>. HIDE DEF D, f
    <2>. QED  BY <2>1, <2>2, FS_Surjection
<1>. HIDE DEF D, hp, n
<1>7. \A p \in D : p \in Nat \ {0} /\ p \notin DOMAIN heap /\ hp[p] \in Arg
    <2>1. \A i \in 1..n : [ node |-> hl[i], state |-> "unknown" ] \in Arg
        BY <1>2 DEF Arg, States
    <2>2. ASSUME NEW p \in D
          PROVE  p \in Nat \ {0} /\ p \notin DOMAIN heap /\ hp[p] \in Arg
        <3>1. PICK i \in 1..n : p = arg[i]
            BY <1>5
        <3>. QED  BY <1>2, <1>4, <2>1, <3>1
    <2>. QED  BY <2>2
<1>8. /\ a \in Listed /\ a.refcount = 1 /\ a.hl = hl /\ a.args = t
    BY <1>3 DEF Listed
<1>. HIDE DEF a
<1>9. \A k \in HashKeys : hash_find(t, k) \in Nat
    BY <1>3, FindsKeys
<1>10. \A k \in HashKeys : hash_find(t, k) # 0 => hash_find(t, k) \in D /\ hp[hash_find(t, k)].node = k
    <2>1. ASSUME NEW k \in HashKeys, hash_find(t, k) # 0
          PROVE  hash_find(t, k) \in D /\ hp[hash_find(t, k)].node = k
        <3>1. PICK i \in 1..n : hl[i] = k /\ hash_find(t, k) = arg[i]
            BY <1>3, <2>1 DEF HasHosts
        <3>2. arg[i] \in D /\ hp[arg[i]] = [ node |-> hl[i], state |-> "unknown" ]
            BY <1>4
        <3>. QED  BY <3>1, <3>2
    <2>. QED  BY <2>1
<1>11. \A i \in 1..n : hash_find(t, hl[i]) # 0
    BY <1>2, <1>3 DEF HasHosts
<1>12. Served(a, hp)
    BY <1>5, <1>8, <1>9, <1>10, <1>11 DEF Served, n
<1>13. Mine(a) \subseteq D /\ \A p \in Mine(a) : hash_find(t, hp[p].node) = p
    BY <1>8, <1>10 DEF Mine
<1>. QED  BY <1>1, <1>5, <1>6, <1>7, <1>8, <1>12, <1>13

(***************************************************************************)
(* The lists and the heap                                                  *)
(***************************************************************************)

(* What is on the heap hp is in the table of one of the lists al, or in lo.*)
Divided(al, hp, lo) ==
    /\ \A p \in lo : p \in DOMAIN hp
    /\ \A l \in DOMAIN al : \A p \in Mine(al[l]) : p \in DOMAIN hp /\ p \notin lo
    /\ \A l, k \in DOMAIN al : \A p \in Mine(al[l]) : p \in Mine(al[k]) => l = k
    /\ \A p \in DOMAIN hp : p \in lo \/ \E l \in DOMAIN al : p \in Mine(al[l])

HeapOK(al, hp, lo) ==
    /\ DOMAIN al \in SUBSET ArgLists /\ al \in [DOMAIN al -> Listed]
    /\ DOMAIN hp \in SUBSET (Nat \ {0}) /\ IsFiniteSet(DOMAIN hp) /\ hp \in [DOMAIN hp -> Arg]
    /\ \A l \in DOMAIN al : Served(al[l], hp)
    /\ Divided(al, hp, lo)

(* A list stays served while the nodes of its Args stay.                   *)
LEMMA StaysServed ==
    ASSUME NEW a, NEW hp, NEW hp2, Served(a, hp),
           \A p \in Mine(a) : p \in DOMAIN hp => p \in DOMAIN hp2 /\ hp2[p].node = hp[p].node
    PROVE  Served(a, hp2)
<1>1. \A k \in HashKeys : hash_find(a.args, k) # 0 => hash_find(a.args, k) \in Mine(a)
    BY DEF Served, Mine
<1>2. \A k \in HashKeys : hash_find(a.args, k) # 0 =>
         hash_find(a.args, k) \in DOMAIN hp2 /\ hp2[hash_find(a.args, k)].node = k
    BY <1>1 DEF Served
<1>. QED  BY <1>2 DEF Served

(* So it does with other counts.                                           *)
LEMMA CountsDoNotMatter ==
    ASSUME NEW al, NEW al2, NEW hp, NEW lo, HeapOK(al, hp, lo),
           DOMAIN al2 = DOMAIN al, al2 \in [DOMAIN al -> Listed],
           \A l \in DOMAIN al : al2[l].args = al[l].args /\ al2[l].hl = al[l].hl
    PROVE  HeapOK(al2, hp, lo)
<1>1. \A l \in DOMAIN al : Mine(al2[l]) = Mine(al[l])
    BY DEF Mine
<1>2. \A l \in DOMAIN al : Served(al2[l], hp)
    BY DEF HeapOK, Served
<1>3. Divided(al2, hp, lo)
    BY <1>1 DEF HeapOK, Divided
<1>. QED  BY <1>2, <1>3 DEF HeapOK

(* When the state of an Arg changes the rest is as it was.                 *)
LEMMA StatesDoNotMatter ==
    ASSUME NEW al, NEW hp, NEW hp2, NEW lo, HeapOK(al, hp, lo),
           DOMAIN hp2 = DOMAIN hp, hp2 \in [DOMAIN hp -> Arg],
           \A p \in DOMAIN hp : hp2[p].node = hp[p].node
    PROVE  HeapOK(al, hp2, lo)
<1>1. \A l \in DOMAIN al : Served(al[l], hp2)
    BY StaysServed DEF HeapOK
<1>2. Divided(al, hp2, lo)
    BY DEF HeapOK, Divided
<1>. QED  BY <1>1, <1>2 DEF HeapOK

(* A list goes with its Args, and nothing else.                            *)
LEMMA FreesItsArgs ==
    ASSUME NEW al, NEW hp, NEW lo, HeapOK(al, hp, lo), NEW l \in DOMAIN al
    PROVE  HeapOK([ k \in DOMAIN al \ {l} |-> al[k] ],
                  [ p \in DOMAIN hp \ Mine(al[l]) |-> hp[p] ], lo)
<1>. DEFINE al2 == [ k \in DOMAIN al \ {l} |-> al[k] ]
            hp2 == [ p \in DOMAIN hp \ Mine(al[l]) |-> hp[p] ]
<1>1. /\ DOMAIN al2 = DOMAIN al \ {l} /\ \A k \in DOMAIN al2 : al2[k] = al[k] /\ k \in DOMAIN al /\ k # l
      /\ \A k \in DOMAIN al : k = l \/ k \in DOMAIN al2
    OBVIOUS
<1>2. /\ DOMAIN hp2 = DOMAIN hp \ Mine(al[l])
      /\ \A p \in DOMAIN hp : p \in Mine(al[l]) \/ (p \in DOMAIN hp2 /\ hp2[p] = hp[p])
      /\ \A p \in DOMAIN hp2 : p \in DOMAIN hp /\ p \notin Mine(al[l]) /\ hp2[p] = hp[p]
    OBVIOUS
<1>3. al2 \in [DOMAIN al2 -> Listed] /\ hp2 \in [DOMAIN hp2 -> Arg]
    BY DEF HeapOK
<1>. HIDE DEF al2, hp2
<1>4. IsFiniteSet(DOMAIN hp2)
    BY <1>2, FS_Subset DEF HeapOK
<1>5. \A k \in DOMAIN al2 : Served(al2[k], hp2)
    <2>1. ASSUME NEW k \in DOMAIN al2
          PROVE  Served(al2[k], hp2)
        <3>1. Served(al[k], hp) /\ al2[k] = al[k] /\ k \in DOMAIN al
            BY <1>1 DEF HeapOK
        <3>2. \A p \in Mine(al[k]) : p \notin Mine(al[l])
            BY <1>1 DEF HeapOK, Divided
        <3>3. \A p \in Mine(al[k]) : p \in DOMAIN hp => p \in DOMAIN hp2 /\ hp2[p] = hp[p]
            BY <1>2, <3>2
        <3>4. \A p \in Mine(al[k]) : p \in DOMAIN hp => p \in DOMAIN hp2 /\ hp2[p].node = hp[p].node
            BY <3>3
        <3>. QED  BY <3>1, <3>4, StaysServed
    <2>. QED  BY <2>1
<1>6. Divided(al2, hp2, lo)
    <2>1. Divided(al, hp, lo)
        BY DEF HeapOK
    <2>2. \A p \in lo : p \in DOMAIN hp2
        BY <1>2, <2>1 DEF Divided
    <2>3. \A k \in DOMAIN al2 : \A p \in Mine(al2[k]) : p \in DOMAIN hp2 /\ p \notin lo
        BY <1>1, <1>2, <2>1 DEF Divided
    <2>4. \A j, k \in DOMAIN al2 : \A p \in Mine(al2[j]) : p \in Mine(al2[k]) => j = k
        BY <1>1, <2>1 DEF Divided
    <2>5. \A p \in DOMAIN hp2 : p \in lo \/ \E k \in DOMAIN al2 : p \in Mine(al2[k])
        BY <1>1, <1>2, <2>1 DEF Divided
    <2>. QED  BY <2>2, <2>3, <2>4, <2>5 DEF Divided
<1>7. DOMAIN al2 \in SUBSET ArgLists /\ DOMAIN hp2 \in SUBSET (Nat \ {0})
    BY <1>1, <1>2 DEF HeapOK
<1>. QED  BY <1>3, <1>4, <1>5, <1>6, <1>7 DEF HeapOK, al2, hp2

(* A list comes with Args of its own.                                      *)
LEMMA BringsItsArgs ==
    ASSUME NEW al, NEW hp, NEW lo, HeapOK(al, hp, lo),
           NEW l \in ArgLists, l \notin DOMAIN al,
           NEW a \in Listed, NEW hp1, hp1 \in [DOMAIN hp1 -> Arg], IsFiniteSet(DOMAIN hp1),
           DOMAIN hp1 \in SUBSET (Nat \ {0}), \A p \in DOMAIN hp1 : p \notin DOMAIN hp,
           Served(a, hp1), Mine(a) \subseteq DOMAIN hp1,
           NEW lo2, \A p : p \in lo2 <=> (p \in lo \/ (p \in DOMAIN hp1 /\ p \notin Mine(a)))
    PROVE  HeapOK([ k \in DOMAIN al \cup {l} |-> IF k = l THEN a ELSE al[k] ],
                  [ p \in DOMAIN hp \cup DOMAIN hp1 |-> IF p \in DOMAIN hp THEN hp[p] ELSE hp1[p] ], lo2)
<1>. DEFINE al2 == [ k \in DOMAIN al \cup {l} |-> IF k = l THEN a ELSE al[k] ]
            hp2 == [ p \in DOMAIN hp \cup DOMAIN hp1 |-> IF p \in DOMAIN hp THEN hp[p] ELSE hp1[p] ]
<1>1. /\ DOMAIN al2 = DOMAIN al \cup {l} /\ al2[l] = a /\ l \in DOMAIN al2
      /\ \A k \in DOMAIN al : al2[k] = al[k] /\ k \in DOMAIN al2 /\ k # l
      /\ \A k \in DOMAIN al2 : k = l \/ k \in DOMAIN al
    OBVIOUS
<1>2. /\ DOMAIN hp2 = DOMAIN hp \cup DOMAIN hp1
      /\ \A p \in DOMAIN hp : hp2[p] = hp[p] /\ p \in DOMAIN hp2
      /\ \A p \in DOMAIN hp1 : hp2[p] = hp1[p] /\ p \in DOMAIN hp2
      /\ \A p \in DOMAIN hp2 : p \in DOMAIN hp \/ p \in DOMAIN hp1
    OBVIOUS
<1>3. al2 \in [DOMAIN al2 -> Listed]
    BY DEF HeapOK
<1>4. hp2 \in [DOMAIN hp2 -> Arg]
    BY DEF HeapOK
<1>. HIDE DEF al2, hp2
<1>5. IsFiniteSet(DOMAIN hp2)
    <2>1. IsFiniteSet(DOMAIN hp)
        BY DEF HeapOK
    <2>2. IsFiniteSet(DOMAIN hp \cup DOMAIN hp1)
        BY <2>1, FS_Union, Zenon
    <2>. QED  BY <1>2, <2>2
<1>6. \A k \in DOMAIN al2 : Served(al2[k], hp2)
    <2>1. Served(a, hp2)
        <3>1. \A p \in Mine(a) : p \in DOMAIN hp1 => p \in DOMAIN hp2 /\ hp2[p].node = hp1[p].node
            BY <1>2
        <3>. QED  BY <3>1, StaysServed
    <2>2. \A k \in DOMAIN al : Served(al[k], hp2)
        <3>1. \A p \in DOMAIN hp : p \in DOMAIN hp2 /\ hp2[p].node = hp[p].node
            BY <1>2
        <3>2. \A k \in DOMAIN al : Served(al[k], hp)
            BY DEF HeapOK
        <3>. QED  BY <3>1, <3>2, StaysServed
    <2>. QED  BY <1>1, <2>1, <2>2
<1>7. Divided(al2, hp2, lo2)
    <2>1. Divided(al, hp, lo)
        BY DEF HeapOK
    <2>2. \A p \in lo2 : p \in DOMAIN hp2
        BY <1>2, <2>1 DEF Divided
    <2>3. \A k \in DOMAIN al2 : \A p \in Mine(al2[k]) : p \in DOMAIN hp2 /\ p \notin lo2
        <3>1. \A p \in Mine(a) : p \in DOMAIN hp2 /\ p \notin lo2
            BY <1>2, <2>1 DEF Divided
        <3>2. \A k \in DOMAIN al : \A p \in Mine(al[k]) : p \in DOMAIN hp2 /\ p \notin lo2
            BY <1>2, <2>1 DEF Divided
        <3>. QED  BY <1>1, <3>1, <3>2
    <2>4. \A j, k \in DOMAIN al2 : \A p \in Mine(al2[j]) : p \in Mine(al2[k]) => j = k
        <3>1. \A k \in DOMAIN al : \A p \in Mine(al[k]) : p \notin Mine(a)
            BY <2>1 DEF Divided
        <3>. QED  BY <1>1, <2>1, <3>1 DEF Divided
    <2>5. \A p \in DOMAIN hp2 : p \in lo2 \/ \E k \in DOMAIN al2 : p \in Mine(al2[k])
        <3>1. \A p \in DOMAIN hp : p \in lo2 \/ \E k \in DOMAIN al2 : p \in Mine(al2[k])
            BY <1>1, <2>1 DEF Divided
        <3>2. \A p \in DOMAIN hp1 : p \in lo2 \/ p \in Mine(al2[l])
            BY <1>1
        <3>. QED  BY <1>1, <1>2, <3>1, <3>2
    <2>. QED  BY <2>2, <2>3, <2>4, <2>5 DEF Divided
<1>8. DOMAIN al2 \in SUBSET ArgLists /\ DOMAIN hp2 \in SUBSET (Nat \ {0})
    BY <1>1, <1>2 DEF HeapOK
<1>. QED  BY <1>3, <1>4, <1>5, <1>6, <1>7, <1>8 DEF HeapOK, al2, hp2

(***************************************************************************)
(* The references                                                          *)
(***************************************************************************)
ActionsOf == [ user : Users, arglist : ArgLists, id : Nat ]

(* The commands of c that hold l, the actions of as that do, and those     *)
(* that call back to u.                                                    *)
users_of(c, l) == { u \in Users : c[u].arglist = l }
actions_of(as, l) == { a \in as : a.arglist = l }
calls_to(as, u) == { a \in as : a.user = u }

(* Every reference is counted.                                             *)
Counted(al, c, as) ==
    \A l \in DOMAIN al :
        /\ al[l].refcount = Cardinality(users_of(c, l)) + Cardinality(actions_of(as, l))
        /\ al[l].refcount # 0

(* A command waits for its actions, which have its list, and no list is    *)
(* freed that has a reference.                                             *)
Waits(al, c, as, u) ==
    \/ c[u] = NoCommand
    \/ /\ c[u].arglist \in DOMAIN al
       /\ c[u].pending = Cardinality(calls_to(as, u)) /\ c[u].pending # 0
       /\ \A a \in calls_to(as, u) : a.arglist = c[u].arglist

Held(al, c, as) ==
    /\ c \in [Users -> [ arglist : ArgLists \cup {NULL}, pending : Nat ]]
    /\ as \in SUBSET ActionsOf /\ IsFiniteSet(as)
    /\ \A u \in Users : Waits(al, c, as, u)
    /\ \A a \in as : a.arglist \in DOMAIN al

ArgInv ==
    /\ HeapOK(arglists, heap, lost)
    /\ Held(arglists, cmd, actions)
    /\ Counted(arglists, cmd, actions)

(* The sets that are counted are finite.                                   *)
LEMMA CountsAreFinite ==
    ASSUME NEW al, NEW c, NEW as, Held(al, c, as), NEW l, NEW u
    PROVE  /\ IsFiniteSet(users_of(c, l)) /\ Cardinality(users_of(c, l)) \in Nat
           /\ IsFiniteSet(actions_of(as, l)) /\ Cardinality(actions_of(as, l)) \in Nat
           /\ IsFiniteSet(calls_to(as, u)) /\ Cardinality(calls_to(as, u)) \in Nat
<1>1. users_of(c, l) \in SUBSET Users /\ actions_of(as, l) \in SUBSET as /\ calls_to(as, u) \in SUBSET as
    BY DEF users_of, actions_of, calls_to
<1>2. IsFiniteSet(Users) /\ IsFiniteSet(as)
    BY ArgListAssumption DEF Held
<1>. QED  BY <1>1, <1>2, FS_Subset, FS_CardinalityType

(* A command that is not over names a list that is there.                  *)
LEMMA ListIsThere ==
    ASSUME ArgInv, NEW u \in Users
    PROVE  /\ cmd[u].arglist # NULL => cmd[u].arglist \in DOMAIN arglists /\ cmd[u] # NoCommand
           /\ cmd[u].arglist = NULL => cmd[u] = NoCommand
<1>1. DOMAIN arglists \in SUBSET ArgLists /\ NULL \notin ArgLists
    BY ArgListAssumption DEF ArgInv, HeapOK
<1>2. Waits(arglists, cmd, actions, u)
    BY DEF ArgInv, Held
<1>3. NoCommand.arglist = NULL
    BY DEF NoCommand
<1>. QED  BY <1>1, <1>2, <1>3 DEF Waits

(* Nobody holds a list that is not there.                                  *)
LEMMA NobodyHolds ==
    ASSUME ArgInv, NEW l \in ArgLists, l \notin DOMAIN arglists
    PROVE  users_of(cmd, l) = {} /\ actions_of(actions, l) = {}
<1>1. \A u \in Users : cmd[u].arglist # l
    BY ListIsThere, ArgListAssumption
<1>2. \A a \in actions : a.arglist # l
    BY DEF ArgInv, Held
<1>. QED  BY <1>1, <1>2 DEF users_of, actions_of

(* The table of a list leads to the Args it owns.                          *)
LEMMA OwnsMine ==
    ASSUME ArgInv, NEW l \in DOMAIN arglists
    PROVE  owned(arglists[l]) = Mine(arglists[l])
<1>1. \A p \in Mine(arglists[l]) : p \in DOMAIN heap
    BY DEF ArgInv, HeapOK, Divided
<1>2. DOMAIN heap \in SUBSET (Nat \ {0})
    BY DEF ArgInv, HeapOK
<1>. QED  BY <1>1, <1>2 DEF owned, Mine

(* With the invariant every holder finds what it looks for.                *)
LEMMA FindTheirArgs ==
    ASSUME ArgInv
    PROVE  HoldersFindTheirArgs
<1>1. ASSUME NEW l \in DOMAIN arglists
      PROVE  [ i \in DOMAIN iterated(l) |-> iterated(l)[i].node ] = arglists[l].hl
    <2>. DEFINE hl == arglists[l].hl
    <2>1. hl \in Seq(HashKeys) /\ Served(arglists[l], heap)
        <3>1. arglists[l] \in Listed /\ Served(arglists[l], heap)
            BY DEF ArgInv, HeapOK
        <3>. QED  BY <3>1 DEF Listed
    <2>2. Len(hl) \in Nat /\ hl = [ i \in 1..Len(hl) |-> hl[i] ] /\ \A i \in 1..Len(hl) : hl[i] \in HashKeys
        <3>. HIDE DEF hl
        <3>. QED  BY <2>1
    <2>3. \A i \in 1..Len(hl) : arglist_find(l, hl[i]) # 0 /\ heap[arglist_find(l, hl[i])].node = hl[i]
        BY <2>1, <2>2 DEF Served, arglist_find
    <2>. DEFINE gone == { i \in 1..Len(hl) : arglist_find(l, hl[i]) = 0 }
                n    == IF gone = {} THEN Len(hl)
                        ELSE (CHOOSE i \in gone : \A j \in gone : i <= j) - 1
    <2>4. iterated(l) = [ i \in 1..n |-> heap[arglist_find(l, hl[i])] ]
        BY DEF iterated
    <2>5. gone = {}
        BY <2>3
    <2>. HIDE DEF gone
    <2>6. n = Len(hl)
        BY <2>5
    <2>. HIDE DEF n, hl
    <2>7. DOMAIN iterated(l) = 1..Len(hl) /\ \A i \in 1..Len(hl) : iterated(l)[i].node = hl[i]
        BY <2>3, <2>4, <2>6
    <2>8. [ i \in DOMAIN iterated(l) |-> iterated(l)[i].node ] = [ i \in 1..Len(hl) |-> hl[i] ]
        BY <2>7
    <2>. QED  BY <2>2, <2>8 DEF hl
<1>2. \A u \in Users : cmd[u].arglist # NULL => cmd[u].arglist \in DOMAIN arglists
    BY ListIsThere
<1>3. \A a \in actions : a.arglist \in DOMAIN arglists
    BY DEF ArgInv, Held
<1>. QED  BY <1>1, <1>2, <1>3 DEF HoldersFindTheirArgs

(* And what nobody holds is not there.                                     *)
LEMMA AllIsFreed ==
    ASSUME ArgInv
    PROVE  ArgsAreFreed
<1>1. ASSUME NEW l \in DOMAIN arglists
      PROVE  (\E u \in Users : cmd[u].arglist = l) \/ (\E a \in actions : a.arglist = l)
    <2>1. users_of(cmd, l) # {} \/ actions_of(actions, l) # {}
        <3>1. arglists[l].refcount = Cardinality(users_of(cmd, l)) + Cardinality(actions_of(actions, l))
            BY DEF ArgInv, Counted
        <3>2. arglists[l].refcount # 0
            BY DEF ArgInv, Counted
        <3>3. Cardinality({}) = 0
            BY FS_EmptySet
        <3>. QED  BY <3>1, <3>2, <3>3
    <2>. QED  BY <2>1 DEF users_of, actions_of
<1>2. DOMAIN heap = lost \cup UNION { owned(arglists[l]) : l \in DOMAIN arglists }
    <2>1. \A l \in DOMAIN arglists : owned(arglists[l]) = Mine(arglists[l])
        BY OwnsMine
    <2>2. \A p : p \in DOMAIN heap <=> p \in lost \/ \E l \in DOMAIN arglists : p \in Mine(arglists[l])
        BY DEF ArgInv, HeapOK, Divided
    <2>. QED  BY <2>1, <2>2
<1>. QED  BY <1>1, <1>2 DEF ArgsAreFreed

(***************************************************************************)
(* The steps                                                               *)
(***************************************************************************)

(* References are given back.                                              *)
LEMMA UnlinkFrees ==
    ASSUME ArgInv, NEW l \in DOMAIN arglists, NEW n \in Nat, n <= arglists[l].refcount,
           Unlink(l, n), lost' = lost
    PROVE  /\ HeapOK(arglists, heap, lost)'
           /\ \A k \in DOMAIN arglists : k # l => k \in DOMAIN arglists' /\ arglists'[k] = arglists[k]
           /\ \A k \in DOMAIN arglists' : k \in DOMAIN arglists
           /\ IF arglists[l].refcount = n THEN l \notin DOMAIN arglists'
              ELSE l \in DOMAIN arglists' /\ arglists'[l].refcount = arglists[l].refcount - n
<1>. DEFINE r == arglists[l].refcount
<1>1. HeapOK(arglists, heap, lost) /\ arglists \in [DOMAIN arglists -> Listed] /\ arglists[l] \in Listed
    BY DEF ArgInv, HeapOK
<1>2. r \in Nat
    BY <1>1 DEF Listed
<1>3. CASE r = n
    <2>1. arglists' = [ k \in DOMAIN arglists \ {l} |-> arglists[k] ]
        BY <1>3 DEF Unlink, unlinked
    <2>2. l \notin DOMAIN arglists' /\ unlinked(l, n) = arglists'
        BY <2>1, <1>3 DEF unlinked
    <2>3. heap' = [ p \in DOMAIN heap \ Mine(arglists[l]) |-> heap[p] ]
        BY <2>2, OwnsMine DEF Unlink
    <2>4. HeapOK(arglists', heap', lost')
        BY <1>1, <2>1, <2>3, FreesItsArgs
    <2>. QED  BY <1>3, <2>1, <2>2, <2>4
<1>4. CASE r # n
    <2>. DEFINE a == [ arglists[l] EXCEPT !.refcount = r - n ]
    <2>1. arglists' = [ arglists EXCEPT ![l] = a ]
        BY <1>4 DEF Unlink, unlinked
    <2>2. a \in Listed /\ a.refcount = r - n /\ a.args = arglists[l].args /\ a.hl = arglists[l].hl
        <3>. DEFINE m == r - n
                    A == UNION { Tables(j) : j \in Nat \ {0} }
        <3>1. m \in Nat
            BY <1>2
        <3>2. arglists[l] \in [ refcount : Nat, args : A, hl : Seq(HashKeys) ]
            BY <1>1 DEF Listed
        <3>. HIDE DEF m, A
        <3>3. LET b == [ arglists[l] EXCEPT !.refcount = m ]
              IN /\ b \in [ refcount : Nat, args : A, hl : Seq(HashKeys) ]
                 /\ b.refcount = m /\ b.args = arglists[l].args /\ b.hl = arglists[l].hl
            BY <3>1, <3>2
        <3>. QED  BY <3>3 DEF m, A, Listed
    <2>. HIDE DEF a
    <2>3. /\ DOMAIN arglists' = DOMAIN arglists /\ arglists'[l] = a
          /\ \A k \in DOMAIN arglists : k # l => arglists'[k] = arglists[k]
        BY <2>1, <1>1
    <2>4. unlinked(l, n) = arglists'
        BY DEF Unlink
    <2>5. heap' = heap
        BY <2>3, <2>4 DEF Unlink
    <2>6. arglists' \in [DOMAIN arglists -> Listed]
        BY <1>1, <2>1, <2>2
    <2>7. \A k \in DOMAIN arglists : arglists'[k].args = arglists[k].args /\ arglists'[k].hl = arglists[k].hl
        BY <2>2, <2>3
    <2>8. HeapOK(arglists', heap, lost)
        BY <1>1, <2>3, <2>6, <2>7, CountsDoNotMatter
    <2>. QED  BY <1>4, <2>2, <2>3, <2>5, <2>8
<1>. QED  BY <1>3, <1>4

(* What the commands c and the actions as hold is l, n times less.         *)
GaveBack(c, as, l, n) ==
    /\ Cardinality(users_of(c, l)) + Cardinality(actions_of(as, l)) + n
         = Cardinality(users_of(cmd, l)) + Cardinality(actions_of(actions, l))
    /\ \A k \in DOMAIN arglists : k # l =>
         users_of(c, k) = users_of(cmd, k) /\ actions_of(as, k) = actions_of(actions, k)
    /\ IsFiniteSet(users_of(c, l)) /\ IsFiniteSet(actions_of(as, l))

(* They are counted then, and what is still held is there.                 *)
LEMMA UnlinkCounts ==
    ASSUME ArgInv, NEW l \in DOMAIN arglists, NEW n \in Nat, Unlink(l, n), lost' = lost,
           NEW c, NEW as, GaveBack(c, as, l, n)
    PROVE  /\ HeapOK(arglists, heap, lost)'
           /\ Counted(arglists', c, as)
           /\ \A u \in Users : c[u].arglist \in DOMAIN arglists => c[u].arglist \in DOMAIN arglists'
           /\ \A a \in as : a.arglist \in DOMAIN arglists => a.arglist \in DOMAIN arglists'
<1>. DEFINE r == arglists[l].refcount
            x == Cardinality(users_of(c, l))
            y == Cardinality(actions_of(as, l))
<1>1. x \in Nat /\ y \in Nat
    BY FS_CardinalityType DEF GaveBack
<1>2. r = x + y + n
    BY DEF GaveBack, ArgInv, Counted
<1>3. n <= r
    <2>. HIDE DEF x, y, r
    <2>. QED  BY <1>1, <1>2
<1>4. /\ HeapOK(arglists, heap, lost)'
      /\ \A k \in DOMAIN arglists : k # l => k \in DOMAIN arglists' /\ arglists'[k] = arglists[k]
      /\ \A k \in DOMAIN arglists' : k \in DOMAIN arglists
      /\ IF r = n THEN l \notin DOMAIN arglists'
         ELSE l \in DOMAIN arglists' /\ arglists'[l].refcount = r - n
    BY <1>3, UnlinkFrees
<1>5. r = n => users_of(c, l) = {} /\ actions_of(as, l) = {}
    <2>1. r = n => x = 0 /\ y = 0
        <3>. HIDE DEF x, y, r
        <3>. QED  BY <1>1, <1>2
    <2>2. (x = 0 => users_of(c, l) = {}) /\ (y = 0 => actions_of(as, l) = {})
        BY FS_EmptySet DEF GaveBack
    <2>. QED  BY <2>1, <2>2
<1>6. Counted(arglists', c, as)
    <2>1. ASSUME NEW k \in DOMAIN arglists', k # l
          PROVE  /\ arglists'[k].refcount = Cardinality(users_of(c, k)) + Cardinality(actions_of(as, k))
                 /\ arglists'[k].refcount # 0
        <3>1. k \in DOMAIN arglists /\ arglists'[k] = arglists[k]
            BY <1>4, <2>1
        <3>2. users_of(c, k) = users_of(cmd, k) /\ actions_of(as, k) = actions_of(actions, k)
            BY <2>1, <3>1 DEF GaveBack
        <3>. QED  BY <3>1, <3>2 DEF ArgInv, Counted
    <2>2. ASSUME l \in DOMAIN arglists'
          PROVE  arglists'[l].refcount = x + y /\ arglists'[l].refcount # 0
        <3>1. r # n /\ arglists'[l].refcount = r - n
            BY <1>4, <2>2
        <3>. HIDE DEF x, y, r
        <3>. QED  BY <1>1, <1>2, <3>1
    <2>. QED  BY <2>1, <2>2 DEF Counted
<1>7. \A u \in Users : c[u].arglist \in DOMAIN arglists => c[u].arglist \in DOMAIN arglists'
    <2>1. \A u \in Users : c[u].arglist = l => users_of(c, l) # {}
        BY DEF users_of
    <2>. QED  BY <1>4, <1>5, <2>1
<1>8. \A a \in as : a.arglist \in DOMAIN arglists => a.arglist \in DOMAIN arglists'
    <2>1. \A a \in as : a.arglist = l => actions_of(as, l) # {}
        BY DEF actions_of
    <2>. QED  BY <1>4, <1>5, <2>1
<1>. QED  BY <1>4, <1>6, <1>7, <1>8

(* A client goes: its command no longer holds the list, its actions do.    *)
LEMMA UserLeavesKeeps ==
    ASSUME ArgInv, NEW u \in Users, UserLeaves(u)
    PROVE  ArgInv'
<1>. DEFINE l == cmd[u].arglist
            was == users_of(cmd, l)
<1>1. /\ cmd[u] # NoCommand /\ Unlink(l, 1) /\ cmd' = [ cmd EXCEPT ![u] = NoCommand ]
      /\ actions' = actions /\ lost' = lost
    BY DEF UserLeaves
<1>2. l \in DOMAIN arglists /\ l # NULL
    BY <1>1, ListIsThere
<1>3. Held(arglists, cmd, actions) /\ cmd \in [Users -> [ arglist : ArgLists \cup {NULL}, pending : Nat ]]
    BY DEF ArgInv, Held
<1>4. NoCommand \in [ arglist : ArgLists \cup {NULL}, pending : Nat ] /\ NoCommand.arglist = NULL
    BY DEF NoCommand
<1>5. cmd' \in [Users -> [ arglist : ArgLists \cup {NULL}, pending : Nat ]]
    BY <1>1, <1>3, <1>4
<1>6. cmd'[u] = NoCommand /\ \A v \in Users : v # u => cmd'[v] = cmd[v]
    BY <1>1, <1>3
<1>7. GaveBack(cmd', actions', l, 1)
    <2>1. users_of(cmd', l) = was \ {u} /\ u \in was
        BY <1>2, <1>4, <1>6 DEF users_of
    <2>2. IsFiniteSet(was) /\ Cardinality(was) \in Nat
          /\ IsFiniteSet(actions_of(actions, l)) /\ Cardinality(actions_of(actions, l)) \in Nat
        BY <1>3, CountsAreFinite
    <2>3. ASSUME NEW k \in DOMAIN arglists, k # l
          PROVE  users_of(cmd', k) = users_of(cmd, k)
        <3>1. k # NULL
            BY ArgListAssumption DEF ArgInv, HeapOK
        <3>. QED  BY <1>4, <1>6, <2>3, <3>1 DEF users_of
    <2>. HIDE DEF was, l
    <2>4. IsFiniteSet(was \ {u}) /\ Cardinality(was \ {u}) = Cardinality(was) - 1
        BY <2>1, <2>2, FS_RemoveElement
    <2>5. Cardinality(users_of(cmd', l)) + Cardinality(actions_of(actions', l)) + 1
            = Cardinality(users_of(cmd, l)) + Cardinality(actions_of(actions, l))
        <3>. DEFINE X == Cardinality(was)
                    Y == Cardinality(actions_of(actions, l))
        <3>1. X \in Nat /\ Y \in Nat /\ (X - 1) + Y + 1 = X + Y
            BY <2>2
        <3>2. Cardinality(users_of(cmd', l)) = X - 1
            BY <2>1, <2>4
        <3>3. Cardinality(actions_of(actions', l)) = Y
            BY <1>1
        <3>4. Cardinality(users_of(cmd, l)) = X
            BY DEF was
        <3>. HIDE DEF X, Y
        <3>. QED  BY <3>1, <3>2, <3>3, <3>4 DEF Y
    <2>. QED  BY <1>1, <2>1, <2>2, <2>3, <2>4, <2>5 DEF GaveBack
<1>8. /\ HeapOK(arglists, heap, lost)'
      /\ Counted(arglists', cmd', actions')
      /\ \A v \in Users : cmd'[v].arglist \in DOMAIN arglists => cmd'[v].arglist \in DOMAIN arglists'
      /\ \A a \in actions' : a.arglist \in DOMAIN arglists => a.arglist \in DOMAIN arglists'
    BY <1>1, <1>2, <1>7, UnlinkCounts
<1>9. Held(arglists', cmd', actions')
    <2>1. ASSUME NEW v \in Users
          PROVE  Waits(arglists', cmd', actions', v)
        <3>1. CASE v = u
            BY <1>6, <3>1 DEF Waits
        <3>2. CASE v # u
            <4>1. cmd'[v] = cmd[v] /\ Waits(arglists, cmd, actions, v)
                BY <1>3, <1>6, <3>2 DEF Held
            <4>2. cmd[v].arglist \in DOMAIN arglists => cmd[v].arglist \in DOMAIN arglists'
                BY <1>8, <4>1
            <4>. QED  BY <1>1, <4>1, <4>2 DEF Waits
        <3>. QED  BY <3>1, <3>2
    <2>2. \A a \in actions' : a.arglist \in DOMAIN arglists'
        BY <1>1, <1>3, <1>8 DEF Held
    <2>. QED  BY <1>1, <1>3, <1>5, <2>1, <2>2 DEF Held
<1>. QED  BY <1>8, <1>9 DEF ArgInv

(* An action ends: it gives back its reference, and that of its command    *)
(* when it was the last.                                                   *)
LEMMA ActionEndsKeeps ==
    ASSUME ArgInv, NEW a \in actions, ActionEnds(a)
    PROVE  ArgInv'
<1>. DEFINE l == a.arglist
            u == a.user
            last == cmd[u].arglist # NULL /\ cmd[u].pending = 1
            n == IF last THEN 2 ELSE 1
            left == [ cmd[u] EXCEPT !.pending = @ - 1 ]
            Cmds == [ arglist : ArgLists \cup {NULL}, pending : Nat ]
<1>1. /\ actions' = actions \ {a} /\ Unlink(l, n) /\ lost' = lost
      /\ cmd' = IF cmd[u] = NoCommand THEN cmd ELSE [ cmd EXCEPT ![u] = IF last THEN NoCommand ELSE left ]
    BY Zenon DEF ActionEnds
<1>2. Held(arglists, cmd, actions) /\ cmd \in [Users -> Cmds] /\ actions \in SUBSET ActionsOf /\ IsFiniteSet(actions)
    BY DEF ArgInv, Held
<1>3. u \in Users /\ l \in DOMAIN arglists /\ l # NULL
    BY <1>2, ArgListAssumption DEF ActionsOf, Held
<1>4. /\ cmd[u].arglist = NULL => cmd[u] = NoCommand
      /\ cmd[u] # NoCommand => cmd[u].arglist = l
      /\ cmd[u] # NoCommand => cmd[u].pending = Cardinality(calls_to(actions, u)) /\ cmd[u].pending # 0
      /\ a \in calls_to(actions, u)
    <2>1. Waits(arglists, cmd, actions, u)
        BY <1>2, <1>3 DEF Held
    <2>2. a \in calls_to(actions, u)
        BY DEF calls_to
    <2>. QED  BY <1>3, <2>1, <2>2, ListIsThere DEF Waits
<1>5. NoCommand \in Cmds /\ NoCommand.arglist = NULL
    BY DEF NoCommand
<1>6. cmd[u] # NoCommand => left \in Cmds /\ left.arglist = l /\ left.pending = cmd[u].pending - 1
    <2>. DEFINE m == cmd[u].pending - 1
                A == ArgLists \cup {NULL}
    <2>1. cmd[u] \in [ arglist : A, pending : Nat ] /\ cmd[u].pending \in Nat
        BY <1>2, <1>3
    <2>2. cmd[u] # NoCommand => m \in Nat
        BY <1>4, <2>1
    <2>3. left = [ cmd[u] EXCEPT !.pending = m ]
        OBVIOUS
    <2>. HIDE DEF m, A
    <2>4. cmd[u] # NoCommand => left \in [ arglist : A, pending : Nat ]
                                /\ left.arglist = cmd[u].arglist /\ left.pending = m
        BY <2>1, <2>2, <2>3
    <2>. QED  BY <1>4, <2>4 DEF m, A
<1>. HIDE DEF Cmds, left
<1>7. cmd' \in [Users -> Cmds]
    BY <1>1, <1>2, <1>5, <1>6
<1>8. /\ \A v \in Users : v # u => cmd'[v] = cmd[v]
      /\ cmd'[u] = IF cmd[u] = NoCommand \/ last THEN NoCommand ELSE left
    BY <1>1, <1>2, <1>3
<1>9. last => cmd[u] # NoCommand
    BY <1>5
<1>10. \A v : calls_to(actions', v) = IF v = u THEN calls_to(actions, u) \ {a} ELSE calls_to(actions, v)
    BY <1>1 DEF calls_to
<1>11. /\ actions_of(actions', l) = actions_of(actions, l) \ {a} /\ a \in actions_of(actions, l)
       /\ \A k : k # l => actions_of(actions', k) = actions_of(actions, k)
    BY <1>1 DEF actions_of
<1>12. /\ users_of(cmd', l) = IF last THEN users_of(cmd, l) \ {u} ELSE users_of(cmd, l)
       /\ last => u \in users_of(cmd, l)
       /\ \A k \in DOMAIN arglists : k # l => users_of(cmd', k) = users_of(cmd, k)
    <2>1. CASE last
        <3>1. cmd[u].arglist = l /\ cmd'[u].arglist = NULL
            BY <1>4, <1>5, <1>8, <1>9, <2>1
        <3>2. \A k \in DOMAIN arglists : k # NULL
            BY ArgListAssumption DEF ArgInv, HeapOK
        <3>. HIDE DEF last
        <3>. QED  BY <1>3, <1>8, <2>1, <3>1, <3>2 DEF users_of
    <2>2. CASE ~last
        <3>1. cmd'[u].arglist = cmd[u].arglist
            BY <1>4, <1>6, <1>8, <2>2
        <3>. HIDE DEF last
        <3>2. \A v \in Users : cmd'[v].arglist = cmd[v].arglist
            BY <1>8, <3>1
        <3>. QED  BY <2>2, <3>2 DEF users_of
    <2>. QED  BY <2>1, <2>2
<1>. HIDE DEF last
<1>13. GaveBack(cmd', actions', l, n)
    <2>. DEFINE x == users_of(cmd, l)
                y == actions_of(actions, l)
    <2>1. IsFiniteSet(x) /\ Cardinality(x) \in Nat /\ IsFiniteSet(y) /\ Cardinality(y) \in Nat
        BY <1>2, CountsAreFinite
    <2>2. IsFiniteSet(y \ {a}) /\ Cardinality(y \ {a}) = Cardinality(y) - 1
        BY <1>11, <2>1, FS_RemoveElement
    <2>3. u \in x => IsFiniteSet(x \ {u}) /\ Cardinality(x \ {u}) = Cardinality(x) - 1
        BY <2>1, FS_RemoveElement
    <2>4. /\ IsFiniteSet(users_of(cmd', l)) /\ IsFiniteSet(actions_of(actions', l))
          /\ Cardinality(users_of(cmd', l)) + Cardinality(actions_of(actions', l)) + n = Cardinality(x) + Cardinality(y)
        <3>. HIDE DEF x, y
        <3>1. CASE last
            BY <1>11, <1>12, <2>1, <2>2, <2>3, <3>1 DEF x, y
        <3>2. CASE ~last
            BY <1>11, <1>12, <2>1, <2>2, <3>2 DEF x, y
        <3>. QED  BY <3>1, <3>2
    <2>. QED  BY <1>11, <1>12, <2>4 DEF GaveBack
<1>14. n \in Nat
    OBVIOUS
<1>. HIDE DEF n
<1>15. /\ HeapOK(arglists, heap, lost)'
       /\ Counted(arglists', cmd', actions')
       /\ \A v \in Users : cmd'[v].arglist \in DOMAIN arglists => cmd'[v].arglist \in DOMAIN arglists'
       /\ \A b \in actions' : b.arglist \in DOMAIN arglists => b.arglist \in DOMAIN arglists'
    BY <1>1, <1>3, <1>13, <1>14, UnlinkCounts
<1>16. Held(arglists', cmd', actions')
    <2>1. ASSUME NEW v \in Users, v # u
          PROVE  Waits(arglists', cmd', actions', v)
        <3>1. cmd'[v] = cmd[v] /\ calls_to(actions', v) = calls_to(actions, v) /\ Waits(arglists, cmd, actions, v)
            BY <1>2, <1>8, <1>10, <2>1 DEF Held
        <3>2. cmd[v].arglist \in DOMAIN arglists => cmd[v].arglist \in DOMAIN arglists'
            BY <1>15, <3>1
        <3>. QED  BY <3>1, <3>2 DEF Waits
    <2>2. Waits(arglists', cmd', actions', u)
        <3>1. CASE cmd[u] = NoCommand \/ last
            BY <1>8, <3>1 DEF Waits
        <3>2. CASE cmd[u] # NoCommand /\ ~last
            <4>1. cmd'[u] = left /\ left.arglist = l /\ left.pending = cmd[u].pending - 1
                BY <1>6, <1>8, <3>2
            <4>2. l \in DOMAIN arglists'
                BY <1>3, <1>15, <4>1
            <4>3. IsFiniteSet(calls_to(actions, u)) /\ Cardinality(calls_to(actions, u)) \in Nat
                BY <1>2, CountsAreFinite
            <4>4. Cardinality(calls_to(actions', u)) = Cardinality(calls_to(actions, u)) - 1
                BY <1>4, <1>10, <4>3, FS_RemoveElement
            <4>5. cmd[u].pending # 1
                BY <1>3, <1>4, <3>2 DEF last
            <4>6. \A b \in calls_to(actions', u) : b.arglist = l
                <5>1. Waits(arglists, cmd, actions, u)
                    BY <1>2, <1>3 DEF Held
                <5>. QED  BY <1>4, <1>10, <3>2, <5>1 DEF Waits
            <4>7. left.pending = Cardinality(calls_to(actions', u)) /\ left.pending # 0
                BY <1>4, <3>2, <4>1, <4>3, <4>4, <4>5
            <4>. QED  BY <4>1, <4>2, <4>6, <4>7 DEF Waits
        <3>. QED  BY <3>1, <3>2
    <2>3. \A b \in actions' : b.arglist \in DOMAIN arglists'
        BY <1>1, <1>2, <1>15 DEF Held
    <2>4. actions' \in SUBSET ActionsOf /\ IsFiniteSet(actions')
        BY <1>1, <1>2, FS_RemoveElement
    <2>. QED  BY <1>7, <2>1, <2>2, <2>3, <2>4 DEF Held, Cmds
<1>. QED  BY <1>15, <1>16 DEF ArgInv

(* A command arrives: its list has a reference for it and for each action. *)
LEMMA CommandArrivesKeeps ==
    ASSUME ArgInv, NEW u \in Users, NEW hl \in Targets, NEW n \in 1..MaxActions, CommandArrives(u, hl, n)
    PROVE  ArgInv'
<1>. DEFINE new   == arglist_create(hl)
            a     == shared(new.list, n)
            Cmds  == [ arglist : ArgLists \cup {NULL}, pending : Nat ]
<1>1. /\ HeapOK(arglists, heap, lost) /\ Held(arglists, cmd, actions) /\ Counted(arglists, cmd, actions)
      /\ cmd \in [Users -> Cmds] /\ actions \in SUBSET ActionsOf /\ IsFiniteSet(actions)
      /\ IsFiniteSet(DOMAIN heap) /\ DOMAIN arglists \in SUBSET ArgLists
    BY DEF ArgInv, Held, HeapOK
<1>2. PICK l \in ArgLists :
        /\ l \notin DOMAIN arglists /\ cmd[u] = NoCommand /\ \A b \in actions : b.user # u
        /\ arglists' = [ k \in DOMAIN arglists \cup {l} |-> IF k = l THEN a ELSE arglists[k] ]
        /\ heap' = [ p \in DOMAIN heap \cup DOMAIN new.heap |->
                       IF p \in DOMAIN heap THEN heap[p] ELSE new.heap[p] ]
        /\ lost' = lost \cup { p \in DOMAIN new.heap : hash_find(new.list.args, new.heap[p].node) # p }
        /\ cmd' = [ cmd EXCEPT ![u] = [ arglist |-> l, pending |-> n ] ]
        /\ actions' = actions \cup [ user : {u}, arglist : {l}, id : 1..n ]
    BY DEF CommandArrives
<1>. DEFINE fresh == [ user : {u}, arglist : {l}, id : 1..n ]
<1>3. n \in Nat /\ n # 0 /\ hl \in Seq(HashKeys) /\ l # NULL
    BY ArgListAssumption
<1>4. /\ new.list \in Listed /\ new.list.refcount = 1 /\ new.list.hl = hl
      /\ Served(new.list, new.heap) /\ Mine(new.list) \subseteq DOMAIN new.heap
      /\ IsFiniteSet(DOMAIN new.heap) /\ DOMAIN new.heap \subseteq Nat \ {0}
      /\ \A p \in DOMAIN new.heap : p \notin DOMAIN heap /\ new.heap[p] \in Arg
      /\ \A p \in Mine(new.list) : hash_find(new.list.args, new.heap[p].node) = p
    BY <1>1, <1>3, CreatesList
<1>5. new.heap \in [DOMAIN new.heap -> Arg]
    <2>1. arglist_create(hl).heap = [ p \in DOMAIN new.heap |-> new.heap[p] ]
        BY DEF arglist_create
    <2>. HIDE DEF new
    <2>. QED  BY <1>4, <2>1 DEF new
<1>. HIDE DEF new
<1>6. a \in Listed /\ a.refcount = n + 1 /\ a.args = new.list.args /\ a.hl = new.list.hl
    <2>. DEFINE A == UNION { Tables(j) : j \in Nat \ {0} }
                m == new.list.refcount + n
    <2>1. m \in Nat /\ m = n + 1
        BY <1>3, <1>4
    <2>2. a = [ new.list EXCEPT !.refcount = m ]
        BY DEF shared
    <2>3. new.list \in [ refcount : Nat, args : A, hl : Seq(HashKeys) ]
        BY <1>4 DEF Listed
    <2>. HIDE DEF A, m, a
    <2>4. a \in [ refcount : Nat, args : A, hl : Seq(HashKeys) ] /\ a.refcount = m
          /\ a.args = new.list.args /\ a.hl = new.list.hl
        BY <2>1, <2>2, <2>3
    <2>. QED  BY <2>1, <2>4 DEF A, Listed
<1>. HIDE DEF a
<1>7. Served(a, new.heap) /\ Mine(a) = Mine(new.list)
    BY <1>4, <1>6 DEF Served, Mine
<1>8. \A p : p \in lost' <=> (p \in lost \/ (p \in DOMAIN new.heap /\ p \notin Mine(a)))
    <2>1. ASSUME NEW p \in DOMAIN new.heap
          PROVE  p \in Mine(a) <=> hash_find(new.list.args, new.heap[p].node) = p
        <3>1. new.heap[p].node \in HashKeys /\ p \in Nat \ {0}
            BY <1>4 DEF Arg
        <3>. QED  BY <1>4, <1>7, <3>1 DEF Mine
    <2>. QED  BY <1>2, <2>1
<1>9. HeapOK(arglists', heap', lost')
    <2>. DEFINE hp1 == new.heap
    <2>1. /\ hp1 \in [DOMAIN hp1 -> Arg] /\ IsFiniteSet(DOMAIN hp1) /\ DOMAIN hp1 \in SUBSET (Nat \ {0})
          /\ \A p \in DOMAIN hp1 : p \notin DOMAIN heap
          /\ Served(a, hp1) /\ Mine(a) \subseteq DOMAIN hp1
        BY <1>4, <1>5, <1>7
    <2>2. \A p : p \in lost' <=> (p \in lost \/ (p \in DOMAIN hp1 /\ p \notin Mine(a)))
        BY <1>8
    <2>3. /\ arglists' = [ k \in DOMAIN arglists \cup {l} |-> IF k = l THEN a ELSE arglists[k] ]
          /\ heap' = [ p \in DOMAIN heap \cup DOMAIN hp1 |-> IF p \in DOMAIN heap THEN heap[p] ELSE hp1[p] ]
        BY <1>2
    <2>. HIDE DEF hp1
    <2>4. a \in Listed /\ l \in ArgLists /\ l \notin DOMAIN arglists /\ HeapOK(arglists, heap, lost)
        BY <1>1, <1>2, <1>6
    <2>5. HeapOK([ k \in DOMAIN arglists \cup {l} |-> IF k = l THEN a ELSE arglists[k] ],
                 [ p \in DOMAIN heap \cup DOMAIN hp1 |-> IF p \in DOMAIN heap THEN heap[p] ELSE hp1[p] ],
                 lost')
        BY <2>1, <2>2, <2>4, BringsItsArgs
    <2>. QED  BY <2>3, <2>5
<1>10. /\ cmd'[u] = [ arglist |-> l, pending |-> n ] /\ \A v \in Users : v # u => cmd'[v] = cmd[v]
       /\ cmd'[u].arglist = l /\ cmd'[u].pending = n
    BY <1>1, <1>2
<1>11. cmd' \in [Users -> Cmds]
    <2>1. [ arglist |-> l, pending |-> n ] \in Cmds
        BY <1>3
    <2>. HIDE DEF Cmds
    <2>. QED  BY <1>1, <1>2, <2>1
<1>12. IsFiniteSet(fresh) /\ Cardinality(fresh) = n
    <2>. DEFINE r(i) == [ user |-> u, arglist |-> l, id |-> i ]
                f    == [ i \in 1..n |-> r(i) ]
    <2>1. \A i \in 1..n : r(i) \in fresh
        OBVIOUS
    <2>2. \A b \in fresh : b.id \in 1..n /\ b = r(b.id)
        OBVIOUS
    <2>3. \A i, j \in 1..n : r(i) = r(j) => i = j
        OBVIOUS
    <2>4. IsFiniteSet(1..n) /\ Cardinality(1..n) = n
        BY <1>3, FS_Interval
    <2>. HIDE DEF r, fresh
    <2>5. f \in Surjection(1..n, fresh) /\ f \in Injection(1..n, fresh)
        BY <2>1, <2>2, <2>3 DEF Surjection, Injection, IsInjective
    <2>. HIDE DEF f
    <2>. QED  BY <2>4, <2>5, FS_Surjection
<1>13. \A b \in fresh : b.user = u /\ b.arglist = l /\ b \in ActionsOf
    BY DEF ActionsOf
<1>. HIDE DEF fresh
<1>14. actions' = actions \cup fresh
    BY <1>2 DEF fresh
<1>15. \A v : calls_to(actions', v) = IF v = u THEN fresh ELSE calls_to(actions, v)
    BY <1>2, <1>13, <1>14 DEF calls_to
<1>16. /\ actions_of(actions', l) = fresh
       /\ \A k : k # l => actions_of(actions', k) = actions_of(actions, k)
    <2>1. actions_of(actions, l) = {}
        BY <1>2, NobodyHolds
    <2>. QED  BY <2>1, <1>13, <1>14 DEF actions_of
<1>17. /\ users_of(cmd', l) = {u}
       /\ \A k \in DOMAIN arglists : users_of(cmd', k) = users_of(cmd, k)
    <2>1. users_of(cmd, l) = {}
        BY <1>2, NobodyHolds
    <2>2. \A k \in DOMAIN arglists : k # NULL /\ k # l
        BY <1>1, <1>2, ArgListAssumption
    <2>3. cmd[u].arglist = NULL
        BY <1>2 DEF NoCommand
    <2>. QED  BY <1>10, <2>1, <2>2, <2>3 DEF users_of
<1>18. /\ DOMAIN arglists' = DOMAIN arglists \cup {l} /\ arglists'[l] = a
       /\ \A k \in DOMAIN arglists : arglists'[k] = arglists[k] /\ k # l
    BY <1>2
<1>19. Counted(arglists', cmd', actions')
    <2>1. arglists'[l].refcount = Cardinality(users_of(cmd', l)) + Cardinality(actions_of(actions', l))
          /\ arglists'[l].refcount # 0
        <3>1. Cardinality({u}) = 1
            BY FS_Singleton
        <3>. QED  BY <1>3, <1>6, <1>12, <1>16, <1>17, <1>18, <3>1
    <2>2. ASSUME NEW k \in DOMAIN arglists
          PROVE  /\ arglists'[k].refcount = Cardinality(users_of(cmd', k)) + Cardinality(actions_of(actions', k))
                 /\ arglists'[k].refcount # 0
        BY <1>1, <1>16, <1>17, <1>18 DEF Counted
    <2>. QED  BY <1>18, <2>1, <2>2 DEF Counted
<1>20. Held(arglists', cmd', actions')
    <2>1. ASSUME NEW v \in Users, v # u
          PROVE  Waits(arglists', cmd', actions', v)
        <3>1. cmd'[v] = cmd[v] /\ calls_to(actions', v) = calls_to(actions, v) /\ Waits(arglists, cmd, actions, v)
            BY <1>1, <1>10, <1>15, <2>1 DEF Held
        <3>. QED  BY <1>18, <3>1 DEF Waits
    <2>2. Waits(arglists', cmd', actions', u)
        BY <1>3, <1>10, <1>12, <1>13, <1>15, <1>18 DEF Waits
    <2>3. \A b \in actions' : b.arglist \in DOMAIN arglists'
        BY <1>1, <1>13, <1>14, <1>18 DEF Held
    <2>4. actions' \in SUBSET ActionsOf /\ IsFiniteSet(actions')
        <3>1. IsFiniteSet(actions \cup fresh)
            BY <1>1, <1>12, FS_Union
        <3>. QED  BY <1>1, <1>13, <1>14, <3>1
    <2>. QED  BY <1>11, <2>1, <2>2, <2>3, <2>4 DEF Held
<1>. QED  BY <1>9, <1>19, <1>20 DEF ArgInv

(* A device's answer changes a state and nothing else.                     *)
LEMMA SetPlugStateKeeps ==
    ASSUME ArgInv, NEW a \in actions, NEW k \in HashKeys, NEW v \in Values, SetPlugState(a, k, v)
    PROVE  ArgInv'
<1>. DEFINE l == a.arglist
            p == arglist_find(l, k)
            w == [ heap[p] EXCEPT !.state = v ]
<1>1. /\ p # 0 /\ heap' = [ heap EXCEPT ![p] = w ]
      /\ arglists' = arglists /\ cmd' = cmd /\ actions' = actions /\ lost' = lost
    BY DEF SetPlugState
<1>2. /\ HeapOK(arglists, heap, lost) /\ l \in DOMAIN arglists /\ heap \in [DOMAIN heap -> Arg]
      /\ Served(arglists[l], heap)
    BY DEF ArgInv, Held, HeapOK
<1>3. p \in DOMAIN heap
    BY <1>1, <1>2 DEF Served, arglist_find
<1>4. w \in Arg /\ w.node = heap[p].node
    BY <1>2, <1>3 DEF Arg, States
<1>. HIDE DEF p, w
<1>5. /\ DOMAIN heap' = DOMAIN heap /\ heap' \in [DOMAIN heap -> Arg]
      /\ \A q \in DOMAIN heap : heap'[q].node = heap[q].node
    BY <1>1, <1>2, <1>3, <1>4
<1>6. HeapOK(arglists, heap', lost)
    BY <1>2, <1>5, StatesDoNotMatter
<1>. QED  BY <1>1, <1>6 DEF ArgInv

(* The invariant holds always.                                             *)
LEMMA ArgsStayRight == ArgSpec => []ArgInv
<1>1. ASSUME ArgInit
      PROVE  ArgInv
    <2>1. /\ DOMAIN arglists = {} /\ DOMAIN heap = {} /\ lost = {} /\ actions = {}
          /\ cmd = [ u \in Users |-> NoCommand ]
        BY <1>1 DEF ArgInit
    <2>2. IsFiniteSet({})
        BY FS_EmptySet
    <2>3. arglists \in [{} -> Listed] /\ heap \in [{} -> Arg]
        BY <1>1 DEF ArgInit
    <2>4. HeapOK(arglists, heap, lost)
        BY <2>1, <2>2, <2>3 DEF HeapOK, Divided
    <2>5. Counted(arglists, cmd, actions)
        BY <2>1 DEF Counted
    <2>6. Held(arglists, cmd, actions)
        <3>1. NoCommand \in [ arglist : ArgLists \cup {NULL}, pending : Nat ]
            BY DEF NoCommand
        <3>. QED  BY <2>1, <2>2, <3>1 DEF Held, Waits
    <2>. QED  BY <2>4, <2>5, <2>6 DEF ArgInv
<1>2. ASSUME ArgInv, [ArgNext]_arg_vars
      PROVE  ArgInv'
    <2>1. ASSUME NEW u \in Users, UserLeaves(u)
          PROVE  ArgInv'
        BY <1>2, <2>1, UserLeavesKeeps
    <2>2. ASSUME NEW u \in Users, NEW hl \in Targets, NEW n \in 1..MaxActions, CommandArrives(u, hl, n)
          PROVE  ArgInv'
        BY <1>2, <2>2, CommandArrivesKeeps
    <2>3. ASSUME NEW a \in actions, ActionEnds(a)
          PROVE  ArgInv'
        BY <1>2, <2>3, ActionEndsKeeps
    <2>4. ASSUME NEW a \in actions, NEW n \in HashKeys, NEW v \in Values, SetPlugState(a, n, v)
          PROVE  ArgInv'
        BY <1>2, <2>4, SetPlugStateKeeps
    <2>5. CASE UNCHANGED arg_vars
        BY <1>2, <2>5 DEF arg_vars, ArgInv
    <2>. QED  BY <1>2, <2>1, <2>2, <2>3, <2>4, <2>5 DEF ArgNext
<1>. QED  BY <1>1, <1>2, PTL DEF ArgSpec

(* However the actions of a command end, and whether or not its client     *)
(* hangs up, a command or an action that is left has its list, with the    *)
(* Args of every host it names.                                            *)
THEOREM HoldersFindArgs == ArgSpec => []HoldersFindTheirArgs
BY ArgsStayRight, FindTheirArgs, PTL

(* A list is freed with the last reference, together with its Args: what   *)
(* stays on the heap is in the table of a list somebody holds, or was      *)
(* allocated for a host that the list named before.                        *)
THEOREM ArgsAreAllFreed == ArgSpec => []ArgsAreFreed
BY ArgsStayRight, AllIsFreed, PTL
=============================================================================
