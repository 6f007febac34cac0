-------------------------------- MODULE List --------------------------------
(***************************************************************************)
(* Linked lists with iterators (liblsd/list.c): powermand's clients,       *)
(* devices, actions, plugs and statements are lists, walked by iterators   *)
(* that live on while items are added and removed.                         *)
(*                                                                         *)
(* An address of a "next" pointer is "head", that of the list, or a node,  *)
(* that of the node's.  Nodes come from a free list and go back to it.     *)
(***************************************************************************)
EXTENDS Integers, Sequences, FiniteSets, SequencesExt

CONSTANTS
    Node,       (* the nodes of the chunks that are allocated *)
    nil,
    Items,      (* what a list holds: numbers, of which key is what find looks at *)
    Iterators

ASSUME ListAssumption ==
    /\ IsFiniteSet(Node) /\ nil \notin Node /\ "head" \notin Node
    /\ Items \subseteq Nat \ {0}

VARIABLES
    head, tail, count,
    node,       (* node[p]: data and next *)
    free,       (* list_free_nodes *)
    it,         (* it[i]: whether the iterator exists, pos, prev *)
    op, res     (* the last call, and what it returned *)

list == << head, tail, count, node, free, it >>
list_vars == << head, tail, count, node, free, it, op, res >>

key(x) == x \div 10

-----------------------------------------------------------------------------
(* The state as a record l, so that a call that does several steps is a    *)
(* composition of functions.                                               *)

this == [ head |-> head, tail |-> tail, count |-> count, node |-> node, free |-> free, it |-> it ]

blank == [ data |-> 0, next |-> nil ]

deref(l, a) == IF a = "head" THEN l.head ELSE l.node[a].next
point(l, a, p) ==
    IF a = "head" THEN [ l EXCEPT !.head = p ] ELSE [ l EXCEPT !.node[a].next = p ]

(* The nodes in order. *)
chain(l) ==
    LET nth[k \in 0..l.count] == IF k = 0 THEN l.head ELSE l.node[nth[k - 1]].next
    IN [ k \in 1..l.count |-> nth[k - 1] ]

contents(l) == [ k \in 1..l.count |-> l.node[chain(l)[k]].data ]

each_iterator(l, f(_)) ==
    [ l EXCEPT !.it = [ i \in Iterators |-> IF l.it[i].live THEN f(l.it[i]) ELSE l.it[i] ] ]

(* x in a new node, after the address pp; nothing if there is no memory.   *)
(* An iterator that has passed pp passes the new node, one that is to      *)
(* return what follows it returns it first.                                *)
list_node_create(l, pp, x) ==
    LET p  == Head(l.free)
        nx == deref(l, pp)
        m  == [ l EXCEPT !.free = Tail(@), !.count = @ + 1, !.node[p] = [ data |-> x, next |-> nx ],
                         !.tail = IF nx = nil THEN p ELSE @ ]
        moved(i) == IF i.prev = pp THEN [ i EXCEPT !.prev = p ]
                    ELSE IF i.pos = nx THEN [ i EXCEPT !.pos = p ] ELSE i
    IN IF l.free = << >> THEN l ELSE each_iterator(point(m, pp, p), moved)

(* Mutated form of list_node_destroy: an iterator that returned the node   *)
(* after the one removed keeps the address of the latter.                  *)
list_node_destroy_dangling(l, pp) ==
    LET p  == deref(l, pp)
        nx == l.node[p].next
        m  == [ l EXCEPT !.free = << p >> \o @, !.count = @ - 1, !.node[p] = blank,
                         !.tail = IF nx = nil THEN pp ELSE @ ]
        moved(i) == IF i.pos = p THEN [ i EXCEPT !.pos = nx, !.prev = pp ] ELSE i
    IN IF p = nil THEN l ELSE each_iterator(point(m, pp, nx), moved)

(* Mutated form of list_node_destroy: tail is not moved off the last node. *)
list_node_destroy_tail(l, pp) ==
    LET p  == deref(l, pp)
        nx == l.node[p].next
        m  == [ l EXCEPT !.free = << p >> \o @, !.count = @ - 1, !.node[p] = blank ]
        moved(i) == IF i.pos = p THEN [ i EXCEPT !.pos = nx, !.prev = pp ]
                    ELSE IF i.prev = p THEN [ i EXCEPT !.prev = pp ] ELSE i
    IN IF p = nil THEN l ELSE each_iterator(point(m, pp, nx), moved)

(* The node at the address pp is taken out and freed.  What a free node    *)
(* holds is not modelled: nothing leads to it (IteratorsPointIntoList).    *)
list_node_destroy(l, pp) ==
    LET p  == deref(l, pp)
        nx == l.node[p].next
        m  == [ l EXCEPT !.free = << p >> \o @, !.count = @ - 1, !.node[p] = blank,
                         !.tail = IF nx = nil THEN pp ELSE @ ]
        moved(i) == IF i.pos = p THEN [ i EXCEPT !.pos = nx, !.prev = pp ]
                    ELSE IF i.prev = p THEN [ i EXCEPT !.prev = pp ] ELSE i
    IN IF p = nil THEN l ELSE each_iterator(point(m, pp, nx), moved)

data_at(l, p) == IF p = nil THEN 0 ELSE l.node[p].data

(* Mutated form of list_delete_all: pp moves on after a deletion too. *)
list_delete_all_skips(l, k) ==
    LET step[s \in 0..l.count] ==
          IF s = 0 THEN [ l |-> l, pp |-> "head", n |-> 0 ]
          ELSE LET t == step[s - 1]
                   p == deref(t.l, t.pp)
                   d == list_node_destroy(t.l, t.pp)
               IN IF p = nil THEN t
                  ELSE IF key(t.l.node[p].data) = k
                  THEN [ l |-> d, pp |-> IF deref(d, t.pp) = nil THEN t.pp ELSE deref(d, t.pp), n |-> t.n + 1 ]
                  ELSE [ t EXCEPT !.pp = p ]
    IN step[l.count]

(* Every node whose data has the key: pp moves on past the others. *)
list_delete_all(l, k) ==
    LET step[s \in 0..l.count] ==
          IF s = 0 THEN [ l |-> l, pp |-> "head", n |-> 0 ]
          ELSE LET t == step[s - 1]
                   p == deref(t.l, t.pp)
               IN IF key(t.l.node[p].data) = k
                  THEN [ l |-> list_node_destroy(t.l, t.pp), pp |-> t.pp, n |-> t.n + 1 ]
                  ELSE [ t EXCEPT !.pp = p ]
    IN step[l.count]

reset(l, i) == [ i EXCEPT !.pos = l.head, !.prev = "head" ]

(* One item on.  prev follows pos at a distance of one. *)
list_next(l, i) ==
    LET p == l.it[i].pos
    IN [ l EXCEPT
           !.it[i].pos  = IF p = nil THEN nil ELSE l.node[p].next,
           !.it[i].prev = IF deref(l, @) # p THEN deref(l, @) ELSE @ ]

(* The next item with the key, or the end. *)
list_find(l, i, k) ==
    LET step[s \in 0..l.count] ==
          IF s = 0 THEN list_next(l, i)
          ELSE LET t == step[s - 1]
                   x == data_at(t, deref(t, t.it[i].prev))
               IN IF t.it[i].pos = deref(t, t.it[i].prev) \/ key(x) = k THEN t ELSE list_next(t, i)
    IN step[l.count]

returned(l, i) ==   (* what list_next has just returned *)
    IF l.it[i].pos = deref(l, l.it[i].prev) THEN 0 ELSE data_at(l, deref(l, l.it[i].prev))

list_remove(l, i) ==
    IF deref(l, l.it[i].prev) # l.it[i].pos THEN list_node_destroy(l, l.it[i].prev) ELSE l

-----------------------------------------------------------------------------

Becomes(l) ==
    /\ head' = l.head /\ tail' = l.tail /\ count' = l.count
    /\ node' = l.node /\ free' = l.free /\ it' = l.it

Yields(req, x) == op' = req /\ res' = x

Absent(x) == x \notin { contents(this)[k] : k \in 1..count }    \* so that items tell where they are

Add(x) ==
    /\ Absent(x)
    /\ \/ Becomes(list_node_create(this, tail, x)) /\ Yields(<< "append", x >>, IF free = << >> THEN 0 ELSE x)
       \/ Becomes(list_node_create(this, "head", x)) /\ Yields(<< "prepend", x >>, IF free = << >> THEN 0 ELSE x)

Pop == Becomes(list_node_destroy(this, "head")) /\ Yields(<< "pop" >>, data_at(this, head))

DeleteAll(k) ==
    Becomes(list_delete_all(this, k).l) /\ Yields(<< "delete_all", k >>, list_delete_all(this, k).n)

Look(k) ==
    /\ UNCHANGED list
    /\ \/ Yields(<< "peek" >>, data_at(this, head))
       \/ Yields(<< "count" >>, count)
       \/ LET at == { n \in 1..count : key(contents(this)[n]) = k }
          IN Yields(<< "find_first", k >>,
                     IF at = {} THEN 0 ELSE contents(this)[CHOOSE n \in at : \A o \in at : n <= o])

Create(i) ==
    /\ ~it[i].live
    /\ Becomes([ this EXCEPT !.it[i] = [ live |-> TRUE, pos |-> head, prev |-> "head" ] ])
    /\ Yields(<< "iterator_create", i >>, 0)

Forget(i) ==
    /\ it[i].live
    /\ Becomes([ this EXCEPT !.it[i] = [ live |-> FALSE, pos |-> nil, prev |-> "head" ] ])
    /\ Yields(<< "iterator_destroy", i >>, 0)

Reset(i) ==
    it[i].live /\ Becomes([ this EXCEPT !.it[i] = reset(this, @) ]) /\ Yields(<< "iterator_reset", i >>, 0)

NextItem(i) ==
    it[i].live /\ Becomes(list_next(this, i)) /\ Yields(<< "next", i >>, data_at(this, it[i].pos))

Find(i, k) ==
    /\ it[i].live
    /\ Becomes(list_find(this, i, k))
    /\ Yields(<< "find", i, k >>, returned(list_find(this, i, k), i))

Insert(i, x) ==
    /\ it[i].live /\ Absent(x)
    /\ Becomes(list_node_create(this, it[i].prev, x))
    /\ Yields(<< "insert", i, x >>, IF free = << >> THEN 0 ELSE x)

Remove1(i) ==                       \* list_remove, and list_delete
    it[i].live /\ Becomes(list_remove(this, i)) /\ Yields(<< "remove", i >>, returned(this, i))

(* A list is destroyed, and another created. *)
Destroy ==
    /\ Becomes([ this EXCEPT !.head = nil, !.tail = "head", !.count = 0,
                   !.node = [ p \in Node |-> blank ], !.free = Reverse(chain(this)) \o @,
                   !.it = [ i \in Iterators |-> [ live |-> FALSE, pos |-> nil, prev |-> "head" ] ] ])
    /\ Yields(<< "destroy" >>, 0)

ListInit ==
    /\ head = nil /\ tail = "head" /\ count = 0
    /\ node = [ p \in Node |-> blank ]
    /\ free = SetToSeq(Node)
    /\ it = [ i \in Iterators |-> [ live |-> FALSE, pos |-> nil, prev |-> "head" ] ]
    /\ op = << "create" >> /\ res = 0

Keys == { key(x) : x \in Items }

ListNext ==
    \/ \E x \in Items : Add(x)
    \/ Pop \/ Destroy
    \/ \E k \in Keys : DeleteAll(k) \/ Look(k)
    \/ \E i \in Iterators :
          \/ Create(i) \/ Forget(i) \/ Reset(i) \/ NextItem(i) \/ Remove1(i)
          \/ \E k \in Keys : Find(i, k)
          \/ \E x \in Items : Insert(i, x)

ListSpec == ListInit /\ [][ListNext]_list_vars

-----------------------------------------------------------------------------
(* Properties. *)

(* The assertion of list_node_create and list_node_destroy about every     *)
(* iterator, and what it rests on: prev is the address of a pointer in the *)
(* list, never one in a node that was removed and freed.                   *)
IteratorsPointIntoList ==
    \A i \in Iterators :
        it[i].live =>
            /\ it[i].prev \in { "head" } \cup ToSet(chain(this))
            /\ it[i].pos \in { nil } \cup ToSet(chain(this))
            /\ \/ it[i].pos = deref(this, it[i].prev)
               \/ /\ deref(this, it[i].prev) # nil
                  /\ it[i].pos = node[deref(this, it[i].prev)].next

(* No node is in the list and on the free list, none is lost, and tail is  *)
(* the address of the pointer that ends the list: what is appended is at   *)
(* the end, whatever was removed before.                                   *)
NodesAccounted ==
    /\ ToSet(chain(this)) \cup ToSet(free) = Node
    /\ count + Len(free) = Cardinality(Node)
    /\ tail = (IF count = 0 THEN "head" ELSE chain(this)[count])
    /\ deref(this, tail) = nil
=============================================================================
