-------------------------------- MODULE Hash --------------------------------
(***************************************************************************)
(* Hash tables with chains (liblsd/hash.c).  Their nodes come from one     *)
(* free list that all tables share and that grows by chunks.               *)
(***************************************************************************)
EXTENDS Integers, Sequences, FiniteSets, SequencesExt, Selection

CONSTANTS
    HashKeys,
    HashData,   (* what a table holds: numbers, 0 is NULL *)
    hash_key,   (* hash_key[k]: the number key_f makes of k *)
    Sizes,      (* the sizes a table is created with *)
    HASH_ALLOC, HASH_DEF_SIZE,
    MaxNodes    (* bound: the nodes of the chunks there is memory for *)

ASSUME HashAssumption ==
    /\ HashData \subseteq Nat \ {0}
    /\ hash_key \in [HashKeys -> Nat]
    /\ Sizes \subseteq Int /\ MaxNodes \in Nat
    /\ HASH_ALLOC \in Nat \ {0} /\ HASH_DEF_SIZE \in Nat \ {0}

VARIABLES
    table,          (* the chains, and count *)
    hash_free_list, (* how many nodes are on it *)
    nodes,          (* how many there are *)
    hash_op, hash_res

hash_vars == << table, hash_free_list, nodes, hash_op, hash_res >>

(* What an insert returns instead of the data. *)
EEXIST == -1
ENOMEM == -2

hash_create(size) ==
    LET n == IF size <= 0 THEN HASH_DEF_SIZE ELSE size
    IN [ size |-> n, chain |-> [ s \in 0..n - 1 |-> << >> ], count |-> 0 ]

chain_of(t, k) == t.chain[hash_key[k] % t.size]
places(t, k) == { i \in DOMAIN chain_of(t, k) : chain_of(t, k)[i].hkey = k }

(* The data of the first node with the key, or NULL. *)
hash_find(t, k) ==
    LET at == { i \in places(t, k) : \A j \in places(t, k) : i <= j }
    IN IF at = {} THEN 0 ELSE chain_of(t, k)[CHOOSE i \in at : TRUE].data

(* Mutated form of hash_insert: a key that is there is added again. *)
hash_insert_again(t, k, d) ==
    [ t EXCEPT !.chain[hash_key[k] % t.size] = << [ hkey |-> k, data |-> d ] >> \o @, !.count = @ + 1 ]

(* A key that is there is refused (EEXIST). *)
hash_insert(t, k, d) ==
    IF places(t, k) # {} THEN t
    ELSE [ t EXCEPT !.chain[hash_key[k] % t.size] = << [ hkey |-> k, data |-> d ] >> \o @,
                    !.count = @ + 1 ]

(* Of each chain the nodes stay whose keys are not among those. *)
hash_delete_if(t, keys) ==
    LET gone == [ s \in DOMAIN t.chain |-> { i \in DOMAIN t.chain[s] : t.chain[s][i].hkey \in keys } ]
    IN [ t EXCEPT !.chain = [ s \in DOMAIN @ |-> elements_at(@[s], DOMAIN @[s] \ gone[s]) ],
                  !.count = @ - Cardinality(UNION { {s} \X gone[s] : s \in DOMAIN gone }) ]

hash_remove(t, k) == hash_delete_if(t, {k})

(* The keys whose data passes the caller's test, here that it is d. *)
passing(t, d) == { k \in HashKeys : hash_find(t, k) = d }

(* How many free nodes are left when one is taken from the free list, or   *)
(* from a new chunk.                                                       *)
hash_node_alloc(free, more) ==
    IF free > 0 THEN free - 1 ELSE IF more THEN HASH_ALLOC - 1 ELSE free

-----------------------------------------------------------------------------

CanGrow == nodes + HASH_ALLOC <= MaxNodes

(* t is the table, and the nodes that left it are free again. *)
TableBecomes(t) ==
    /\ table' = t /\ hash_free_list' = hash_free_list + table.count - t.count
    /\ UNCHANGED nodes

HashReturns(req, x) == hash_op' = req /\ hash_res' = x

HashInsert(k, d) ==
    LET t == hash_insert(table, k, d)
    IN \/ /\ t = table
          /\ UNCHANGED << table, hash_free_list, nodes >> /\ HashReturns(<< "insert", k, d >>, EEXIST)
       \/ /\ t # table /\ (hash_free_list > 0 \/ CanGrow)
          /\ table' = t
          /\ hash_free_list' = hash_node_alloc(hash_free_list, CanGrow)
          /\ nodes' = IF hash_free_list = 0 THEN nodes + HASH_ALLOC ELSE nodes
          /\ HashReturns(<< "insert", k, d >>, d)
       \/ /\ t # table /\ hash_free_list = 0      \* malloc fails
          /\ UNCHANGED << table, hash_free_list, nodes >> /\ HashReturns(<< "insert", k, d >>, ENOMEM)

HashRemove(k) ==
    TableBecomes(hash_remove(table, k)) /\ HashReturns(<< "remove", k >>, hash_find(table, k))

HashDeleteIf(d) ==
    LET t == hash_delete_if(table, passing(table, d))
    IN TableBecomes(t) /\ HashReturns(<< "delete_if", d >>, table.count - t.count)

(* hash_find, hash_for_each, hash_count and hash_is_empty. *)
HashLook ==
    /\ UNCHANGED << table, hash_free_list, nodes >>
    /\ \/ \E k \in HashKeys : HashReturns(<< "find", k >>, hash_find(table, k))
       \/ \E d \in HashData :
            HashReturns(<< "for_each", d >>,
                table.count - hash_delete_if(table, passing(table, d)).count)
       \/ HashReturns(<< "count" >>, table.count)

(* The table is destroyed, and another is created. *)
HashDestroy(size) ==
    TableBecomes(hash_create(size)) /\ HashReturns(<< "destroy", size >>, table.count)

HashInit ==
    /\ table = hash_create(0)
    /\ hash_free_list = 0 /\ nodes = 0
    /\ hash_op = << "create" >> /\ hash_res = 0

HashNext ==
    \/ \E k \in HashKeys : HashRemove(k) \/ \E d \in HashData : HashInsert(k, d)
    \/ \E d \in HashData : HashDeleteIf(d)
    \/ \E size \in Sizes : HashDestroy(size)
    \/ HashLook

HashSpec == HashInit /\ [][HashNext]_hash_vars

-----------------------------------------------------------------------------
(* Properties. *)

dict_of(t) == [ k \in { j \in HashKeys : hash_find(t, j) # 0 } |-> hash_find(t, k) ]

Mapping == INSTANCE Dictionary WITH dict <- dict_of(table)

(* A hash table is a function from keys to data, whatever keys share a     *)
(* chain: a key is there once, and its removal takes nothing else along.   *)
ImplementsDictionary == Mapping!Spec
=============================================================================
