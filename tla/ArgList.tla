------------------------------ MODULE ArgList ------------------------------
(***************************************************************************)
(* Argument lists (powermand/arglist.c): what the actions of a command     *)
(* find out about the nodes it names.  A list is shared by the command and *)
(* its actions, which end in any order and outlive a client that hangs up; *)
(* a reference count says when it is freed.                                *)
(***************************************************************************)
EXTENDS Hash

CONSTANTS
    Users,      (* the clients, each with at most one command *)
    ArgLists,   (* the addresses of argument lists *)
    NULL,       (* the address a client without a command has *)
    Targets,    (* what a command may name: sequences of HashKeys, with repetitions *)
    Values,     (* what a device may say of a node *)
    MaxActions, (* bound: the actions of a command *)
    MaxLost     (* bound: no command names a host twice when that many Args are lost *)

ASSUME ArgListAssumption ==
    /\ IsFiniteSet(Users) /\ NULL \notin ArgLists \cup Users /\ "unknown" \notin Values
    /\ Targets \subseteq Seq(HashKeys)
    /\ MaxActions \in Nat

VARIABLES
    arglists,   (* refcount, args and hl of the list at each address that is allocated *)
    heap,       (* the Arg at each address that is allocated *)
    cmd,        (* cmd[u]: arglist, and pending: the callbacks still to come *)
    actions,    (* the actions that are queued, as [ user, arglist, id ] *)
    lost        (* history: the Args whose node was in the list already *)

arg_vars == << arglists, heap, cmd, actions, lost >>

NoCommand == [ arglist |-> NULL, pending |-> 0 ]

(* An Arg for each host of hl, at new addresses, here the least that are   *)
(* not in use; one whose node is there already is not inserted.            *)
arglist_create(hl) ==
    LET unused == (1..Cardinality(DOMAIN heap) + Len(hl)) \ DOMAIN heap
        arg    == [ i \in 1..Len(hl) |-> CHOOSE p \in unused : Cardinality({ q \in unused : q <= p }) = i ]
        insert(t, i) == hash_insert(t, hl[i], arg[i])
        args   == FoldLeft(insert, hash_create(Len(hl)), [ i \in 1..Len(hl) |-> i ])
        at(p)  == CHOOSE i \in 1..Len(hl) : arg[i] = p
    IN [ list |-> [ refcount |-> 1, args |-> args, hl |-> hl ],
         heap |-> [ p \in { arg[i] : i \in 1..Len(hl) } |-> [ node |-> hl[at(p)], state |-> "unknown" ] ] ]

(* The Args in the table of a list. *)
owned(a) == { p \in DOMAIN heap : \E n \in HashKeys : hash_find(a.args, n) = p }

(* Mutated form of shared: the reference is not counted. *)
shared_uncounted(a, n) == a

shared(a, n) == [ a EXCEPT !.refcount = @ + n ]     \* n times arglist_link

(* Mutated form of unlinked: the list is freed one reference too late. *)
unlinked_late(l, n) ==
    IF arglists[l].refcount < n THEN [ k \in DOMAIN arglists \ {l} |-> arglists[k] ]
    ELSE [ arglists EXCEPT ![l].refcount = @ - n ]

(* The list l has n references less; with the last it is freed, and its    *)
(* Args.                                                                   *)
unlinked(l, n) ==
    IF arglists[l].refcount = n THEN [ k \in DOMAIN arglists \ {l} |-> arglists[k] ]
    ELSE [ arglists EXCEPT ![l].refcount = @ - n ]

Unlink(l, n) ==
    /\ arglists' = unlinked(l, n)
    /\ heap' = IF l \in DOMAIN unlinked(l, n) THEN heap
               ELSE [ p \in DOMAIN heap \ owned(arglists[l]) |-> heap[p] ]

arglist_find(l, n) == hash_find(arglists[l].args, n)

(* What arglist_next returns in turn: the hosts as they were named, up to  *)
(* one that is not found.                                                  *)
iterated(l) ==
    LET hl   == arglists[l].hl
        gone == { i \in 1..Len(hl) : arglist_find(l, hl[i]) = 0 }
        n    == IF gone = {} THEN Len(hl) ELSE (CHOOSE i \in gone : \A j \in gone : i <= j) - 1
    IN [ i \in 1..n |-> heap[arglist_find(l, hl[i])] ]

-----------------------------------------------------------------------------

(* A command arrives and n actions are queued for it; one that gets none   *)
(* is destroyed at once.  A client whose id is not gone comes back only    *)
(* when its command is done.                                               *)
CommandArrives(u, hl, n) ==
    LET new == arglist_create(hl)
    IN \E l \in ArgLists \ DOMAIN arglists :
        /\ cmd[u] = NoCommand /\ \A a \in actions : a.user # u
        /\ Cardinality(lost) < MaxLost \/ Len(hl) = Cardinality(ToSet(hl))
        /\ arglists' = [ k \in DOMAIN arglists \cup {l} |->
                           IF k = l THEN shared(new.list, n) ELSE arglists[k] ]
        /\ heap' = [ p \in DOMAIN heap \cup DOMAIN new.heap |->
                       IF p \in DOMAIN heap THEN heap[p] ELSE new.heap[p] ]
        /\ lost' = lost \cup { p \in DOMAIN new.heap : hash_find(new.list.args, new.heap[p].node) # p }
        /\ cmd' = [ cmd EXCEPT ![u] = [ arglist |-> l, pending |-> n ] ]
        /\ actions' = actions \cup [ user : {u}, arglist : {l}, id : 1..n ]

(* A device says something of the plug of node n (setplugstate). *)
SetPlugState(a, n, v) ==
    /\ arglist_find(a.arglist, n) # 0
    /\ heap' = [ heap EXCEPT ![arglist_find(a.arglist, n)].state = v ]
    /\ UNCHANGED << arglists, cmd, actions, lost >>

(* An action is done or fails: it calls back first and is destroyed then.  *)
(* The last callback of a command reports what arglist_next returns, and   *)
(* destroys the command.                                                   *)
ActionEnds(a) ==
    LET last == cmd[a.user].arglist # NULL /\ cmd[a.user].pending = 1
    IN /\ actions' = actions \ {a}
       /\ Unlink(a.arglist, IF last THEN 2 ELSE 1)
       /\ cmd' = IF cmd[a.user] = NoCommand THEN cmd
                 ELSE [ cmd EXCEPT ![a.user] = IF last THEN NoCommand
                                                       ELSE [ cmd[a.user] EXCEPT !.pending = @ - 1 ] ]
       /\ UNCHANGED lost

(* The client is destroyed with its command; its actions run on. *)
UserLeaves(u) ==
    /\ cmd[u] # NoCommand
    /\ Unlink(cmd[u].arglist, 1)
    /\ cmd' = [ cmd EXCEPT ![u] = NoCommand ]
    /\ UNCHANGED << actions, lost >>

ArgInit ==
    /\ arglists = << >> /\ heap = << >>
    /\ cmd = [ u \in Users |-> NoCommand ] /\ actions = {}
    /\ lost = {}

ArgNext ==
    \/ \E u \in Users : UserLeaves(u) \/ \E hl \in Targets, n \in 1..MaxActions : CommandArrives(u, hl, n)
    \/ \E a \in actions : ActionEnds(a) \/ \E n \in HashKeys, v \in Values : SetPlugState(a, n, v)

ArgSpec == ArgInit /\ [][ArgNext]_arg_vars

-----------------------------------------------------------------------------
(* Properties. *)

(* A command or an action that is left holds a list that is not freed, and *)
(* every host it names has its Arg there: no status reply stops short, no  *)
(* late answer is written to freed memory.                                 *)
HoldersFindTheirArgs ==
    \A l \in { cmd[u].arglist : u \in Users } \cup { a.arglist : a \in actions } :
        l # NULL =>
            /\ l \in DOMAIN arglists
            /\ [ i \in DOMAIN iterated(l) |-> iterated(l)[i].node ] = arglists[l].hl

(* When nobody holds a list it is freed, with all of its Args but those    *)
(* that were allocated for a host named before, which nothing leads to.    *)
ArgsAreFreed ==
    /\ \A l \in DOMAIN arglists : (\E u \in Users : cmd[u].arglist = l) \/ (\E a \in actions : a.arglist = l)
    /\ DOMAIN heap = lost \cup UNION { owned(arglists[l]) : l \in DOMAIN arglists }
=============================================================================
