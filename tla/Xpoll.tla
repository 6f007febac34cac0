------------------------------- MODULE Xpoll -------------------------------
(***************************************************************************)
(* The poll wrapper (libcommon/xpoll.c, built with poll): the descriptors  *)
(* a turn of the loop asks for, and the wait that signals interrupt.       *)
(***************************************************************************)
EXTENDS Integers, Sequences, FiniteSets, SequencesExt

CONSTANTS
    XPOLLFD_ALLOC_CHUNK,
    Timeouts,   (* the time-outs xpoll is called with *)
    MSEC,       (* ticks of the clock in the unit of poll *)
    MaxWait     (* bound: ticks a wait that has no end is followed *)

ASSUME XpollAssumption ==
    /\ XPOLLFD_ALLOC_CHUNK \in Nat \ {0} /\ MSEC \in Nat \ {0}
    /\ Timeouts \subseteq Nat \ {0} /\ MaxWait \in Nat

VARIABLES
    pfd,    (* ufds (ufds_size of them), nfds *)
    asked,  (* history: what xpollfd_set was called with in this turn *)
    wait    (* xpoll's tv, timeout, the ticks since it and since poll were called *)

xpoll_vars == << pfd, asked, wait >>

Errors == { "hup", "err", "nval" }      \* reported whether asked for or not

unset == [ fd |-> -1, events |-> {}, revents |-> {} ]

xpollfd_create == [ ufds |-> [ i \in 1..XPOLLFD_ALLOC_CHUNK |-> unset ], nfds |-> 0 ]

(* The entries stay, with the revents of the turn before. *)
xpollfd_zero(p) == [ p EXCEPT !.nfds = 0 ]

(* n is at most one more than there are: a chunk is enough. *)
grow_pollfd(ufds, n) ==
    IF Len(ufds) >= n THEN ufds ELSE ufds \o [ i \in 1..XPOLLFD_ALLOC_CHUNK |-> unset ]

entries(p, fd) == { i \in 1..p.nfds : p.ufds[i].fd = fd }

xpollfd_set(p, fd, events) ==
    LET n == p.nfds + 1
    IN IF entries(p, fd) # {}
       THEN [ p EXCEPT !.ufds[CHOOSE i \in entries(p, fd) : TRUE].events = @ \cup events ]
       ELSE [ ufds |-> [ grow_pollfd(p.ufds, n) EXCEPT ![n].fd = fd, ![n].events = events ], nfds |-> n ]

(* poll fills in what is ready of what each entry asks for, and errors. *)
polled(p, ready) ==
    [ p EXCEPT !.ufds = [ i \in DOMAIN @ |->
        IF i > p.nfds THEN @[i]
        ELSE [ @[i] EXCEPT !.revents = ready[p.ufds[i].fd] \cap (p.ufds[i].events \cup Errors) ] ] ]

(* Mutated form of xpollfd_revents: all entries are looked at. *)
xpollfd_revents_stale(p, fd) ==
    LET at == { i \in DOMAIN p.ufds : p.ufds[i].fd = fd }
    IN IF at = {} THEN {} ELSE p.ufds[CHOOSE i \in at : TRUE].revents

xpollfd_revents(p, fd) ==
    IF entries(p, fd) = {} THEN {} ELSE p.ufds[CHOOSE i \in entries(p, fd) : TRUE].revents

(* Mutated form of time_left: all of the wait is taken off what was left   *)
(* at the last signal.                                                     *)
time_left_twice(w, now) == w.timeout - now

time_left(w, now) == w.tv - now         \* may be negative

(* What poll is called with: in its own unit, rounded down. *)
tv_msec(w) == w.timeout \div MSEC

-----------------------------------------------------------------------------

Idle == [ tv |-> 0, timeout |-> 0, slept |-> 0, total |-> 0, in |-> FALSE, late |-> FALSE ]

Zero ==
    /\ ~wait.in /\ asked # << >>
    /\ pfd' = xpollfd_zero(pfd) /\ asked' = << >> /\ UNCHANGED wait

Ask(fd, events) ==
    /\ ~wait.in
    /\ pfd' = xpollfd_set(pfd, fd, events)
    /\ asked' = Append(asked, [ fd |-> fd, events |-> events ])
    /\ UNCHANGED wait

Call(tv) ==
    /\ ~wait.in
    /\ wait' = [ Idle EXCEPT !.tv = tv, !.timeout = tv, !.in = TRUE ]
    /\ UNCHANGED << pfd, asked >>

TimedWait == tv_msec(wait) >= 0
Due == TimedWait /\ wait.slept >= tv_msec(wait) * MSEC

Tick ==
    /\ wait.in /\ ~Due /\ wait.total < MaxWait
    /\ wait' = [ wait EXCEPT !.slept = @ + 1, !.total = @ + 1 ]
    /\ UNCHANGED << pfd, asked >>

(* A signal interrupts the poll; xpoll reads the clock up to a tick later  *)
(* and polls again for what is left.                                       *)
Signal ==
    \E late \in {0, 1} :
        LET now == wait.total + late
        IN /\ wait.in /\ now <= MaxWait
           /\ wait' = [ wait EXCEPT !.total = now, !.slept = 0, !.timeout = time_left(wait, now),
                                    !.late = @ \/ now > wait.tv ]
           /\ UNCHANGED << pfd, asked >>

(* Poll returns in time for what is ready, or for the time-out. *)
Return(ready) ==
    /\ wait.in
    /\ Due \/ \E i \in 1..pfd.nfds : ready[pfd.ufds[i].fd] \cap (pfd.ufds[i].events \cup Errors) # {}
    /\ pfd' = polled(pfd, ready)
    /\ wait' = [ wait EXCEPT !.in = FALSE ]
    /\ UNCHANGED asked

XpollInit == pfd = xpollfd_create /\ asked = << >> /\ wait = Idle

Events == { "in", "out" }

XpollNext ==
    \/ Zero \/ Tick \/ Signal
    \/ \E fd \in Nat, events \in SUBSET Events : Ask(fd, events)
    \/ \E tv \in Timeouts : Call(tv)
    \/ \E ready \in [Nat -> SUBSET (Events \cup Errors)] : Return(ready)

XpollSpec == XpollInit /\ [][XpollNext]_xpoll_vars

-----------------------------------------------------------------------------
(* Properties. *)

wanted(fd) == UNION { asked[i].events : i \in { j \in DOMAIN asked : asked[j].fd = fd } }

(* Each descriptor is polled once, for all that was asked of it in this    *)
(* turn, and nothing is reported of one that was not asked for, whatever   *)
(* the entries hold from the turns before.                                 *)
AsksForAll ==
    LET fds == { asked[i].fd : i \in DOMAIN asked }
    IN /\ pfd.nfds = Cardinality(fds)
       /\ \A fd \in fds : \E i \in 1..pfd.nfds : pfd.ufds[i].fd = fd /\ pfd.ufds[i].events = wanted(fd)
       /\ \A i \in DOMAIN pfd.ufds : pfd.ufds[i].fd \notin fds => xpollfd_revents(pfd, pfd.ufds[i].fd) = {}

(* However often signals interrupt it, a wait ends with its time-out:      *)
(* rounded down, never later.  (One that is interrupted so late that       *)
(* nothing is left never ends: the negative rest means no time-out.)       *)
WaitsAsLongAsAsked ==
    [][ wait.in =>
          /\ (~wait'.in /\ Due) => wait.total > wait.tv - MSEC
          /\ wait'.late \/ wait'.total <= wait.tv ]_wait
=============================================================================
