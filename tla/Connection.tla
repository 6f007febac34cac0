----------------------------- MODULE Connection -----------------------------
(***************************************************************************)
(* The methods of a device (powermand/device_tcp.c, device_pipe.c,         *)
(* device_serial.c) as the loop drives them (device.c): descriptors that   *)
(* the system hands out again, addresses, coprocesses, and the back-off.   *)
(***************************************************************************)
EXTENDS Xpoll, FiniteSetsExt

CONSTANTS
    Plants,     (* the sets of devices, as sequences of "tcp", "pipe" and "serial" *)
    NumAddrs,   (* the addresses of a tcp device *)
    Outcomes,   (* what an attempt does at once: "up", "progress", "error", "nosocket", *)
                (* or "lost": it connects, and SO_ERROR says that it is broken          *)
    rtab,       (* the back-off after the first, the second ... attempt *)
    MaxRetries  (* bound: retries beyond are counted as that many; rtab is shorter *)

ASSUME ConnectionAssumption ==
    /\ Plants \subseteq Seq({ "tcp", "pipe", "serial" })
    /\ NumAddrs \in Nat \ {0}
    /\ Outcomes \subseteq { "up", "progress", "error", "nosocket", "lost" }
    /\ rtab \in Seq(Nat \ {0}) /\ rtab # << >>
    /\ MaxRetries \in Nat /\ MaxRetries > Len(rtab)

VARIABLES
    method,     (* method[d]: how device d is connected (never changes) *)
    conn,       (* conn[d]: what the methods change of struct device and its data *)
    opened,     (* the descriptors that are open: whose, and the state of the link *)
    children,   (* children[d]: processes forked and not waited for *)
    leaked,     (* history: descriptors that nothing leads to *)
    aborted,    (* an assertion has failed *)
    turn,       (* the device dev_post_poll is at; 0: the loop is in xpoll *)
    revents     (* revents[d]: what poll reported of d's descriptor, until d is visited *)

conn_vars == << method, conn, opened, children, leaked, aborted, turn, revents >>

Devs == DOMAIN method
NO_FD == -1
NOADDR == NumAddrs + 1      \* cur is NULL

-----------------------------------------------------------------------------
(* A step of the loop is a composition of functions of the state, as a     *)
(* record w; out says what comes of each attempt it may make.              *)

this == [ conn |-> conn, opened |-> opened, children |-> children, leaked |-> leaked, aborted |-> aborted ]

new_fd(w) == Min((1..Cardinality(DOMAIN w.opened) + 1) \ DOMAIN w.opened)
link(w, d) == w.opened[w.conn[d].fd].link

(* d gets a new descriptor. *)
opens(w, d, state, status) ==
    LET fd == new_fd(w)
    IN [ w EXCEPT !.opened = [ g \in DOMAIN @ \cup {fd} |->
                                  IF g = fd THEN [ dev |-> d, link |-> status ] ELSE @[g] ],
                  !.conn[d].fd = fd, !.conn[d].state = state ]

abort(w) == [ w EXCEPT !.aborted = TRUE ]

(* An attempt that succeeds or is in progress. *)
connecting(w, d, outcome) ==
    opens(w, d, IF outcome = "up" THEN "connected" ELSE "connecting", outcome)

(* The numbers that n new descriptors get, and d leaving them open.        *)
new_fds(w, n) ==
    LET free == (1..Cardinality(DOMAIN w.opened) + n) \ DOMAIN w.opened
    IN  { fd \in free : Cardinality({ g \in free : g <= fd }) <= n }

abandons(w, d, fds) ==
    [ w EXCEPT !.opened = [ fd \in DOMAIN @ \cup fds |->
                               IF fd \in fds THEN [ dev |-> d, link |-> "reset" ] ELSE @[fd] ],
               !.leaked = @ \cup fds ]

(* The addresses are tried from a on.  The descriptor of an attempt that   *)
(* fails is closed, but not if connect succeeded and SO_ERROR says that it *)
(* is broken; its number stays in dev->fd.                                 *)
tcp_walk(w, d, a, out) ==
    LET good == { k \in a..NumAddrs : out[k] \in { "up", "progress" } }
        cur  == IF good = {} THEN NOADDR ELSE Min(good)
        lost == new_fds(w, Cardinality({ k \in a..cur - 1 : out[k] = "lost" }))
        v    == [ abandons(w, d, lost) EXCEPT !.conn[d].cur = cur ]
    IN IF good # {} THEN connecting(v, d, out[cur])
       ELSE [ v EXCEPT !.conn[d].state = "not_connected",
                       !.conn[d].fd = IF a > NumAddrs THEN @
                                      ELSE CASE out[NumAddrs] = "nosocket" -> NO_FD
                                             [] out[NumAddrs] = "lost" -> Max(lost)
                                             [] OTHER -> new_fd(v) ]

tcp_connect(w, d, out) == tcp_walk(w, d, w.conn[d].cur, out)

(* A coprocess at the other side of a terminal of its own.  (If it cannot  *)
(* be forked the daemon exits.)                                            *)
pipe_connect(w, d) == [ opens(w, d, "connected", "up") EXCEPT !.children[d] = @ + 1 ]

(* The attributes of the line are read, changed as the flags say and       *)
(* written back; any of it may fail.                                       *)
serial_setup(out) == out[1] = "up"

(* The special file is opened, locked and set up, or closed again. *)
serial_connect(w, d, out) == IF serial_setup(out) THEN opens(w, d, "connected", "up") ELSE w

(* The method begins with assert(dev->fd == NO_FD). *)
connect(w, d, out) ==
    LET v == [ w EXCEPT !.conn[d].elapsed = 0, !.conn[d].retry_count = Min({ @ + 1, MaxRetries }) ]
    IN CASE v.conn[d].fd # NO_FD   -> abort(v)
         [] OTHER -> CASE method[d] = "tcp"  -> tcp_connect(v, d, out)
                       [] method[d] = "pipe" -> pipe_connect(v, d)
                       [] OTHER              -> serial_connect(v, d, out)

(* Mutated form of tcp_finish_connect: it is closed, but when dev->fd is    *)
(* the next one already.                                                   *)
tcp_finish_connect_closes(w, d, out) ==
    LET v == tcp_walk(w, d, w.conn[d].cur + 1, out)
    IN IF link(w, d) # "reset" THEN [ w EXCEPT !.conn[d].state = "connected" ]
       ELSE [ v EXCEPT !.opened = [ fd \in DOMAIN @ \ { v.conn[d].fd } |-> @[fd] ] ]

(* The socket is writable: SO_ERROR says whether it is connected.  If not, *)
(* the next addresses are tried, and its descriptor is not closed.         *)
tcp_finish_connect(w, d, out) ==
    IF link(w, d) # "reset" THEN [ w EXCEPT !.conn[d].state = "connected" ]
    ELSE tcp_walk([ w EXCEPT !.leaked = @ \cup { w.conn[d].fd } ], d, w.conn[d].cur + 1, out)

(* Mutated form of closed: the descriptor is forgotten. *)
closed_not(w, d) == [ w EXCEPT !.conn[d].fd = NO_FD ]

closed(w, d) ==
    [ w EXCEPT !.opened = [ fd \in DOMAIN @ \ { w.conn[d].fd } |-> @[fd] ], !.conn[d].fd = NO_FD ]

(* Mutated form of reaped: the coprocess is told to end, but not waited for. *)
reaped_later(w, d) == w

reaped(w, d) == [ w EXCEPT !.children[d] = 0 ]      \* kill, waitpid

disconnect(w, d) == [ reaped(closed(w, d), d) EXCEPT !.conn[d].state = "not_connected" ]

(* Mutated form of retry_delay: the index stops one past the end. *)
retry_delay_past_end(n) == IF n <= Len(rtab) THEN rtab[n] ELSE 1000

retry_delay(n) == rtab[Min({ n, Len(rtab) })]

time_to_reconnect(c) == c.retry_count > 0 => c.elapsed >= retry_delay(c.retry_count)

reconnect(w, d, out) ==
    LET v == IF w.conn[d].state # "not_connected" THEN disconnect(w, d) ELSE w
    IN IF time_to_reconnect(v.conn[d]) THEN connect(v, d, out) ELSE v

-----------------------------------------------------------------------------
(* A turn of the loop. *)

(* What is read from or written to the device fails, or ends. *)
io_fails(w, d, flags) ==
    \/ "out" \in flags /\ link(w, d) = "reset"
    \/ "in" \in flags /\ link(w, d) \in { "eof", "reset" }

(* dev_post_poll at device d. *)
visit(w, d, flags, out) ==
    LET c == w.conn[d]
        finish == flags \cap Errors = {} /\ c.state = "connecting" /\ "out" \in flags
        v     == IF finish THEN tcp_finish_connect(w, d, out) ELSE w
        ioerr == \/ flags \cap Errors # {}
                 \/ c.state = "connected" /\ io_fails(w, d, flags)
    IN IF flags # {} /\ c.state = "not_connected" THEN abort(w)   \* _handle_ready_device
       ELSE IF ioerr \/ v.conn[d].state = "not_connected" THEN reconnect(v, d, out) ELSE v

Becomes(w) ==
    /\ conn' = w.conn /\ opened' = w.opened /\ children' = w.children
    /\ leaked' = w.leaked /\ aborted' = w.aborted

(* Before the loop: _connect for each. *)
InitialConnect(d) ==
    \E out \in [ 1..NumAddrs -> Outcomes ] :
        /\ ~aborted /\ turn = -d
        /\ Becomes(connect(this, d, out))
        /\ turn' = IF d = Cardinality(Devs) THEN 0 ELSE -(d + 1)
        /\ UNCHANGED << method, revents >>

Visit(d) ==
    \E out \in [ 1..NumAddrs -> Outcomes ] :
        LET w == visit(this, d, revents[d], out)
        IN /\ ~aborted /\ turn = d
           /\ Becomes(w)
           /\ turn' = IF d = Cardinality(Devs) THEN 0 ELSE d + 1
           /\ revents' = [ revents EXCEPT ![d] = {} ]
           /\ UNCHANGED method

(* What the links make ready; what is not open is invalid. *)
ready(input) ==
    [ fd \in { conn[d].fd : d \in Devs } |->
        IF fd \notin DOMAIN opened THEN { "nval" }
        ELSE CASE opened[fd].link = "progress" -> {}
               [] opened[fd].link = "up"       -> IF fd \in input THEN { "in", "out" } ELSE { "out" }
               [] opened[fd].link = "eof"      -> { "in", "out" }
               [] OTHER                        -> { "in", "out", "hup", "err" } ]

(* What the device waits for; it has something to send or not. *)
events(d, sending) ==
    IF conn[d].state = "connecting" \/ (conn[d].state = "connected" /\ d \in sending)
    THEN { "in", "out" } ELSE { "in" }

(* dev_pre_poll *)
dev_pre_poll(sending) ==
    FoldLeft(LAMBDA p, d : IF conn[d].fd < 0 THEN p ELSE xpollfd_set(p, conn[d].fd, events(d, sending)),
             xpollfd_create, [ d \in 1..Cardinality(Devs) |-> d ])

(* xpoll returns, if only for a client or a time-out that is not modelled. *)
(* (What a descriptor is reported to be is looked up here: no other visit  *)
(* changes the descriptor of a device.)                                    *)
PollReturns ==
    \E input \in SUBSET DOMAIN opened, sending \in SUBSET Devs :
        LET p == polled(dev_pre_poll(sending), ready(input))
        IN /\ ~aborted /\ turn = 0
           /\ revents' = [ d \in Devs |-> IF conn[d].fd # NO_FD THEN xpollfd_revents(p, conn[d].fd) ELSE {} ]
           /\ turn' = 1
           /\ UNCHANGED << method, conn, opened, children, leaked, aborted >>

(* A client's command for a device that is not connected (in cli_post_poll). *)
CommandExpedites(d) ==
    /\ ~aborted /\ turn = 1 /\ conn[d].state # "connected"
    /\ conn' = [ conn EXCEPT ![d].retry_count = 0 ]
    /\ UNCHANGED << method, opened, children, leaked, aborted, turn, revents >>

(* The other side accepts or refuses, closes or resets. *)
LinkChanges(fd) ==
    \E to \in CASE opened[fd].link = "progress" -> { "up", "reset" }
              [] opened[fd].link = "up"       -> { "eof", "reset" }
              [] OTHER                        -> {} :
        /\ opened' = [ opened EXCEPT ![fd].link = to ]
        /\ UNCHANGED << method, conn, children, leaked, aborted, turn, revents >>

TimePasses ==
    /\ \E d \in Devs : conn[d].elapsed < Max(ToSet(rtab))
    /\ conn' = [ d \in Devs |-> [ conn[d] EXCEPT !.elapsed = Min({ @ + 1, Max(ToSet(rtab)) }) ] ]
    /\ UNCHANGED << method, opened, children, leaked, aborted, turn, revents >>

Down == aborted /\ UNCHANGED conn_vars

ConnectionInit ==
    /\ method \in Plants
    /\ conn = [ d \in Devs |-> [ state |-> "not_connected", fd |-> NO_FD, cur |-> 1,
                                 retry_count |-> 0, elapsed |-> 0 ] ]
    /\ opened = << >> /\ children = [ d \in Devs |-> 0 ] /\ leaked = {} /\ aborted = FALSE
    /\ turn = -1 /\ revents = [ d \in Devs |-> {} ]

ConnectionNext ==
    \/ \E d \in Devs : InitialConnect(d) \/ Visit(d) \/ CommandExpedites(d)
    \/ PollReturns \/ TimePasses \/ Down
    \/ \E fd \in DOMAIN opened : LinkChanges(fd)

ConnectionSpec == ConnectionInit /\ [][ConnectionNext]_conn_vars

-----------------------------------------------------------------------------
(* Properties. *)

Holding == { d \in Devs : conn[d].state # "not_connected" }

(* A device that is connected or connecting holds a descriptor that is     *)
(* open and was opened for it; no number that was closed and handed out    *)
(* again is taken for its own.                                             *)
HoldsItsDescriptor ==
    \A d \in Holding : conn[d].fd \in DOMAIN opened /\ opened[conn[d].fd].dev = d

(* No descriptor is left open that no device holds, but for those that a   *)
(* tcp device leaves behind when it moves on to the next address.          *)
NothingElseLeaks == DOMAIN opened = { conn[d].fd : d \in Holding } \cup leaked

(* A coprocess runs while its device is connected, one for each device,    *)
(* and none is left unreaped.                                              *)
ChildrenAreReaped ==
    \A d \in Devs : children[d] = IF method[d] = "pipe" /\ d \in Holding THEN 1 ELSE 0

(* assert(dev->fd == NO_FD), with which tcp_connect begins: a device that  *)
(* is not connected has no descriptor.                                     *)
UnconnectedHasNoDescriptor == \A d \in Devs \ Holding : conn[d].fd = NO_FD

(* A device that is not connected is tried again and again, as long as     *)
(* something makes the loop turn: the back-off delays an attempt and never *)
(* prevents it.  (But a tcp device that has run out of addresses makes no  *)
(* real attempt, and an assertion that fails stops the daemon.)            *)
TriesAgain ==
    \A d \in UNION { DOMAIN m : m \in Plants } :
        ([]<>(turn = 0) /\ []<>(turn # 0)) =>
            []<>(d \notin Devs \/ d \in Holding \/ conn[d].elapsed = 0 \/ conn[d].cur = NOADDR \/ aborted)
=============================================================================
