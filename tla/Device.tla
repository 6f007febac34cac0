------------------------------- MODULE Device -------------------------------
(***************************************************************************)
(* The devices of powermand (powermand/device.c) under the select loop of  *)
(* powermand.c: connection state, the queue of actions, the interpreter of *)
(* their scripts, reconnection, pings and time-outs.                       *)
(*                                                                         *)
(* The daemon is one thread.  A pass of its loop is cut into small steps:  *)
(* poll returns, the clients' commands are queued, then each device is     *)
(* visited: first its descriptor ("ready"), then its queue ("process"),    *)
(* one step per turn of the loop of _process_action.  Around it are the    *)
(* network and the devices themselves, and the passing of time.            *)
(*                                                                         *)
(* Time is abstract: a timer runs, and some time later it has expired.     *)
(* What the code computes as the time left is the set tmout of the timers  *)
(* that bound the next poll.                                               *)
(***************************************************************************)
EXTENDS Script

CONSTANTS
    NumDevs,        (* the devices are 1..NumDevs, in the order of dev_devices *)
    Clients, NoClient,
    Nodes, NoNode,
    PlugNode,       (* PlugNode[d]: the node of each plug of d, NoNode if unused *)
    Scripts,        (* Scripts[d]: from the commands d implements to blocks *)
    ConnectModes,   (* ConnectModes[d]: how the connect method of d may return *)
    DropModes,      (* how a connection may be lost: "hup", "eof" *)
    PlugStates,     (* what a device may answer about a plug *)
    MaxActs         (* bound: no ping falls due behind that many actions *)

Devs == 1..NumDevs
Plugs(d) == DOMAIN PlugNode[d]

(* The commands of clients, and the variants of their scripts. *)
AllScript ==
    [ on |-> "on_all", off |-> "off_all", cycle |-> "cycle_all",
      reset |-> "reset_all", status |-> "status_all", temp |-> "temp_all",
      beacon |-> "beacon_all" ]
RangedScript ==
    [ on |-> "on_ranged", off |-> "off_ranged", cycle |-> "cycle_ranged",
      reset |-> "reset_ranged", beacon_on |-> "beacon_on_ranged",
      beacon_off |-> "beacon_off_ranged" ]
Query == { "status", "temp", "beacon" }
ClientComs == DOMAIN AllScript \cup DOMAIN RangedScript
Coms == {"login", "ping"} \cup ClientComs
          \cup { AllScript[c] : c \in DOMAIN AllScript }
          \cup { RangedScript[c] : c \in DOMAIN RangedScript }

ASSUME DeviceAssumption ==
    /\ NumDevs \in Nat \ {0}
    /\ NoClient \notin Clients /\ NoNode \notin Nodes
    /\ MaxActs \in Nat
    /\ DropModes \subseteq {"hup", "eof"}
    /\ \A d \in Devs :
        /\ PlugNode[d] \in Seq(Nodes \cup {NoNode})
        /\ DOMAIN Scripts[d] \subseteq Coms
        /\ "login" \in DOMAIN Scripts[d]
        /\ \A c \in DOMAIN Scripts[d] : Scripts[d][c] \in DOMAIN Block
        /\ ConnectModes[d] \subseteq {"connected", "connecting", "failed"}

VARIABLES
    connect_state, logged_in, acts, to, from, xmatch,
    retry,      (* may d be reconnected now, or is the back-off running? *)
    ping,       (* is the next ping of d due, or is its period running? *)
    args,       (* args[c]: what c's command knows of the nodes it names *)
    link,       (* the connection as the network has it *)
    heard,      (* what the device heard and has not answered *)
    rx,         (* its answers, not read yet *)
    delivered,  (* history: the plugs c's command was transmitted for *)
    answered,   (* history: what devices answered about plugs to it *)
    phase, cur, tmout,
    calls       (* the completion callbacks the step makes *)

conn == << connect_state, logged_in, retry, link >>
bufs == << to, from, xmatch >>
wire == << heard, rx, delivered, answered >>
vars == << conn, acts, bufs, ping, args, wire, phase, cur, tmout, calls >>

(***************************************************************************)
(* Types                                                                   *)
(***************************************************************************)
Timer == { "unset", "running", "expired" }
ActErrors == { "ESUCCESS", "EABORT", "ECONNECTTIMEOUT", "ELOGINTIMEOUT", "EEXPFAIL" }
Callers == Clients \cup {NoClient}

(* A queued request to run one script: Action. *)
Action(d) == [ com : DOMAIN Scripts[d], client : Callers, exec : Stacks(Plugs(d)),
               time_stamp : Timer, delay_start : Timer ]

(* What a send transmits, and a line of what the device answers to it. *)
Sent(d) == [ com : Coms, client : Callers, plugs : SUBSET Plugs(d), arg : Replies ]
Line(d) == [ com : Coms, client : Callers, plug : Plugs(d) \cup {0},
             state : PlugStates \cup {"done"} ]

Outcomes == { "NOT_CONNECTED", "CONNECTING", "CONNECTED" }
Links == { "none", "opening", "refused", "up", "eof", "hup" }
Timers == { "stamp", "delay", "retry", "ping" } \X Devs

ConnTypeOK ==
    /\ connect_state \in [Devs -> Outcomes]
    /\ logged_in \in [Devs -> BOOLEAN]
    /\ retry \in [Devs -> {"ready", "waiting"}]
    /\ ping \in [Devs -> {"due", "waiting"}]
    /\ link \in [Devs -> Links]

QueueTypeOK ==
    /\ DOMAIN acts = Devs
    /\ \A d \in Devs : acts[d] \in Seq(Action(d))

WireTypeOK ==
    /\ DOMAIN to = Devs /\ DOMAIN from = Devs /\ DOMAIN xmatch = Devs
    /\ DOMAIN heard = Devs /\ DOMAIN rx = Devs
    /\ \A d \in Devs :
        /\ to[d] \in Seq(Sent(d)) /\ heard[d] \in Seq(Sent(d))
        /\ from[d] \in Seq(Line(d)) /\ rx[d] \in Seq(Line(d))
        /\ xmatch[d] \in Seq(Line(d))

CommandTypeOK ==
    /\ args \in [Clients -> [Nodes -> {"none", "unknown", "on", "off"}]]
    /\ delivered \in [Clients -> SUBSET (Devs \X Nat)]
    /\ answered \in [Clients -> SUBSET (Devs \X Nat \X PlugStates)]

LoopTypeOK ==
    /\ phase \in {"start", "poll", "clients", "ready", "process"}
    /\ cur \in Devs
    /\ tmout \subseteq Timers
    /\ calls \in Seq([client : Callers, err : ActErrors])

TypeOK == ConnTypeOK /\ QueueTypeOK /\ WireTypeOK /\ CommandTypeOK /\ LoopTypeOK

-----------------------------------------------------------------------------
(***************************************************************************)
(* Queueing actions                                                        *)
(***************************************************************************)
create_action(d, com, plugs, c) ==
    [ com |-> com, client |-> c,
      exec |-> << create_exec_ctx(Scripts[d][com], plugs) >>,
      time_stamp |-> "unset", delay_start |-> "unset" ]

(* The variant of com's script in a table, if d has it. *)
variant(d, com, table) ==
    { table[c] : c \in {com} \cap DOMAIN table } \cap DOMAIN Scripts[d]

implements(d, com) ==
    \/ com \in DOMAIN Scripts[d]
    \/ variant(d, com, AllScript) # {}
    \/ variant(d, com, RangedScript) # {}

targets(d, hl) == { p \in Plugs(d) : PlugNode[d][p] \in hl }

command_needs_device(d, hl) == targets(d, hl) # {}

dev_check_actions(com, hl) ==
    \A d \in Devs : command_needs_device(d, hl) => implements(d, com)

(* The i-th plug of a set, in the order of the plug list. *)
nth_plug(P, i) == CHOOSE p \in P : Cardinality({ q \in P : q <= p }) = i

(* One action for all plugs if every plug is a target (or for a query),    *)
(* else one for the range, else one for each plug - as the device has      *)
(* scripts.                                                                *)
enqueue_targetted_actions(d, com, hl, c) ==
    LET P == targets(d, hl)
        all == (P = Plugs(d) \/ com \in Query) /\ variant(d, com, AllScript) # {}
    IN  CASE all ->
               << create_action(d, AllScript[com], {}, c) >>
          [] ~all /\ variant(d, com, RangedScript) # {} ->
               << create_action(d, RangedScript[com], P, c) >>
          [] ~all /\ variant(d, com, RangedScript) = {} /\ com \in DOMAIN Scripts[d] ->
               [ i \in 1..Cardinality(P) |-> create_action(d, com, {nth_plug(P, i)}, c) ]
          [] OTHER -> << >>

(* Mutated form of new_acts: a device that is not connected is passed over. *)
new_acts_connected(d, com, hl, c) ==
    IF implements(d, com) /\ command_needs_device(d, hl) /\ connect_state[d] = "CONNECTED"
    THEN enqueue_targetted_actions(d, com, hl, c)
    ELSE << >>

(* The actions a command adds to the queue of d. *)
new_acts(d, com, hl, c) ==
    IF implements(d, com) /\ command_needs_device(d, hl)
    THEN enqueue_targetted_actions(d, com, hl, c)
    ELSE << >>

(* The queue when a login takes its place at the head: what it preempts is *)
(* rewound.                                                                *)
enqueue_login(d, q) ==
    << create_action(d, "login", {}, NoClient) >>
      \o ( IF q = << >> THEN q
           ELSE << [Head(q) EXCEPT !.exec = rewind_action(@)] >> \o Tail(q) )

(* A command of client c is queued, with a fresh arglist; the user is      *)
(* beating on a device that is not connected, so it may reconnect at once. *)
dev_enqueue_actions(com, hl, c) ==
    /\ args' = [ args EXCEPT ![c] = [ n \in Nodes |-> IF n \in hl THEN "unknown" ELSE "none" ] ]
    /\ acts' = [ d \in Devs |-> acts[d] \o new_acts(d, com, hl, c) ]
    /\ retry' = [ d \in Devs |->
                    IF new_acts(d, com, hl, c) # << >> /\ connect_state[d] # "CONNECTED"
                    THEN "ready" ELSE retry[d] ]
    /\ delivered' = [ delivered EXCEPT ![c] = {} ]
    /\ answered' = [ answered EXCEPT ![c] = {} ]
    /\ UNCHANGED << connect_state, logged_in, link, bufs, ping, heard, rx,
                    phase, cur, tmout >>
    /\ calls' = << >>

-----------------------------------------------------------------------------
(***************************************************************************)
(* Connections                                                             *)
(***************************************************************************)
NextDevice ==
    IF cur < NumDevs THEN /\ cur' = cur + 1
                          /\ phase' = IF phase = "start" THEN phase ELSE "ready"
                     ELSE cur' = 1 /\ phase' = "poll"

(* The possible outcomes of the connect method, and the queue then. *)
connect(d, q) ==
    { [ state |-> CASE m = "connected" -> "CONNECTED"
                    [] m = "connecting" -> "CONNECTING"
                    [] OTHER -> "NOT_CONNECTED",
        link |-> CASE m = "connected" -> "up"
                   [] m = "connecting" -> "opening"
                   [] OTHER -> "none",
        queue |-> IF m = "connected" THEN enqueue_login(d, q) ELSE q,
        retry |-> "waiting",
        timer |-> {} ] : m \in ConnectModes[d] }

(* Mutated forms of disconnect: the login stays; anything at the head goes. *)
disconnect_keeps_login(q) == q
disconnect_takes_any(q) == IF q # << >> THEN Tail(q) ELSE q

(* disconnect takes the login with it, if one is at the head. *)
disconnect(q) == IF q # << >> /\ Head(q).com = "login" THEN Tail(q) ELSE q

(* Connect if the back-off allows it; if not, poll is to wake up for it. *)
reconnect(d, queue) ==
    LET q == IF connect_state[d] # "NOT_CONNECTED" THEN disconnect(queue) ELSE queue
    IN  IF retry[d] = "ready" THEN connect(d, q)
        ELSE { [ state |-> "NOT_CONNECTED", link |-> "none", queue |-> q,
                 retry |-> "waiting", timer |-> { << "retry", d >> } ] }

(* Mutated form of Reconnected: the buffers keep what they hold. *)
Reconnected_unflushed(d, r) ==
    /\ connect_state' = [ connect_state EXCEPT ![d] = r.state ]
    /\ link' = [ link EXCEPT ![d] = r.link ]
    /\ retry' = [ retry EXCEPT ![d] = r.retry ]
    /\ logged_in' = [ logged_in EXCEPT ![d] = FALSE ]
    /\ heard' = [ heard EXCEPT ![d] = << >> ]
    /\ rx' = [ rx EXCEPT ![d] = << >> ]
    /\ UNCHANGED bufs

(* What a reconnection with outcome r does besides the queue and tmout:    *)
(* a connection there was is closed, and its buffers are flushed.          *)
Reconnected(d, r) ==
    /\ connect_state' = [ connect_state EXCEPT ![d] = r.state ]
    /\ link' = [ link EXCEPT ![d] = r.link ]
    /\ retry' = [ retry EXCEPT ![d] = r.retry ]
    /\ IF connect_state[d] # "NOT_CONNECTED"
       THEN /\ logged_in' = [ logged_in EXCEPT ![d] = FALSE ]
            /\ to' = [ to EXCEPT ![d] = << >> ]
            /\ from' = [ from EXCEPT ![d] = << >> ]
       ELSE UNCHANGED << logged_in, to, from >>
    /\ heard' = [ heard EXCEPT ![d] = << >> ]
    /\ rx' = [ rx EXCEPT ![d] = << >> ]
    /\ UNCHANGED xmatch

dev_initial_connect ==
    /\ phase = "start"
    /\ \E r \in connect(cur, acts[cur]) :
        /\ Reconnected(cur, r)
        /\ acts' = [ acts EXCEPT ![cur] = r.queue ]
    /\ NextDevice
    /\ calls' = << >>
    /\ UNCHANGED << ping, args, delivered, answered, tmout >>

-----------------------------------------------------------------------------
(***************************************************************************)
(* A visit to a device, first half: its descriptor                         *)
(***************************************************************************)

(* The end of every visit's first half: a ping may be due. *)
enqueue_ping(d, state, q, timer) ==
    LET pings == state = "CONNECTED" /\ "ping" \in DOMAIN Scripts[d]
        due   == pings /\ ping[d] = "due"
    IN  /\ acts' = [ acts EXCEPT ![d] =
                       IF due THEN Append(q, create_action(d, "ping", {}, NoClient)) ELSE q ]
        /\ ping' = [ ping EXCEPT ![d] = IF due THEN "waiting" ELSE @ ]
        /\ tmout' = tmout \cup timer
                          \cup (IF pings /\ ~due THEN { << "ping", d >> } ELSE {})
        /\ phase' = "process"
        /\ calls' = << >>
        /\ UNCHANGED << cur, args >>

(* poll reports a hang-up or an error, or a read the end of the file. *)
IoError(d) ==
    \/ link[d] \in {"refused", "hup"}
    \/ link[d] = "eof" /\ rx[d] = << >>

(* A device that is not connected, or just lost its connection. *)
VisitUnconnected(d) ==
    /\ phase = "ready" /\ cur = d
    /\ connect_state[d] = "NOT_CONNECTED" \/ IoError(d)
    /\ \E r \in reconnect(d, acts[d]) :
        /\ Reconnected(d, r)
        /\ enqueue_ping(d, r.state, r.queue, r.timer)
    /\ UNCHANGED << delivered, answered >>

(* The descriptor of a connection in progress became writable. *)
VisitFinishConnect(d) ==
    /\ phase = "ready" /\ cur = d
    /\ connect_state[d] = "CONNECTING" /\ link[d] = "up"
    /\ connect_state' = [ connect_state EXCEPT ![d] = "CONNECTED" ]
    /\ enqueue_ping(d, "CONNECTED", enqueue_login(d, acts[d]), {})
    /\ UNCHANGED << logged_in, retry, link, bufs, wire >>

(* The plugs a transmission is for. *)
addressed(d, t) == { << d, p >> : p \in IF t.plugs = {} THEN Plugs(d) ELSE t.plugs }

(* Reading and writing what is ready on a connected device. *)
VisitConnected(d) ==
    /\ phase = "ready" /\ cur = d
    /\ connect_state[d] = "CONNECTED" /\ ~IoError(d)
    /\ to' = [ to EXCEPT ![d] = << >> ]
    /\ IF link[d] = "up"
       THEN /\ heard' = [ heard EXCEPT ![d] = @ \o to[d] ]
            /\ delivered' = [ c \in Clients |-> delivered[c] \cup
                    UNION { addressed(d, to[d][i]) : i \in { j \in DOMAIN to[d] : to[d][j].client = c } } ]
       ELSE UNCHANGED << heard, delivered >>
    /\ UNCHANGED answered
    /\ from' = [ from EXCEPT ![d] = @ \o rx[d] ]
    /\ rx' = [ rx EXCEPT ![d] = << >> ]
    /\ enqueue_ping(d, "CONNECTED", acts[d], {})
    /\ UNCHANGED << conn, xmatch >>

VisitConnecting(d) ==
    /\ phase = "ready" /\ cur = d
    /\ connect_state[d] = "CONNECTING" /\ link[d] = "opening"
    /\ enqueue_ping(d, "CONNECTING", acts[d], {})
    /\ UNCHANGED << conn, bufs, wire >>

-----------------------------------------------------------------------------
(***************************************************************************)
(* A visit to a device, second half: its queue (_process_action)           *)
(***************************************************************************)
Processing(d) == phase = "process" /\ cur = d

(* The queue is empty: on to the next device. *)
ProcessIdle(d) ==
    /\ Processing(d) /\ acts[d] = << >>
    /\ NextDevice
    /\ calls' = << >>
    /\ UNCHANGED << conn, acts, bufs, ping, args, wire, tmout >>

(* The head action, with its time stamp set. *)
head(d) ==
    [ Head(acts[d]) EXCEPT !.time_stamp = IF @ = "unset" THEN "running" ELSE @ ]

top(d) == Head(Head(acts[d]).exec)

(* The queue of d with another head. *)
requeue(d, act) == [ acts EXCEPT ![d] = << act >> \o Tail(@) ]

TimedOut(d) == Head(acts[d]).time_stamp = "expired"

(* A statement of type t is to be executed now. *)
Executes(d, t) ==
    /\ Processing(d) /\ acts[d] # << >>
    /\ ~TimedOut(d) /\ connect_state[d] = "CONNECTED"
    /\ cur_stmt(top(d)).type = t

(* Mutated form of Stall: the time left of the head is not passed on. *)
Stall_untimed(d, act, timers) ==
    /\ acts' = requeue(d, act)
    /\ tmout' = tmout \cup timers
    /\ NextDevice
    /\ calls' = << >>
    /\ UNCHANGED << conn, ping >>

(* The head stalls: poll is to wake up when it times out, or for a delay.  *)
Stall(d, act, timers) ==
    /\ acts' = requeue(d, act)
    /\ tmout' = tmout \cup timers \cup { << "stamp", d >> }
    /\ NextDevice
    /\ calls' = << >>
    /\ UNCHANGED << conn, ping >>

(* The head goes on with another stack. *)
GoOn(d, exec) ==
    /\ acts' = requeue(d, [ head(d) EXCEPT !.exec = exec ])
    /\ calls' = << >>
    /\ UNCHANGED << conn, ping, phase, cur, tmout >>

(* The statement at the top of exec is done; so is the action if it was    *)
(* the last one.                                                           *)
Finish(d, exec) ==
    \/ /\ next_stmt(exec) # << >>
       /\ GoOn(d, next_stmt(exec))
    \/ /\ next_stmt(exec) = << >>
       /\ acts' = [ acts EXCEPT ![d] = Tail(@) ]
       /\ logged_in' = [ logged_in EXCEPT ![d] = @ \/ Head(acts[d]).com = "login" ]
       /\ calls' = << [ client |-> Head(acts[d]).client, err |-> "ESUCCESS" ] >>
       /\ UNCHANGED << connect_state, retry, link, ping, phase, cur, tmout >>

(* Mutated form of completions: only the head calls back. *)
completions_head(d, err) == << [ client |-> Head(acts[d]).client, err |-> err ] >>

(* The callbacks when the head fails, and with it all the actions behind.  *)
completions(d, err) ==
    LET rest == IF err = "EEXPFAIL" THEN "EABORT" ELSE err
    IN  [ i \in DOMAIN acts[d] |->
            [ client |-> acts[d][i].client, err |-> IF i = 1 THEN err ELSE rest ] ]

(* The head fails: the queue is emptied, and a device that is connected is *)
(* reconnected.                                                            *)
Fail(d, err) ==
    /\ calls' = completions(d, err)
    /\ IF connect_state[d] = "CONNECTED"
       THEN \E r \in reconnect(d, << >>) :
            /\ Reconnected(d, r)
            /\ acts' = [ acts EXCEPT ![d] = r.queue ]
            /\ tmout' = tmout \cup r.timer
       ELSE /\ acts' = [ acts EXCEPT ![d] = << >> ]
            /\ UNCHANGED << conn, bufs, heard, rx, tmout >>
    /\ NextDevice
    /\ UNCHANGED << ping, args, delivered, answered >>

ProcessTimeout(d) ==
    /\ Processing(d) /\ acts[d] # << >> /\ TimedOut(d)
    /\ Fail(d, IF connect_state[d] # "CONNECTED" THEN "ECONNECTTIMEOUT"
               ELSE IF ~logged_in[d] THEN "ELOGINTIMEOUT" ELSE "EEXPFAIL")

ProcessUnconnected(d) ==
    /\ Processing(d) /\ acts[d] # << >> /\ ~TimedOut(d)
    /\ connect_state[d] # "CONNECTED"
    /\ Stall(d, head(d), {})
    /\ UNCHANGED << bufs, args, wire >>

(* A send writes to the buffer the first time it is executed, and is done  *)
(* when it is executed with the buffer empty.                              *)
process_send(d) ==
    LET e == top(d)
        written == IF e.processing THEN to[d]
                   ELSE Append(to[d], [ com |-> head(d).com, client |-> head(d).client,
                                        plugs |-> e.plugs, arg |-> cur_stmt(e).arg ])
    IN  /\ Executes(d, "send")
        /\ to' = [ to EXCEPT ![d] = written ]
        /\ \/ /\ written = << >>
              /\ Finish(d, set_top(head(d).exec, [ e EXCEPT !.processing = FALSE ]))
           \/ /\ written # << >>
              /\ Stall(d, [ head(d) EXCEPT !.exec = set_top(@, [ e EXCEPT !.processing = TRUE ]) ], {})
        /\ UNCHANGED << from, xmatch, args, wire >>

(* How many lines the regex of an expect spans. *)
lines_spanned(d) == IF cur_stmt(top(d)).arg = "row" THEN Len(PlugNode[d]) ELSE 1

(* An expect consumes the input up to the end of its match; one that finds *)
(* nothing has forgotten the match before it.                              *)
process_expect(d) ==
    LET n == lines_spanned(d)
        matches == n \in 1..Len(from[d])
    IN  /\ Executes(d, "expect")
        /\ \/ /\ matches
              /\ xmatch' = [ xmatch EXCEPT ![d] = SubSeq(from[d], 1, n) ]
              /\ from' = [ from EXCEPT ![d] = SubSeq(@, n + 1, Len(@)) ]
              /\ Finish(d, head(d).exec)
           \/ /\ ~matches
              /\ xmatch' = [ xmatch EXCEPT ![d] = << >> ]
              /\ Stall(d, head(d), {})
              /\ UNCHANGED from
        /\ UNCHANGED << to, args, wire >>

process_delay(d) ==
    LET e == top(d)
        start == IF e.processing THEN head(d).delay_start ELSE "running"
    IN  /\ Executes(d, "delay")
        /\ \/ /\ start = "expired"
              /\ Finish(d, set_top(head(d).exec, [ e EXCEPT !.processing = FALSE ]))
           \/ /\ start # "expired"
              /\ Stall(d, [ head(d) EXCEPT !.delay_start = start,
                             !.exec = set_top(@, [ e EXCEPT !.processing = TRUE ]) ],
                       { << "delay", d >> })
        /\ UNCHANGED << bufs, args, wire >>

(* The first plug of the list of a context. *)
is_first(p, P) == p \in P /\ \A q \in P : p <= q

(* The plugs (one or none) a setplugstate is about: the one its literal    *)
(* name names, or the name that was matched, or else the target's.         *)
plug_named(d, e) ==
    LET literal == { cur_stmt(e).plug } \ {0}
        matched == IF cur_stmt(e).arg = "match"
                   THEN { xmatch[d][i].plug : i \in DOMAIN xmatch[d] \cap {1} } \ {0} ELSE {}
    IN  IF literal # {} THEN literal \cap Plugs(d)
        ELSE IF matched # {} THEN matched \cap Plugs(d)
        ELSE { p \in e.plugs : is_first(p, e.plugs) }

(* The line of the match with its state: of a row, the line of that plug.  *)
line_read(d, P) ==
    LET of_plug == { i \in DOMAIN xmatch[d] : xmatch[d][i].plug \in P }
    IN  IF Len(xmatch[d]) > 1 /\ of_plug # {} THEN xmatch[d][CHOOSE i \in of_plug : TRUE] ELSE xmatch[d][1]

(* Mutated form of interp: what is not off is on. *)
interp_default_on(l) == IF l.state = "off" THEN "off" ELSE "on"

(* The state the matched text stands for. *)
interp(l) == IF l.state \in {"on", "off"} THEN l.state ELSE "unknown"

(* Does the command of c ask about the node of one of these plugs? *)
has_arg(d, c, n, P) ==
    n # NoNode /\ n \in { PlugNode[d][p] : p \in P } /\ args[c][n] # "none"

process_setplugstate(d) ==
    LET c == Head(acts[d]).client
        P == plug_named(d, top(d))
    IN  /\ Executes(d, "setplugstate")
        /\ args' = [ b \in Clients |-> [ n \in Nodes |->
                        IF b = c /\ xmatch[d] # << >> /\ has_arg(d, b, n, P)
                        THEN interp(line_read(d, P)) ELSE args[b][n] ] ]
        /\ Finish(d, head(d).exec)
        /\ UNCHANGED << bufs, wire >>

(* The plugs a foreach goes through, from where its iterator is. *)
plugs_left(d, e) ==
    { p \in Plugs(d) : p > e.plugitr
        /\ (cur_stmt(e).type = "foreachplug" \/ PlugNode[d][p] # NoNode) }

process_foreach(d) ==
    LET e == top(d)
    IN  /\ Executes(d, "foreachplug") \/ Executes(d, "foreachnode")
        /\ \/ \E p \in plugs_left(d, e) :
              /\ is_first(p, plugs_left(d, e))
              /\ GoOn(d, << create_exec_ctx(cur_stmt(e).body, {p}) >>
                           \o set_top(head(d).exec, [ e EXCEPT !.plugitr = p ]))
           \/ /\ plugs_left(d, e) = {}
              /\ Finish(d, set_top(head(d).exec, [ e EXCEPT !.plugitr = 0 ]))
        /\ UNCHANGED << bufs, args, wire >>

(* The state of the target of a context, as the command of c knows it. *)
plug_state(d, c, e) ==
    LET P == { p \in e.plugs : is_first(p, e.plugs) }
        N == { n \in Nodes : c \in Clients /\ has_arg(d, c, n, P) }
    IN  { args[c][n] : n \in N }

process_ifonoff(d) ==
    LET e     == top(d)
        known == plug_state(d, head(d).client, e) \cap {"on", "off"}
        holds == known = (IF cur_stmt(e).type = "ifon" THEN {"on"} ELSE {"off"})
    IN  /\ Executes(d, "ifon") \/ Executes(d, "ifoff")
        /\ \/ /\ e.processing
              /\ Finish(d, set_top(head(d).exec, [ e EXCEPT !.processing = FALSE ]))
              /\ UNCHANGED << bufs, args, wire >>
           \/ /\ ~e.processing /\ holds
              /\ GoOn(d, << create_exec_ctx(cur_stmt(e).body, e.plugs) >>
                           \o set_top(head(d).exec, [ e EXCEPT !.processing = TRUE ]))
              /\ UNCHANGED << bufs, args, wire >>
           \/ /\ ~e.processing /\ known # {} /\ ~holds
              /\ Finish(d, head(d).exec)
              /\ UNCHANGED << bufs, args, wire >>
           \/ /\ ~e.processing /\ known = {}
              /\ Fail(d, "EEXPFAIL")

-----------------------------------------------------------------------------
(***************************************************************************)
(* The loop                                                                *)
(***************************************************************************)

(* poll returns; the time-out is cleared, to be computed anew. *)
PollReturns ==
    /\ phase = "poll"
    /\ phase' = "clients"
    /\ tmout' = {}
    /\ calls' = << >>
    /\ UNCHANGED << conn, acts, bufs, ping, args, wire, cur >>

ClientsDone ==
    /\ phase = "clients"
    /\ phase' = "ready"
    /\ calls' = << >>
    /\ UNCHANGED << conn, acts, bufs, ping, args, wire, cur, tmout >>

(***************************************************************************)
(* The network and the devices.  The daemon sees of them what poll reports *)
(* and read returns; they move while it waits in poll.                     *)
(***************************************************************************)
Environment ==
    /\ calls' = << >>
    /\ UNCHANGED << connect_state, logged_in, bufs, args, delivered, phase, cur, tmout >>

LinkOpens(d) ==
    /\ phase = "poll" /\ link[d] = "opening"
    /\ \E l \in {"up", "refused"} : link' = [ link EXCEPT ![d] = l ]
    /\ UNCHANGED << acts, retry, ping, heard, rx, answered >>
    /\ Environment

(* The connection is lost: at once, or the far end closed it and what it   *)
(* had answered can still be read.                                         *)
LinkDrops(d) ==
    /\ phase = "poll" /\ link[d] = "up" /\ connect_state[d] = "CONNECTED"
    /\ heard' = [ heard EXCEPT ![d] = << >> ]
    /\ \E l \in DropModes :
        /\ link' = [ link EXCEPT ![d] = l ]
        /\ rx' = [ rx EXCEPT ![d] = IF l = "hup" THEN << >> ELSE @ ]
    /\ UNCHANGED << acts, retry, ping, answered >>
    /\ Environment

(* The device answers what it heard first. *)
Answers(d) ==
    LET t == Head(heard[d])
        answers(S) == answered' = [ c \in Clients |->
                          IF c = t.client THEN answered[c] \cup S ELSE answered[c] ]
        line(p, st) == [ com |-> t.com, client |-> t.client, plug |-> p, state |-> st ]
    IN  /\ phase = "poll" /\ heard[d] # << >>
        /\ heard' = [ heard EXCEPT ![d] = Tail(@) ]
        /\ \/ /\ t.arg = "ack"
              /\ rx' = [ rx EXCEPT ![d] = Append(@, line(0, "done")) ]
              /\ UNCHANGED answered
           \/ t.arg = "one" /\ \E p \in t.plugs, st \in PlugStates :
                  /\ is_first(p, t.plugs)
                  /\ rx' = [ rx EXCEPT ![d] = Append(@, line(p, st)) ]
                  /\ answers({ << d, p, st >> })
           \/ t.arg = "each" /\ \E sts \in [ Plugs(d) -> PlugStates ] :
                  /\ rx' = [ rx EXCEPT ![d] = @ \o [ p \in Plugs(d) |-> line(p, sts[p]) ] ]
                  /\ answers({ << d, p, sts[p] >> : p \in Plugs(d) })
        /\ UNCHANGED << link, acts, retry, ping >>
        /\ Environment

(***************************************************************************)
(* Time.  The timers of d are looked at while its queue is processed and   *)
(* by poll, so that is when they may turn out to have expired.  All        *)
(* actions of a device have the same time-out: the one that was stamped    *)
(* first (and preempted by a login) expires first.                         *)
(***************************************************************************)
Clock(d) ==
    /\ phase = "poll" \/ Processing(d)
    /\ UNCHANGED << link, heard, rx, answered >>
    /\ Environment

StampExpires(d) ==
    /\ \E i \in DOMAIN acts[d] :
        /\ acts[d][i].time_stamp = "running"
        /\ \A j \in DOMAIN acts[d] : j > i => acts[d][j].time_stamp # "running"
        /\ acts' = [ acts EXCEPT ![d][i].time_stamp = "expired" ]
    /\ UNCHANGED << retry, ping >>
    /\ Clock(d)

DelayExpires(d) ==
    /\ \E i \in DOMAIN acts[d] :
        /\ acts[d][i].delay_start = "running"
        /\ acts' = [ acts EXCEPT ![d][i].delay_start = "expired" ]
    /\ UNCHANGED << retry, ping >>
    /\ Clock(d)

RetryExpires(d) ==
    /\ retry[d] = "waiting"
    /\ retry' = [ retry EXCEPT ![d] = "ready" ]
    /\ UNCHANGED << acts, ping >>
    /\ Clock(d)

PingFallsDue(d) ==
    /\ ping[d] = "waiting" /\ Len(acts[d]) < MaxActs
    /\ ping' = [ ping EXCEPT ![d] = "due" ]
    /\ UNCHANGED << acts, retry >>
    /\ Clock(d)

-----------------------------------------------------------------------------
Visit(d) ==
    \/ VisitUnconnected(d) \/ VisitFinishConnect(d)
    \/ VisitConnected(d) \/ VisitConnecting(d)

Statement(d) ==
    \/ process_send(d) \/ process_expect(d) \/ process_delay(d)
    \/ process_setplugstate(d) \/ process_foreach(d) \/ process_ifonoff(d)

Process(d) ==
    \/ ProcessIdle(d) \/ ProcessTimeout(d) \/ ProcessUnconnected(d)
    \/ Statement(d)

Network(d) == LinkOpens(d) \/ LinkDrops(d) \/ Answers(d)

Time(d) == StampExpires(d) \/ DelayExpires(d) \/ RetryExpires(d) \/ PingFallsDue(d)

(* The clients, seen from the devices: one command at a time each.         *)
ClientCommand ==
    /\ phase = "clients"
    /\ \E com \in ClientComs, c \in Clients, hl \in SUBSET Nodes \ {{}} :
        /\ \A d \in Devs : \A i \in DOMAIN acts[d] : acts[d][i].client # c
        /\ dev_check_actions(com, hl)
        /\ dev_enqueue_actions(com, hl, c)

Init ==
    /\ connect_state = [ d \in Devs |-> "NOT_CONNECTED" ]
    /\ logged_in = [ d \in Devs |-> FALSE ]
    /\ acts = [ d \in Devs |-> << >> ]
    /\ to = acts /\ from = acts /\ xmatch = acts /\ heard = acts /\ rx = acts
    /\ retry = [ d \in Devs |-> "ready" ]
    /\ ping = [ d \in Devs |-> "due" ]
    /\ args = [ c \in Clients |-> [ n \in Nodes |-> "none" ] ]
    /\ link = [ d \in Devs |-> "none" ]
    /\ delivered = [ c \in Clients |-> {} ]
    /\ answered = delivered
    /\ phase = "start" /\ cur = 1
    /\ tmout = {}
    /\ calls = << >>

Next ==
    \/ dev_initial_connect \/ PollReturns \/ ClientCommand \/ ClientsDone
    \/ \E d \in Devs : Visit(d) \/ Process(d) \/ Network(d) \/ Time(d)

Spec == Init /\ [][Next]_vars
-----------------------------------------------------------------------------
(***************************************************************************)
(* Properties                                                              *)
(***************************************************************************)

(* A device that is connected and not logged in has its login at the head  *)
(* of its queue, and there is no login anywhere else: not two after a      *)
(* reconnection, none left of a lost connection, none behind the action it *)
(* is to precede.                                                          *)
LoginFirst ==
    \A d \in Devs :
        /\ \A i \in 2..Len(acts[d]) : acts[d][i].com # "login"
        /\ (acts[d] # << >> /\ Head(acts[d]).com = "login")
             <=> (connect_state[d] = "CONNECTED" /\ ~logged_in[d])
        /\ logged_in[d] => connect_state[d] = "CONNECTED"

(* Nothing but the login script is sent on a connection before it is done, *)
(* and nothing waits to be sent when there is no connection.               *)
OnlyLoginBeforeLogin ==
    \A d \in Devs : ~logged_in[d] =>
        /\ \A i \in DOMAIN to[d] : connect_state[d] = "CONNECTED" /\ to[d][i].com = "login"
        /\ \A i \in DOMAIN heard[d] : heard[d][i].com = "login"

(* The output buffer holds one transmission at most, that of the statement *)
(* the head action is at: the output of two scripts never mixes.           *)
OutputIsHeads ==
    \A d \in Devs : to[d] # << >> =>
        /\ Len(to[d]) = 1 /\ acts[d] # << >>
        /\ to[d][1].com = Head(acts[d]).com /\ to[d][1].client = Head(acts[d]).client
        /\ top(d).processing /\ top(d).plugs = to[d][1].plugs

(* What an expect can match is an answer to its own action: no answer to   *)
(* an action that failed, or of the connection before, reaches the next    *)
(* one (with scripts that expect every answer of the device).              *)
NoStaleAnswer ==
    \A d \in Devs : \A i \in DOMAIN (from[d] \o rx[d]) :
        LET l == (from[d] \o rx[d])[i] IN
        /\ acts[d] # << >>
        /\ l.com = Head(acts[d]).com /\ l.client = Head(acts[d]).client

(* The actions of client c that are queued. *)
queued(c) ==
    UNION { { << d, i >> : i \in { j \in DOMAIN acts[d] : acts[d][j].client = c } } : d \in Devs }

(* Outside of a command that adds some, every action that leaves a queue   *)
(* calls back, once, whether it succeeds, fails or is aborted; and none    *)
(* leaves it because its connection was lost.                              *)
CallsBackOnce ==
    [][ \A c \in Clients :
          Cardinality(queued(c)) =
            Cardinality(queued(c)') + Cardinality({ i \in DOMAIN calls' : calls'[i].client = c })
          \/ ClientCommand ]_vars

(* A poll with an action of a client in a queue is bound by the time-out   *)
(* of the action at the head of that queue: the client is told in time.    *)
ClientsAreTimed ==
    \A d \in Devs :
        phase = "poll" /\ (\E i \in DOMAIN acts[d] : acts[d][i].client # NoClient)
          => << "stamp", d >> \in tmout

(* What a command knows of a node is what the device answered, to it, of   *)
(* the plug of that node.                                                  *)
StatusIsAnAnswer ==
    \A c \in Clients, n \in Nodes : args[c][n] \in {"on", "off"} =>
        \E a \in answered[c] : PlugNode[a[1]][a[2]] = n /\ a[3] = args[c][n]
=============================================================================
