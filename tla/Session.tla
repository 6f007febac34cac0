------------------------------ MODULE Session ------------------------------
(***************************************************************************)
(* One client's session with powermand: the lines it sends, what the       *)
(* daemon answers to each (powermand/client.c, client_proto.h), and the    *)
(* connection between them.  The devices are left open: a command's        *)
(* actions end in any order, with any result (Device.tla says how).        *)
(* Lines and responses are whole; how a buffer keeps them is in Cbuf.tla.  *)
(***************************************************************************)
EXTENDS Targets, FiniteSetsExt

CONSTANTS
    ConfNodes,      (* the nodes of the configuration, sorted *)
    ConfAliases,    (* [ alias -> sequence of nodes ] *)
    Refused,        (* the commands no device implements *)
    Faulty,         (* the hosts with a range that is none, or too large *)
    Addresses,      (* what the name of the server resolves to, in order *)
    Faults,         (* what may go wrong: "listen", "accept", "exit" *)
    MaxActions,     (* bound: the actions of a command *)
    MaxTelemetry    (* bound: the lines of telemetry in a session *)

DeviceWords == { "on", "off", "cycle", "reset", "flash", "unflash", "status", "temp", "beacon" }
AllWords    == { "status", "temp", "beacon", "device" }     \* need no hosts

ASSUME SessionAssumption ==
    /\ Refused \subseteq DeviceWords
    /\ ConfNodes \in Seq(STRING) /\ \A a \in DOMAIN ConfAliases : ConfAliases[a] \in Seq(STRING)
    /\ DOMAIN ConfAliases \cap ToSet(ConfNodes) = {}
    /\ MaxActions \in Nat \ {0} /\ MaxTelemetry \in Nat

VARIABLES
    listen_fds,     (* the addresses the daemon listens on *)
    conn,           (* the connection: "none", "connecting", "open" or "closed" *)
    up,             (* lines on their way to the daemon *)
    to,             (* the daemon's buffer of responses *)
    down,           (* responses on their way to the client *)
    toggles,        (* telemetry and exprange *)
    cmd,            (* the command in progress: line, args, pending, error *)
    told,           (* the lines of telemetry so far *)
    served          (* history: the lines answered, with the codes and the states reported *)

session_vars == << listen_fds, conn, up, to, down, toggles, cmd, told, served >>

Line(word, hosts) == [ word |-> word, hosts |-> hosts ]
Resp(code, hosts, state) == [ code |-> code, hosts |-> hosts, state |-> state ]
Prompt == Resp(0, << >>, "")
Version == Resp(1, << >>, "")
Plain(code) == << Resp(code, << >>, "") >>

is_failure(code) == code \in 200..299

(* Mutated form of is_alldone: a failure does not end a response. *)
is_alldone_success(code) == code \in 100..199

is_alldone(code) == code \in 100..299

NoCmd == [ line |-> Line("", << >>), args |-> << >>, pending |-> 0, error |-> FALSE ]

SessionInit ==
    /\ listen_fds = {} /\ conn = "none" /\ up = << >> /\ to = << >> /\ down = << >>
    /\ toggles = {} /\ cmd = NoCmd /\ told = 0 /\ served = << >>

(* cli_start: it is enough that one address can be listened on. *)
listen_client ==
    /\ listen_fds = {}
    /\ listen_fds' \in IF "listen" \in Faults THEN SUBSET ToSet(Addresses) \ {{}} ELSE { ToSet(Addresses) }
    /\ UNCHANGED << conn, up, to, down, toggles, cmd, told, served >>

(* The client tries the addresses in turn, and waits to be accepted. *)
Connects ==
    /\ conn = "none" /\ \E i \in DOMAIN Addresses : Addresses[i] \in listen_fds
    /\ conn' = "connecting"
    /\ UNCHANGED << listen_fds, up, to, down, toggles, cmd, told, served >>

(* Its connection may be gone by then, or not be wanted. *)
create_client ==
    /\ conn = "connecting"
    /\ \/ conn' = "open" /\ to' = << Version, Prompt >>
       \/ "accept" \in Faults /\ conn' = "closed" /\ UNCHANGED to
    /\ toggles' = {} /\ UNCHANGED << listen_fds, up, down, cmd, told, served >>

-----------------------------------------------------------------------------
(* One line of input.                                                      *)

Served(line, code, args) == Append(served, [ line |-> line, code |-> code, args |-> args ])

(* A line that is answered on the spot, with these responses. *)
Answers(line, responses) ==
    /\ to' = (to \o responses) \o << Prompt >>
    /\ served' = Served(line, responses[Len(responses)].code, << >>)
    /\ UNCHANGED << conn, down, cmd >>

names(seq) == [ i \in DOMAIN seq |-> Resp(307, << seq[i] >>, "") ]

query_nodes_reply(line) ==
    Answers(line, (IF "exprange" \in toggles THEN names(ConfNodes) ELSE << Resp(306, ConfNodes, "") >>) \o Plain(103))

toggle(line, code) ==
    /\ toggles' = IF line.word \in toggles THEN toggles \ {line.word} ELSE toggles \cup {line.word}
    /\ Answers(line, Plain(code))

(* The hosts a line names, or every node. *)
validated(line) ==
    IF line.hosts = << >> THEN ConfNodes ELSE conf_exp_aliases(ConfAliases, line.hosts)

(* Mutated form of prompts: the prompt comes back with every line. *)
prompts_always(queued) == << Prompt >>

(* The prompt is held back while a command is in progress. *)
prompts(queued) == IF queued THEN << >> ELSE << Prompt >>

faulty(line) == ToSet(line.hosts) \cap Faulty # {}

(* A device command: its actions are queued; or it is refused, if a host   *)
(* is no node, no device implements it, or it queues nothing.              *)
create_command(line) ==
    LET hl      == validated(line)
        bad     == bad_hosts(ConfNodes, hl)
        refusal == IF bad # << >> THEN Resp(209, bad, "") ELSE Resp(213, << >>, "")
    IN  /\ ~faulty(line)
        /\ \/ /\ bad = << >> /\ line.word \notin Refused
              /\ \E n \in 1..MaxActions :
                    cmd' = [ line |-> line, args |-> hl, pending |-> n, error |-> FALSE ]
              /\ to' = to \o prompts(TRUE) /\ UNCHANGED served
           \/ /\ to' = (to \o << refusal >>) \o prompts(FALSE)
              /\ served' = Served(line, refusal.code, << >>)
              /\ UNCHANGED cmd
        /\ UNCHANGED << conn, down >>

(* What hosts a device line shows: one response for each device is enough. *)
query_device_reply(line) ==
    ~faulty(line) /\ Answers(line, << Resp(304, IF line.hosts = << >> THEN ConfNodes ELSE line.hosts, "") >> \o Plain(103))

(* The last words to the client are written before the connection closes.  *)
quit(line) ==
    /\ down' = (down \o to) \o Plain(101) /\ to' = << >>
    /\ served' = Served(line, 101, << >>)
    /\ conn' = "closed" /\ UNCHANGED << cmd, toggles >>

parse_input ==
    LET line == Head(up)
        word == line.word
    IN  /\ conn = "open" /\ up # << >> /\ up' = Tail(up)
        /\ \/ /\ cmd # NoCmd /\ to' = to \o Plain(208)
              /\ UNCHANGED << conn, down, toggles, cmd, served >>
           \/ cmd = NoCmd /\ word = "nodes" /\ query_nodes_reply(line) /\ UNCHANGED toggles
           \/ cmd = NoCmd /\ word = "telemetry" /\ toggle(line, 104)
           \/ cmd = NoCmd /\ word = "exprange" /\ toggle(line, 105)
           \/ cmd = NoCmd /\ word = "quit" /\ quit(line)
           \/ /\ cmd = NoCmd /\ word \in DeviceWords /\ (line.hosts # << >> \/ word \in AllWords)
              /\ create_command(line) /\ UNCHANGED toggles
           \/ cmd = NoCmd /\ word = "device" /\ query_device_reply(line) /\ UNCHANGED toggles
           \/ /\ cmd = NoCmd /\ word \in DeviceWords \ AllWords /\ line.hosts = << >>
              /\ Answers(line, Plain(201)) /\ UNCHANGED toggles
        /\ UNCHANGED << listen_fds, told >>

-----------------------------------------------------------------------------
(* The callbacks of the devices.                                           *)

Telemetry ==
    /\ conn = "open" /\ cmd # NoCmd /\ "telemetry" \in toggles /\ told < MaxTelemetry
    /\ to' = to \o Plain(305) /\ told' = told + 1
    /\ UNCHANGED << listen_fds, conn, up, down, toggles, cmd, served >>

(* The state of each host of a status command: in a line for each, or in   *)
(* three lists.                                                            *)
status_reply(args, on, off) ==
    IF "exprange" \in toggles
    THEN [ i \in DOMAIN args |->
             Resp(303, << args[i] >>, IF args[i] \in on THEN "on" ELSE IF args[i] \in off THEN "off" ELSE "unknown") ]
    ELSE << Resp(302, SelectSeq(args, LAMBDA h : h \in on), "on"),
            Resp(302, SelectSeq(args, LAMBDA h : h \in off), "off"),
            Resp(302, SelectSeq(args, LAMBDA h : h \notin on \cup off), "unknown") >>

(* The temperature of each host; those that gave none are listed again.    *)
status_reply_nointerp(args, on) ==
    LET none == SelectSeq(args, LAMBDA h : h \notin on)
    IN  [ i \in DOMAIN args |-> Resp(303, << args[i] >>, IF args[i] \in on THEN "value" ELSE "(null)") ]
        \o (IF none = << >> THEN << >> ELSE << Resp(303, none, "unknown") >>)

(* The responses at the end of a command. *)
replied(c, on, off) ==
    CASE c.line.word \in { "status", "beacon" } -> status_reply(c.args, on, off) \o Plain(IF c.error THEN 211 ELSE 103)
      [] c.line.word = "temp" -> status_reply_nointerp(c.args, on) \o Plain(IF c.error THEN 211 ELSE 103)
      [] OTHER -> Plain(IF c.error THEN 210 ELSE 102)

(* An action ends.  The last answers the command with what was learned of  *)
(* its nodes, and the client is prompted again.                            *)
act_finish ==
    /\ conn = "open" /\ cmd # NoCmd
    /\ \E failed \in BOOLEAN :
         LET c     == [ cmd EXCEPT !.pending = @ - 1, !.error = @ \/ failed ]
             error == IF failed THEN Plain(308) ELSE << >>
         IN  \/ /\ c.pending > 0 /\ cmd' = c /\ to' = to \o error
                /\ UNCHANGED served
             \/ /\ c.pending = 0 /\ cmd' = NoCmd
                /\ \E on \in SUBSET ToSet(c.args) : \E off \in SUBSET (ToSet(c.args) \ on) :
                     /\ c.line.word \notin AllWords => on = {}
                     /\ c.line.word \notin { "status", "beacon" } => off = {}
                     /\ to' = ((to \o error) \o replied(c, on, off)) \o << Prompt >>
                     /\ served' = Served(c.line, IF c.error THEN (IF c.line.word \in AllWords THEN 211 ELSE 210)
                                                 ELSE IF c.line.word \in AllWords THEN 103 ELSE 102,
                                         [ i \in DOMAIN c.args |-> << c.args[i],
                                             IF c.args[i] \in on THEN "on" ELSE IF c.args[i] \in off THEN "off"
                                             ELSE "unknown" >> ])
    /\ UNCHANGED << listen_fds, conn, up, down, toggles, told >>

-----------------------------------------------------------------------------
(* The socket.                                                             *)

(* The daemon writes what it has; the reader gets it in pieces anyway. *)
handle_write ==
    /\ conn = "open" /\ to # << >>
    /\ down' = down \o to /\ to' = << >>
    /\ UNCHANGED << listen_fds, conn, up, toggles, cmd, told, served >>

(* The daemon ends, with what it had not written. *)
Ended ==
    /\ conn' = "closed" /\ to' = << >> /\ cmd' = NoCmd /\ listen_fds' = {}
    /\ UNCHANGED << down, toggles, told, served >>

DaemonExits == "exit" \in Faults /\ conn \in { "connecting", "open" } /\ Ended /\ UNCHANGED up

(* It also ends at a line with a faulty range, which is not answered.      *)
lsd_fatal_error ==
    /\ conn = "open" /\ cmd = NoCmd /\ up # << >>
    /\ Head(up).word \in DeviceWords \cup {"device"} /\ faulty(Head(up))
    /\ Ended /\ up' = Tail(up)

DaemonNext ==
    \/ listen_client \/ create_client \/ parse_input \/ Telemetry \/ act_finish \/ handle_write
    \/ DaemonExits \/ lsd_fatal_error

(* The daemon is never stopped for good: it turns in its loop, and every   *)
(* action of a command ends (Powermand.tla).                               *)
SessionFairness ==
    WF_session_vars(create_client \/ parse_input \/ act_finish \/ handle_write \/ lsd_fatal_error)
=============================================================================
