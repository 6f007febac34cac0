------------------------------- MODULE Client -------------------------------
(***************************************************************************)
(* The clients of powermand (powermand/client.c): their connections, the   *)
(* lines they type, the one command each may have in progress, and the     *)
(* callback that counts its device actions in and answers it.              *)
(*                                                                         *)
(* A line is one of:  a device command (on, off, cycle, status ...) with   *)
(* its hosts; "other", anything answered on the spot (help, nodes, an      *)
(* unknown host or command); "toolong"; and "quit".                        *)
(***************************************************************************)
EXTENDS Device

CONSTANTS
    Lines,      (* the lines clients type *)
    HangModes,  (* how a client's connection may end: "eof", "hup" *)
    MaxLines    (* bound: how many lines a client types *)

VARIABLES
    cstate,     (* is the client new, waiting to be accepted, open or gone? *)
    quitting,   (* client_quit *)
    hangup,     (* what poll or read says of its connection *)
    inbox,      (* the lines that arrived and are not parsed yet *)
    typed,      (* how many lines it typed *)
    cmd,        (* the command in progress *)
    reply       (* the last response, and the hosts of the command it ends *)

client_vars == << cstate, quitting, hangup, inbox, typed, cmd, reply >>

ASSUME ClientAssumption ==
    /\ MaxLines \in Nat
    /\ HangModes \subseteq {"eof", "hup"}
    /\ \A l \in Lines :
        /\ DOMAIN l = {"kind", "com", "hl"}
        /\ l.kind \in {"command", "other", "toolong", "quit"}
        /\ l.kind = "command" => l.com \in ClientComs /\ l.hl \in SUBSET Nodes \ {{}}

NoCmd == [ com |-> "none", hl |-> {}, pending |-> 0, error |-> FALSE ]

Command == [ com : ClientComs, hl : SUBSET Nodes, pending : Nat \ {0}, error : BOOLEAN ]

Responses == { "none", "OK", "ERROR", "UNIMPL", "BUSY", "TOOLONG", "INFO", "QUIT" }

(* The values the variables take.  A command in progress waits for at     *)
(* least one action.                                                       *)
ClientTypeOK ==
    /\ cstate \in [Clients -> {"new", "waiting", "open", "gone"}]
    /\ quitting \in [Clients -> BOOLEAN]
    /\ hangup \in [Clients -> {"no", "eof", "hup"}]
    /\ inbox \in [Clients -> Seq(Lines)]
    /\ typed \in [Clients -> 0..MaxLines]
    /\ cmd \in [Clients -> Command \cup {NoCmd}]
    /\ reply \in [Clients -> [ code : Responses, prompt : BOOLEAN, hl : SUBSET Nodes ]]

ClientInit ==
    /\ cstate = [ c \in Clients |-> "new" ]
    /\ quitting = [ c \in Clients |-> FALSE ]
    /\ hangup = [ c \in Clients |-> "no" ]
    /\ inbox = [ c \in Clients |-> << >> ]
    /\ typed = [ c \in Clients |-> 0 ]
    /\ cmd = [ c \in Clients |-> NoCmd ]
    /\ reply = [ c \in Clients |-> [ code |-> "none", prompt |-> FALSE, hl |-> {} ] ]

(***************************************************************************)
(* What clients do, while the daemon is in poll                            *)
(***************************************************************************)
Connects(c) ==
    /\ phase = "poll" /\ cstate[c] = "new"
    /\ cstate' = [ cstate EXCEPT ![c] = "waiting" ]
    /\ UNCHANGED << vars, quitting, hangup, inbox, typed, cmd, reply >>

Types(c) ==
    /\ phase = "poll" /\ cstate[c] = "open" /\ hangup[c] = "no" /\ typed[c] < MaxLines
    /\ \E l \in Lines : inbox' = [ inbox EXCEPT ![c] = Append(@, l) ]
    /\ typed' = [ typed EXCEPT ![c] = @ + 1 ]
    /\ UNCHANGED << vars, cstate, quitting, hangup, cmd, reply >>

HangsUp(c) ==
    /\ phase = "poll" /\ cstate[c] = "open" /\ hangup[c] = "no"
    /\ \E h \in HangModes : hangup' = [ hangup EXCEPT ![c] = h ]
    /\ UNCHANGED << vars, cstate, quitting, inbox, typed, cmd, reply >>

(***************************************************************************)
(* cli_post_poll                                                           *)
(***************************************************************************)
(* A response that is not the end of a device command. *)
Respond(c, code, prompt) ==
    reply' = [ reply EXCEPT ![c] = [ code |-> code, prompt |-> prompt, hl |-> {} ] ]

create_client(c) ==
    /\ phase = "clients" /\ cstate[c] = "waiting"
    /\ cstate' = [ cstate EXCEPT ![c] = "open" ]
    /\ Respond(c, "INFO", TRUE)
    /\ UNCHANGED << vars, quitting, hangup, inbox, typed, cmd >>

(* The actions a command of c queues, each with its device. *)
queued_by(com, hl, c) ==
    UNION { { << d, i >> : i \in DOMAIN new_acts(d, com, hl, c) } : d \in Devs }

(* A device command of an idle client: refused if a device it needs does   *)
(* not implement it, or if it queues nothing.                              *)
parse_command(c, l) ==
    LET count == Cardinality(queued_by(l.com, l.hl, c))
    IN  \/ /\ dev_check_actions(l.com, l.hl) /\ count > 0
           /\ dev_enqueue_actions(l.com, l.hl, c)
           /\ cmd' = [ cmd EXCEPT ![c] = [ com |-> l.com, hl |-> l.hl,
                                            pending |-> count, error |-> FALSE ] ]
           /\ Respond(c, "none", FALSE)
        \/ /\ ~dev_check_actions(l.com, l.hl) \/ count = 0
           /\ Respond(c, "UNIMPL", ~quitting[c])
           /\ UNCHANGED << vars, cmd >>

(* Mutated form of busy: the test is forgotten. *)
busy_never(c) == FALSE

(* There can be only one command. *)
busy(c) == cmd[c] # NoCmd

(* One line of input.  The test for a line too long comes before the test  *)
(* for a command in progress.                                              *)
parse_input(c) ==
    LET l == Head(inbox[c])
    IN  /\ phase = "clients" /\ cstate[c] = "open" /\ hangup[c] # "hup"
        /\ inbox[c] # << >>
        /\ inbox' = [ inbox EXCEPT ![c] = Tail(@) ]
        /\ \/ /\ l.kind = "toolong"
              /\ Respond(c, "TOOLONG", ~quitting[c])
              /\ UNCHANGED << vars, quitting, cmd >>
           \/ /\ l.kind # "toolong" /\ busy(c)
              /\ Respond(c, "BUSY", FALSE)
              /\ UNCHANGED << vars, quitting, cmd >>
           \/ /\ l.kind = "other" /\ ~busy(c)
              /\ Respond(c, "INFO", ~quitting[c])
              /\ UNCHANGED << vars, quitting, cmd >>
           \/ /\ l.kind = "quit" /\ ~busy(c)
              /\ quitting' = [ quitting EXCEPT ![c] = TRUE ]
              /\ Respond(c, "QUIT", FALSE)
              /\ UNCHANGED << vars, cmd >>
           \/ /\ l.kind = "command" /\ ~busy(c)
              /\ parse_command(c, l)
              /\ UNCHANGED quitting
        /\ UNCHANGED << cstate, hangup, typed >>

(* A client that hung up is destroyed at once, one that quit or closed its *)
(* end when its input is parsed.  Its actions stay queued.                 *)
destroy_client(c) ==
    /\ phase = "clients" /\ cstate[c] = "open"
    /\ \/ hangup[c] = "hup"
       \/ inbox[c] = << >> /\ (quitting[c] \/ hangup[c] = "eof")
    /\ cstate' = [ cstate EXCEPT ![c] = "gone" ]
    /\ cmd' = [ cmd EXCEPT ![c] = NoCmd ]
    /\ inbox' = [ inbox EXCEPT ![c] = << >> ]
    /\ UNCHANGED << vars, quitting, hangup, typed, reply >>

(* Something of c is left to be done in this pass. *)
ClientReady(c) ==
    \/ cstate[c] = "waiting"
    \/ cstate[c] = "open" /\ (inbox[c] # << >> \/ quitting[c] \/ hangup[c] # "no")

(***************************************************************************)
(* The callbacks the devices make in a step, calls', counted in            *)
(***************************************************************************)
(* Mutated form of finished: the actions aborted with one that failed do   *)
(* not count.                                                              *)
finished_first(c, done) == { i \in DOMAIN done \cap {1} : done[i].client = c }

finished(c, done) == { i \in DOMAIN done : done[i].client = c }

act_finish(done) ==
    LET count(c) == Cardinality(finished(c, done))
        error(c) == cmd[c].error \/ \E i \in finished(c, done) : done[i].err # "ESUCCESS"
        found(c) == cstate[c] = "open" /\ finished(c, done) # {}
    IN  /\ cmd' = [ c \in Clients |->
                     IF ~found(c) THEN cmd[c]
                     ELSE IF count(c) = cmd[c].pending THEN NoCmd
                     ELSE [ cmd[c] EXCEPT !.pending = @ - count(c), !.error = error(c) ] ]
        /\ reply' = [ c \in Clients |->
                     IF found(c) /\ count(c) = cmd[c].pending
                     THEN [ code |-> IF error(c) THEN "ERROR" ELSE "OK",
                            prompt |-> TRUE, hl |-> cmd[c].hl ]
                     ELSE reply[c] ]
        /\ UNCHANGED << cstate, quitting, hangup, inbox, typed >>
=============================================================================
