----------------------------- MODULE Powermand ------------------------------
(***************************************************************************)
(* The daemon: clients and devices under one select loop                   *)
(* (powermand/powermand.c, _select_loop).                                  *)
(***************************************************************************)
EXTENDS Client

allvars == << vars, client_vars >>

(* A descriptor of a device is ready, of those dev_pre_poll asked about. *)
FdReady(d) ==
    \/ link[d] \in {"refused", "hup", "eof"}
    \/ link[d] = "up" /\ (connect_state[d] = "CONNECTING" \/ to[d] # << >> \/ rx[d] # << >>)

(* The time poll was given is over: one of the timers has expired. *)
TimerFires ==
    \E t \in tmout : LET d == t[2] IN
        CASE t[1] = "retry" -> retry[d] = "ready"
          [] t[1] = "ping"  -> ping[d] = "due"
          [] t[1] = "stamp" -> acts[d] # << >> /\ Head(acts[d]).time_stamp = "expired"
          [] t[1] = "delay" -> acts[d] # << >> /\ Head(acts[d]).delay_start = "expired"

(* poll blocks until a descriptor is ready or its time is over. *)
Poll ==
    /\ \/ \E d \in Devs : FdReady(d)
       \/ \E c \in Clients : ClientReady(c)
       \/ TimerFires
    /\ PollReturns
    /\ UNCHANGED client_vars

(* cli_post_poll, for one client, and its end. *)
CliPostPoll ==
    \/ \E c \in Clients : create_client(c) \/ parse_input(c) \/ destroy_client(c)
    \/ /\ \A c \in Clients : ~ClientReady(c)
       /\ ClientsDone
       /\ UNCHANGED client_vars

(* dev_post_poll, for one device; what completes calls back. *)
DevPostPoll ==
    /\ \E d \in Devs : Visit(d) \/ Process(d)
    /\ act_finish(calls')

InitialConnect == dev_initial_connect /\ UNCHANGED client_vars

Daemon == InitialConnect \/ Poll \/ CliPostPoll \/ DevPostPoll

Users == \E c \in Clients : Connects(c) \/ Types(c) \/ HangsUp(c)

World == /\ \E d \in Devs : Network(d) \/ Time(d)
         /\ UNCHANGED client_vars

PInit == Init /\ ClientInit

PNext == Daemon \/ Users \/ World

PSpec == PInit /\ [][PNext]_allvars

(* The daemon runs on, and timers that run expire.  Nothing is assumed of  *)
(* users, devices and network.                                             *)
Fairness ==
    /\ WF_allvars(Daemon)
    /\ \A d \in Devs :
        /\ SF_allvars(StampExpires(d) /\ UNCHANGED client_vars)
        /\ SF_allvars(DelayExpires(d) /\ UNCHANGED client_vars)
        /\ SF_allvars(RetryExpires(d) /\ UNCHANGED client_vars)

FairSpec == PSpec /\ Fairness

-----------------------------------------------------------------------------
(* A command waits for exactly the actions it still has in the queues of   *)
(* the devices, so it is answered once, when the last of them calls back,  *)
(* and no callback finds a client without a command (the assertion in      *)
(* _act_finish).                                                           *)
PendingExact ==
    \A c \in Clients : cstate[c] = "open" => cmd[c].pending = Cardinality(queued(c))

(* The plugs a command is for. *)
named(hl) == UNION { { << d, p >> : p \in targets(d, hl) } : d \in Devs }

(* A command that is answered "Command completed successfully" was         *)
(* transmitted for every plug of every node it names.                      *)
SuccessDelivered ==
    \A c \in Clients :
        cstate[c] = "open" /\ reply[c].code = "OK" => named(reply[c].hl) \subseteq delivered[c]

(* A prompt tells a client that its command is over: while one is in       *)
(* progress none is sent, except after a line that is too long.            *)
PromptMeansIdle ==
    \A c \in Clients :
        cstate[c] = "open" /\ reply[c].prompt /\ reply[c].code # "TOOLONG" => cmd[c] = NoCmd

(* Unless connections keep being lost, every command is answered, or its   *)
(* client has gone.                                                        *)
Answered ==
    <>[][ ~ \E d \in Devs : LinkDrops(d) ]_allvars
      => \A c \in Clients : cmd[c] # NoCmd ~> cmd[c] = NoCmd

(* To the devices, the clients of the daemon are what Device takes its     *)
(* environment to be: none asks for more while actions of its are queued.  *)
DevicesAsSpecified == Spec
=============================================================================
