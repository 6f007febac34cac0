---------------------------- MODULE MCConnection ----------------------------
(***************************************************************************)
(* The connections of a few devices, the poll wrapper, the telnet state    *)
(* machine, and a coprocess with its modem, for TLC.  Connection uses the  *)
(* operators of Xpoll for the poll of each turn; otherwise they share no   *)
(* state, so a behaviour is one scene.                                     *)
(***************************************************************************)
EXTENDS Connection, Telnet, Plm

VARIABLE scene

mc_vars == << conn_vars, xpoll_vars, telnet_vars, plm_vars, scene >>

Init ==
    /\ XpollInit /\ TelnetInit /\ PlmInit
    /\ \/ scene = "devices" /\ ConnectionInit
       \/ scene \in { "poll", "wait", "telnet", "plm" } /\ ConnectionInit /\ method = << "serial" >>

Devices == scene = "devices" /\ ConnectionNext /\ UNCHANGED << xpoll_vars, telnet_vars, plm_vars, scene >>

(* Two descriptors, with errors and without, over several turns. *)
Polls ==
    /\ scene = "poll"
    /\ \/ Zero
       \/ \E fd \in {1, 2}, bits \in { {"in"}, {"in", "out"}, {"out"} } : Len(asked) < 3 /\ Ask(fd, bits)
       \/ asked # << >> /\ Call(1)
       \/ \E what \in [ {1, 2} -> { {}, {"in"}, {"out", "hup"} } ] : Return(what)
    /\ UNCHANGED << conn_vars, telnet_vars, plm_vars, scene >>

Waits ==
    /\ scene = "wait"
    /\ \/ Tick \/ Signal \/ Return(<< >>)
       \/ \E tv \in Timeouts : Call(tv)
    /\ UNCHANGED << conn_vars, telnet_vars, plm_vars, scene >>

Telnets == scene = "telnet" /\ TelnetNext /\ UNCHANGED << conn_vars, xpoll_vars, plm_vars, scene >>

(* The helper may have ended, be idle, or wait for ever (see Untimed). *)
Plms ==
    /\ scene = "plm" /\ UNCHANGED << conn_vars, xpoll_vars, telnet_vars, scene >>
    /\ \/ PlmNext
       \/ (doing.at \in { "shell", "end" } \/ Untimed) /\ UNCHANGED plm_vars

Next == Devices \/ Polls \/ Waits \/ Telnets \/ Plms

(* The clock goes on, and so do plmpower and its modem. *)
Spec == Init /\ [][Next]_mc_vars /\ WF_conn_vars(scene = "devices" /\ TimePasses) /\ PlmFairness

-----------------------------------------------------------------------------

TwoPlants == { << "tcp", "pipe" >>, << "serial" >> }
Backoff == << 1 >>
=============================================================================
