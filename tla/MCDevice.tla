------------------------------ MODULE MCDevice ------------------------------
(***************************************************************************)
(* An instance of Device for TLC: one device with scripts of the kinds     *)
(* found in etc/*.dev, looked at in two scenes.                            *)
(***************************************************************************)
EXTENDS Device

CONSTANTS c1, n1, n2, none

VARIABLE scene

stmt(t, a) == [ type |-> t, arg |-> a, body |-> "", plug |-> 0 ]
block(t, b) == [ type |-> t, arg |-> "none", body |-> b, plug |-> 0 ]
literal(p) == [ type |-> "setplugstate", arg |-> "target", body |-> "", plug |-> p ]

Ask == << stmt("send", "one"), stmt("expect", "none"), stmt("setplugstate", "target") >>
Order == << stmt("send", "ack"), stmt("expect", "none") >>

(* cycle is off, delay, on; off asks first and is sent only to a plug that *)
(* is on, on likewise.  The three queries for all plugs read a line per    *)
(* plug, ask node by node, and match the lines of all plugs at once, of    *)
(* which they read each under its literal name.                            *)
Blocks ==
    [ login  |-> Order,
      ping   |-> Order,
      order  |-> Order,
      cycle  |-> Order \o << stmt("delay", "none") >> \o Order,
      off    |-> Ask \o << block("ifon", "order") >>,
      on     |-> Ask \o << block("ifoff", "order") >>,
      ask    |-> Ask,
      line   |-> << stmt("expect", "none"), stmt("setplugstate", "match") >>,
      lines  |-> << stmt("send", "each"), block("foreachplug", "line") >>,
      nodes  |-> << block("foreachnode", "ask") >>,
      row    |-> << stmt("send", "each"), stmt("expect", "row"), literal(3), literal(1), literal(2) >> ]

ActScripts == [ login |-> "login", ping |-> "ping", cycle |-> "cycle", off |-> "off" ]
QueryScripts ==
    [ login |-> "login", ping |-> "ping", status |-> "ask", status_all |-> "lines", temp_all |-> "nodes",
      beacon_all |-> "row", on |-> "on", reset_ranged |-> "order" ]
OneDevice == << [ c \in DOMAIN ActScripts \cup DOMAIN QueryScripts |->
                    IF c \in DOMAIN ActScripts THEN ActScripts[c] ELSE QueryScripts[c] ] >>

UnusedPlug == << << n1, none, n2 >> >>
AnyConnect == << {"connected", "connecting", "failed"} >>

(* Pings, and connections that fail and are lost, with the scripts that    *)
(* act on the first node or on both.                                       *)
Acts ==
    /\ Next
    /\ \A i \in DOMAIN acts'[1] : acts'[1][i].com \in DOMAIN ActScripts
    /\ \A i \in DOMAIN rx'[1] : rx'[1][i].state # "off"
    /\ \A c \in Clients : args'[c][n2] # "none" => args'[c][n1] # "none"

(* The others with a device that can be connected to and stays, but may    *)
(* not answer in time; its unused plug is on.                              *)
Queries ==
    /\ Next
    /\ \A i \in DOMAIN acts'[1] : acts'[1][i].com \in DOMAIN QueryScripts
    /\ \A i \in DOMAIN rx'[1] : rx'[1][i].plug = 2 => rx'[1][i].state = "on"
    /\ retry[1] = "ready" /\ retry'[1] = "waiting" => link'[1] = "opening"
    /\ link'[1] \notin {"hup", "eof", "refused"}
    /\ ping[1] = ping'[1] \/ ping'[1] = "waiting"

SceneInit == Init /\ scene \in {"acts", "queries"}

SceneNext ==
    /\ UNCHANGED scene
    /\ \/ scene = "acts" /\ Acts
       \/ scene = "queries" /\ Queries

SceneSpec == SceneInit /\ [][SceneNext]_<< vars, scene >>
=============================================================================
