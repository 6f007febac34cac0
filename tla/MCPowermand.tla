---------------------------- MODULE MCPowermand -----------------------------
(***************************************************************************)
(* Instances of Powermand for TLC.                                         *)
(***************************************************************************)
EXTENDS Powermand, TLC

CONSTANTS c1, c2, n1, n2, n3, none

stmt(t, a) == [ type |-> t, arg |-> a, body |-> "", plug |-> 0 ]
block(t, b) == [ type |-> t, arg |-> "none", body |-> b, plug |-> 0 ]

command(com, hl) == [ kind |-> "command", com |-> com, hl |-> hl ]
line(kind) == [ kind |-> kind, com |-> "none", hl |-> {} ]

(* Devices that acknowledge every command.                                 *)
AckBlock ==
    [ login |-> << stmt("send", "ack"), stmt("expect", "none") >>,
      on    |-> << stmt("send", "ack"), stmt("expect", "none") >> ]
OnScripts == [ login |-> "login", on |-> "on" ]

(* One device with three plugs, switched on plug by plug or as a whole.    *)
ThreePlugs == << << n1, n2, n3 >> >>
OneDevScripts == << [ login |-> "login", on |-> "on", on_all |-> "on" ] >>
AnyConnect == << {"connected", "connecting", "failed"} >>
Pipe == << {"connected"} >>
OneDevLines == { command("on", {n1, n2, n3}), command("on", {n1, n3}), line("toolong"), line("quit") }

(* A script for all plugs that goes through them one by one.               *)
TwoPlugs == << << n1, n2 >> >>
ForeachBlock ==
    [ login   |-> << stmt("send", "ack"), stmt("expect", "none") >>,
      on_all  |-> << block("foreachplug", "on") >>,
      on      |-> << stmt("send", "ack"), stmt("expect", "none") >> ]
ForeachScripts == << [ login |-> "login", on |-> "on", on_all |-> "on_all" ] >>
ForeachLines == { command("on", {n1, n2}) }

(* One device can be switched on as a whole only, the other plug by plug.  *)
MixedPlugs == << << n1, n2 >>, << n3 >> >>
MixedScripts == << [ login |-> "login", on_all |-> "on" ], OnScripts >>
MixedLines == { command("on", {n1, n3}) }
BothPipes == << {"connected"}, {"connected"} >>
=============================================================================
