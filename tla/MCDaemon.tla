------------------------------ MODULE MCDaemon ------------------------------
(***************************************************************************)
(* An instance of Powermand for TLC: two clients and two devices, looked   *)
(* at in two scenes.                                                       *)
(***************************************************************************)
EXTENDS MCPowermand

VARIABLE scene

(* Two devices, a coprocess and a network device.                          *)
PlugEach == << << n1 >>, << n2 >> >>
TwoDevScripts == << OnScripts, OnScripts >>
PipeAndTcp == << {"connected"}, {"connected", "connecting"} >>
TwoDevLines == { command("on", {n1, n2}) }
Symmetry == Permutations({c1, c2})

(* Two clients that hang up at any time; the devices can be connected to   *)
(* at once and stay, but the first may fail to answer in time, which takes *)
(* the actions of both clients with it.                                    *)
Together ==
    /\ PNext
    /\ \A d \in Devs : link'[d] \notin {"opening", "refused", "hup", "eof"}
    /\ \A i \in DOMAIN acts'[2] : acts'[2][i].time_stamp # "expired"

(* A single client, which stays; connecting to the second device may take  *)
(* time and fail, and both connections may be lost.                        *)
Alone ==
    /\ PNext
    /\ \E c \in Clients : \A e \in Clients \ {c} : cstate'[e] = "new"
    /\ UNCHANGED hangup

SceneInit == PInit /\ scene \in {"together", "alone"}

SceneNext ==
    /\ UNCHANGED scene
    /\ \/ scene = "together" /\ Together
       \/ scene = "alone" /\ Alone

SceneSpec == SceneInit /\ [][SceneNext]_<< allvars, scene >>
=============================================================================
