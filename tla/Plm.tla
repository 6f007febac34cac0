-------------------------------- MODULE Plm --------------------------------
(***************************************************************************)
(* plmpower, the program that powermand runs for devices behind a          *)
(* PowerLinc modem (src/plmpower/plmpower.c).  The modem echoes what it is *)
(* sent, or says that it is busy, and passes on what it hears.  Insteon    *)
(* devices answer, and are asked again until they do; X10 devices do not,  *)
(* and are told several times.  Messages are whole.                        *)
(***************************************************************************)
EXTENDS Naturals, Sequences

CONSTANTS
    Insteon, X10,       (* the addresses of each kind *)
    x10_attempts,
    MaxTyped,           (* bound: the commands typed *)
    MaxNoise,           (* bound: the messages nobody asked for *)
    MaxBusy,            (* bound: how often the modem refuses *)
    MaxLost,            (* bound: the messages lost on their way to a device, or from one *)
    MaxLate             (* bound: the answers that come after their time-out *)

ASSUME PlmAssumption ==
    /\ Insteon \cap X10 = {} /\ { "", "other" } \cap (Insteon \cup X10) = {}
    /\ x10_attempts \in Nat \ {0}
    /\ MaxTyped \in Nat /\ MaxNoise \in Nat /\ MaxBusy \in Nat /\ MaxLost \in Nat /\ MaxLate \in Nat

VARIABLES
    doing,      (* the command: com, addr, at, n packets accepted, timed *)
    tx, rx,     (* the serial line, to the modem and from it *)
    air, back,  (* packets on their way to Insteon devices, and their answers *)
    level,      (* what each Insteon device is: 0 is off *)
    last,       (* the last command that was done: com, addr, val *)
    accepted,   (* history: the X10 packets of the command that the modem took *)
    left        (* what is left of the bounds *)

plm_vars == << doing, tx, rx, air, back, level, last, accepted, left >>

Full == 255
Packet(cmd, addr, com) == [ cmd |-> cmd, addr |-> addr, com |-> com ]
Message(cmd, addr, val) == [ cmd |-> cmd, addr |-> addr, val |-> val ]
NAK == Message("NAK", "", 0)
Echo(cmd, ack) == Message(cmd, "", IF ack THEN 1 ELSE 0)

Shell == [ com |-> "", addr |-> "", at |-> "shell", n |-> 0, timed |-> FALSE ]

PlmInit ==
    /\ doing = Shell /\ tx = << >> /\ rx = << >> /\ air = << >> /\ back = << >>
    /\ level \in [Insteon -> {0, Full}] /\ last = [ com |-> "", addr |-> "", val |-> 0 ]
    /\ accepted = << >>
    /\ left = [ typed |-> MaxTyped, noise |-> MaxNoise, busy |-> MaxBusy, lost |-> MaxLost, late |-> MaxLate ]

(* The packet that is due: an X10 command is an address and a function.    *)
packet(d) ==
    IF d.addr = "" THEN Packet(d.com, "", d.com)
    ELSE IF d.addr \in Insteon THEN Packet("SEND", d.addr, d.com)
    ELSE Packet("SEND_X10", d.addr, IF d.n % 2 = 0 THEN "unit" ELSE d.com)

-----------------------------------------------------------------------------
(* The program.                                                            *)

docmd(com, addr) ==
    /\ doing.at = "shell" /\ left.typed > 0
    /\ \/ com \in { "on", "off" } /\ addr \in Insteon \cup X10
       \/ com \in { "status", "ping" } /\ addr \in Insteon
       \/ com \in { "info", "reset" } /\ addr = ""
    /\ doing' = [ com |-> com, addr |-> addr, at |-> "write", n |-> 0, timed |-> FALSE ]
    /\ accepted' = << >> /\ left' = [ left EXCEPT !.typed = @ - 1 ]
    /\ UNCHANGED << tx, rx, air, back, level, last >>

(* plm_docmd: writes, and reads until the packet comes back. *)
Writes ==
    /\ doing.at = "write"
    /\ tx' = Append(tx, packet(doing)) /\ doing' = [ doing EXCEPT !.at = "echo" ]
    /\ UNCHANGED << rx, air, back, level, last, accepted, left >>

Done(d, val) == doing' = Shell /\ last' = [ com |-> d.com, addr |-> d.addr, val |-> val ]
Exits(d) == doing' = [ d EXCEPT !.at = "end" ] /\ UNCHANGED last
Stays(d) == doing' = d /\ UNCHANGED last

Taken(d) ==
    \/ d.addr \in Insteon /\ Stays([ d EXCEPT !.at = "answer", !.timed = TRUE ])
    \/ d.addr \in X10 /\ d.n + 1 < 2 * x10_attempts /\ Stays([ d EXCEPT !.at = "write", !.n = @ + 1 ])
    \/ d.addr \in X10 /\ d.n + 1 = 2 * x10_attempts /\ Done(d, 0)
    \/ d.addr = "" /\ Done(d, 0)

(* A packet that is refused is sent again, and what else arrives is        *)
(* dropped, an answer that comes late as well.                             *)
ReadsEcho ==
    /\ doing.at = "echo" /\ rx # << >> /\ rx' = Tail(rx)
    /\ LET m == Head(rx)
       IN  \/ m = NAK /\ Stays([ doing EXCEPT !.at = "write" ])
           \/ m # NAK /\ m.cmd # packet(doing).cmd /\ Stays(doing)
           \/ m.cmd = packet(doing).cmd /\ m.val = 0 /\ Stays([ doing EXCEPT !.at = "write" ])
           \/ m.cmd = packet(doing).cmd /\ m.val = 1 /\ Taken(doing)
    /\ UNCHANGED << tx, air, back, level, accepted, left >>

(* Mutated form of from_device: whoever sent it. *)
from_device_any(m, addr) == TRUE

from_device(m, addr) == m.addr = addr

failed(com, val) == (com = "on" /\ val = 0) \/ (com = "off" /\ val # 0)

(* plm_recv_insteon.  A message of another kind is dropped in plm_recv,    *)
(* which then waits for the next without a time-out; one of another device *)
(* starts the time-out again.                                              *)
ReadsAnswer ==
    /\ doing.at = "answer" /\ rx # << >> /\ rx' = Tail(rx)
    /\ LET m == Head(rx)
       IN  \/ m = NAK /\ Exits(doing)
           \/ m # NAK /\ m.cmd # "RECV_STD" /\ Stays([ doing EXCEPT !.timed = FALSE ])
           \/ m.cmd = "RECV_STD" /\ ~from_device(m, doing.addr) /\ Stays([ doing EXCEPT !.timed = TRUE ])
           \/ /\ m.cmd = "RECV_STD" /\ from_device(m, doing.addr)
              /\ IF failed(doing.com, m.val) THEN Exits(doing) ELSE Done(doing, m.val)
    /\ UNCHANGED << tx, air, back, level, accepted, left >>

(* Mutated form of after_timeout: it goes on waiting. *)
after_timeout_waits(d) == d

after_timeout(d) == [ d EXCEPT !.at = "write", !.timed = FALSE ]

(* wait_until_ready is over. *)
TimesOut ==
    /\ doing.at = "answer" /\ doing.timed /\ rx = << >>
    /\ doing' = after_timeout(doing)
    /\ \/ air = << >> /\ back = << >> /\ UNCHANGED left
       \/ (air # << >> \/ back # << >>) /\ left.late > 0 /\ left' = [ left EXCEPT !.late = @ - 1 ]
    /\ UNCHANGED << tx, rx, air, back, level, last, accepted >>

-----------------------------------------------------------------------------
(* The modem and the devices.                                              *)

ModemTakes ==
    /\ tx # << >> /\ tx' = Tail(tx)
    /\ LET p == Head(tx)
       IN  \/ /\ rx' = Append(rx, Echo(p.cmd, TRUE))
              /\ accepted' = IF p.cmd = "SEND_X10" THEN Append(accepted, p.com) ELSE accepted
              /\ air' = IF p.cmd = "SEND" THEN Append(air, p) ELSE air
              /\ UNCHANGED left
           \/ /\ left.busy > 0 /\ left' = [ left EXCEPT !.busy = @ - 1 ]
              /\ rx' \in { Append(rx, NAK), Append(rx, Echo(p.cmd, FALSE)) } /\ UNCHANGED << accepted, air >>
    /\ UNCHANGED << doing, back, level, last >>

ModemHears ==
    /\ left.noise > 0 /\ left' = [ left EXCEPT !.noise = @ - 1 ]
    /\ \/ rx' = Append(rx, Message("RECV_X10", "", 0))
       \/ \E v \in {0, Full} : rx' = Append(rx, Message("RECV_STD", "other", v))
    /\ UNCHANGED << doing, tx, air, back, level, last, accepted >>

(* A device does what it is told, or says that it does not. *)
DeviceHears ==
    /\ air # << >> /\ air' = Tail(air)
    /\ LET p    == Head(air)
           says(v) == back' = Append(back, Message("RECV_STD", p.addr, v))
           is(v)   == level' = [ level EXCEPT ![p.addr] = v ]
       IN  \/ p.com = "on" /\ is(Full) /\ says(Full)
           \/ p.com = "off" /\ is(0) /\ says(0)
           \/ p.com = "on" /\ UNCHANGED level /\ says(0)
           \/ p.com = "off" /\ UNCHANGED level /\ says(Full)
           \/ p.com = "status" /\ UNCHANGED level /\ says(level[p.addr])
           \/ p.com = "ping" /\ UNCHANGED level /\ says(0)
    /\ UNCHANGED << doing, tx, rx, last, accepted, left >>

AnswerArrives ==
    /\ back # << >> /\ back' = Tail(back) /\ rx' = Append(rx, Head(back))
    /\ UNCHANGED << doing, tx, air, level, last, accepted, left >>

IsLost ==
    /\ left.lost > 0 /\ left' = [ left EXCEPT !.lost = @ - 1 ]
    /\ \/ air # << >> /\ air' = Tail(air) /\ UNCHANGED back
       \/ back # << >> /\ back' = Tail(back) /\ UNCHANGED air
    /\ UNCHANGED << doing, tx, rx, level, last, accepted >>

PlmStep == Writes \/ ReadsEcho \/ ReadsAnswer \/ TimesOut

PlmNext ==
    \/ PlmStep \/ ModemTakes \/ ModemHears \/ DeviceHears \/ AnswerArrives \/ IsLost
    \/ \E com \in { "on", "off", "status", "ping", "info", "reset" }, addr \in Insteon \cup X10 \cup {""} : docmd(com, addr)

(* The program, the modem and the devices go on. *)
PlmFairness ==
    WF_plm_vars(PlmStep) /\ WF_plm_vars(ModemTakes) /\ WF_plm_vars(DeviceHears) /\ WF_plm_vars(AnswerArrives)

PlmSpec == PlmInit /\ [][PlmNext]_plm_vars /\ PlmFairness

-----------------------------------------------------------------------------
(* Properties. *)

(* A command that is done was carried out: the Insteon device is what it   *)
(* was told to be, and what it is said to be; the modem took every packet  *)
(* for an X10 device, each address before its function, as often as it was *)
(* to be told.  An answer that comes after its time-out ends this, as it   *)
(* is taken for the answer to the next command.                            *)
CarriedOut ==
    doing.at = "shell" /\ left.late = MaxLate =>
        /\ last.addr \in Insteon =>
             /\ last.com = "on" => level[last.addr] = Full
             /\ last.com = "off" => level[last.addr] = 0
             /\ last.com = "status" => last.val = level[last.addr]
        /\ last.addr \in X10 =>
             accepted = [ i \in 1..2 * x10_attempts |-> IF i % 2 = 1 THEN "unit" ELSE last.com ]

(* Every command ends, but for one that dropped a message of another kind  *)
(* while it waited for an answer that got lost: nothing bounds that wait.  *)
Untimed == doing.at = "answer" /\ ~doing.timed /\ rx = << >>
PlmEnds == []<>(doing.at \in { "shell", "end" } \/ Untimed)
=============================================================================
