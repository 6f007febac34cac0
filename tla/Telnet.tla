------------------------------- MODULE Telnet -------------------------------
(***************************************************************************)
(* Telnet commands in what a tcp device sends (powermand/device_tcp.c):    *)
(* they are taken out of the input buffer whenever something was read, and *)
(* options that are asked for are answered.                                *)
(***************************************************************************)
EXTENDS Selection, SequencesExt

CONSTANTS
    IAC, DO, OtherCommands,     (* IAC, DO; DONT, WILL and WONT *)
    Granted,    (* the options answered WILL: TELOPT_SGA, TELOPT_TM *)
    Refused,    (* those answered WONT *)
    TelnetBytes,
    MaxStream   (* bound: the bytes a device sends *)

ASSUME TelnetAssumption ==
    /\ {IAC, DO} \cup OtherCommands \cup Granted \cup Refused \subseteq TelnetBytes
    /\ IAC # DO /\ {IAC, DO} \cap OtherCommands = {} /\ Granted \cap Refused = {}
    /\ MaxStream \in Nat

VARIABLES
    stream,     (* history: what the device sent since it was connected *)
    from,       (* the input buffer *)
    tstate, tcmd,
    sent,       (* the answers put into the output buffer *)
    taken,      (* history: what the scripts matched and took out of from *)
    mixed       (* history: bytes were read behind others that waited, in the middle *)
                (* of a command or with an escaped IAC among those that waited       *)

telnet_vars == << stream, from, tstate, tcmd, sent, taken, mixed >>

answers(cmd, opt) ==
    IF cmd # DO THEN << >>
    ELSE IF opt \in Granted THEN << << "WILL", opt >> >>
    ELSE IF opt \in Refused THEN << << "WONT", opt >> >> ELSE << >>

telnet_init == [ tstate |-> "NONE", tcmd |-> 0 ]

(* Mutated form of step: an option command is forgotten, and its byte left *)
(* in the data.                                                            *)
step_ignores_option(s, byte) ==
    CASE s.tstate = "NONE" /\ byte = IAC -> [ s EXCEPT !.tstate = "CMD" ]
      [] s.tstate = "NONE" /\ byte # IAC -> [ s EXCEPT !.device = Append(@, byte) ]
      [] s.tstate = "CMD" /\ byte = IAC  -> [ s EXCEPT !.tstate = "NONE", !.device = Append(@, byte) ]
      [] OTHER                           -> [ s EXCEPT !.tstate = "NONE" ]

(* One byte of the state machine. *)
step(s, byte) ==
    CASE s.tstate = "NONE" /\ byte = IAC -> [ s EXCEPT !.tstate = "CMD" ]
      [] s.tstate = "NONE" /\ byte # IAC -> [ s EXCEPT !.device = Append(@, byte) ]
      [] s.tstate = "CMD"                ->
            IF byte = IAC THEN [ s EXCEPT !.tstate = "NONE", !.device = Append(@, byte) ]
            ELSE IF byte \in OtherCommands \cup {DO} THEN [ s EXCEPT !.tstate = "OPT", !.tcmd = byte ]
            ELSE [ s EXCEPT !.tstate = "NONE" ]
      [] s.tstate = "OPT"                ->
            [ s EXCEPT !.tstate = "NONE", !.sent = @ \o answers(s.tcmd, byte) ]

(* Mutated form of telnet_preprocess: it starts afresh with each read. *)
telnet_preprocess_afresh(buf) ==
    FoldLeft(step, [ tstate |-> "NONE", tcmd |-> 0, device |-> << >>, sent |-> sent ], buf)

(* All of the buffer goes through the state machine, also what went        *)
(* through it before and was not taken out since.                          *)
telnet_preprocess(buf) ==
    FoldLeft(step, [ tstate |-> tstate, tcmd |-> tcmd, device |-> << >>, sent |-> sent ], buf)

-----------------------------------------------------------------------------

(* The device sends bytes and they are read: _handle_read, and preprocess. *)
Read(bytes) ==
    LET s == telnet_preprocess(from \o bytes)
    IN /\ Len(stream) + Len(bytes) <= MaxStream
       /\ stream' = stream \o bytes
       /\ from' = s.device /\ tstate' = s.tstate /\ tcmd' = s.tcmd /\ sent' = s.sent
       /\ mixed' = (mixed \/ (from # << >> /\ (tstate # "NONE" \/ IAC \in ToSet(from))))
       /\ UNCHANGED taken

(* An expect matches up to the n-th byte (cbuf_drop). *)
Match(n) ==
    /\ n <= Len(from)
    /\ taken' = taken \o SubSeq(from, 1, n) /\ from' = SubSeq(from, n + 1, Len(from))
    /\ UNCHANGED << stream, tstate, tcmd, sent, mixed >>

(* The connection is lost and made again: the buffers are flushed. *)
Reconnect ==
    /\ stream # << >>
    /\ stream' = << >> /\ from' = << >> /\ sent' = << >> /\ taken' = << >> /\ mixed' = FALSE
    /\ tstate' = telnet_init.tstate /\ tcmd' = telnet_init.tcmd

TelnetInit ==
    /\ stream = << >> /\ from = << >> /\ sent = << >> /\ taken = << >> /\ mixed = FALSE
    /\ tstate = telnet_init.tstate /\ tcmd = telnet_init.tcmd

TelnetNext ==
    \/ \E bytes \in UNION { [ 1..n -> TelnetBytes ] : n \in 1..2 } : Read(bytes)
    \/ \E n \in 1..MaxStream : Match(n)
    \/ Reconnect

TelnetSpec == TelnetInit /\ [][TelnetNext]_telnet_vars

-----------------------------------------------------------------------------
(* Properties. *)

(* What a stream means, byte by byte and however it arrives: a byte is     *)
(* data, or part of a command that its place after an IAC makes it.        *)
next_role(role, byte) ==
    CASE role = "iac"  -> IF byte = IAC THEN "data"
                          ELSE IF byte \in OtherCommands \cup {DO} THEN "verb" ELSE "command"
      [] role = "verb" -> "option"
      [] OTHER         -> IF byte = IAC THEN "iac" ELSE "data"

roles(s) ==
    LET role[n \in 0..Len(s)] == IF n = 0 THEN "data" ELSE next_role(role[n - 1], s[n])
    IN role

data_of(s) == LET role == roles(s) IN elements_at(s, { n \in 1..Len(s) : role[n] = "data" })

(* The answers to the options that are asked for. *)
answer_to(opt) == << IF opt \in Granted THEN "WILL" ELSE "WONT", opt >>

answers_of(s) ==
    LET role == roles(s)
    IN elements_at([ n \in 1..Len(s) |-> answer_to(s[n]) ],
                   { n \in 1..Len(s) : role[n] = "option" /\ s[n - 1] = DO /\ s[n] \in Granted \cup Refused })

(* What device_tcp.c says of its state machine, which "gets to look first  *)
(* to process any telnet escapes": the scripts see the data and nothing    *)
(* else.                                                                   *)
ScriptsSeeOnlyData == taken \o from = data_of(stream)

(* Whatever the sizes of the reads are and wherever they cut a command in  *)
(* two, the scripts see exactly the data bytes, in order.  (Except when    *)
(* bytes that waited go through the state machine once more, and it is in  *)
(* the middle of a command or they are escaped.)                           *)
ScriptsSeeTheData == mixed \/ taken \o from = data_of(stream)

(* Each option that is asked for is answered once, though the buffer is    *)
(* looked at again with every read.                                        *)
OptionsAnsweredOnce == mixed \/ sent = answers_of(stream)
=============================================================================
