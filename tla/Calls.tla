------------------------------- MODULE Calls -------------------------------
(***************************************************************************)
(* What libpowerman promises (man/libpowerman.3): a call on a handle is    *)
(* carried out by the server at most once, and what it returns is what     *)
(* came of it.  A call may also fail on the way.  Once a read has failed   *)
(* the handle promises nothing.                                            *)
(***************************************************************************)
EXTENDS Naturals, Sequences

CONSTANTS
    Asks,           (* the calls: on, off, cycle, status of a node, the list of nodes *)
    NodeList,       (* the nodes there are *)
    LocalErrors     (* the errors of calls that fail on the way *)

VARIABLES
    call,       (* << >>, or the call in progress *)
    outcome,    (* << >>, or what came of it: code, and the state of nodes it tells *)
    result,     (* << >>, or what the last call returned: err, state, nodes *)
    sure        (* no read has failed *)

calls_vars == << call, outcome, result, sure >>

Init == call = << >> /\ outcome = << >> /\ result = << >> /\ sure = TRUE

Call(c) ==
    /\ call = << >> /\ sure
    /\ call' = << c >> /\ outcome' = << >> /\ result' = << >> /\ UNCHANGED sure

CarryOut ==
    /\ call # << >> /\ outcome = << >> /\ sure
    /\ Len(outcome') = 1 /\ outcome'[1].line = call[1] /\ UNCHANGED << call, result, sure >>

Reported(o, node) ==
    IF \E i \in DOMAIN o.args : o.args[i] = << node, "on" >> THEN "on"
    ELSE IF \E i \in DOMAIN o.args : o.args[i] = << node, "off" >> THEN "off" ELSE "unknown"

(* Codes from 200 are errors. *)
Value(c, o) ==
    IF o.code >= 200 THEN [ err |-> o.code, state |-> "", nodes |-> << >> ]
    ELSE [ err |-> 0, state |-> IF c.word = "status" THEN Reported(o, c.hosts[1]) ELSE "",
           nodes |-> IF c.word = "nodes" THEN NodeList ELSE << >> ]

Returns ==
    /\ call # << >> /\ outcome # << >> /\ sure
    /\ result' = << Value(call[1], outcome[1]) >>
    /\ call' = << >> /\ outcome' = << >> /\ UNCHANGED sure

(* A call that fails on the way, or before it is made. *)
Breaks ==
    /\ sure /\ Len(result') = 1 /\ result'[1].err \in LocalErrors
    /\ call' = << >> /\ outcome' = << >>

Unsure == ~sure'

Next == (\E c \in Asks : Call(c)) \/ CarryOut \/ Returns \/ Breaks \/ Unsure

Spec == Init /\ [][Next /\ (~sure => ~sure')]_calls_vars
=============================================================================
