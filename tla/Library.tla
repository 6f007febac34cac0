------------------------------ MODULE Library ------------------------------
(***************************************************************************)
(* The client library (libpowerman/libpowerman.c): a program opens a       *)
(* handle, makes calls on it, one at a time, and closes it.  A call writes *)
(* a line and reads until what it has read ends with a prompt.             *)
(***************************************************************************)
EXTENDS Session

CONSTANTS
    Asks,           (* the calls a program makes, as lines of a session *)
    MaxCalls,       (* bound: the calls on a handle *)
    MaxInterrupts   (* bound: the reads that fail, as one that a signal interrupts *)

ASSUME LibraryAssumption ==
    /\ \A c \in Asks : \/ c = [ word |-> "nodes", hosts |-> << >> ]
                       \/ /\ c.word \in { "on", "off", "cycle", "status" } /\ c.hosts[1] \in STRING
                          /\ c = [ word |-> c.word, hosts |-> << c.hosts[1] >> ]
    /\ MaxCalls \in Nat /\ MaxInterrupts \in Nat

VARIABLES
    pc,             (* where the program is: "start", "hello", "exprange", "idle", "call", "quit", "end" *)
    buf,            (* what the call in progress has read *)
    ask,            (* the call in progress *)
    got,            (* what the last call returned: err, state, nodes *)
    calls,          (* how many calls were made *)
    interrupts,     (* how many reads failed *)
    before          (* history: the lines served before the call *)

lib_vars == << pc, buf, ask, got, calls, interrupts, before >>

ESUCCESS == 0
ERRNOVALID == 1
ECONNECT == 3
ESERVEREOF == 7
ESERVERPARSE == 8

Idle == Line("", << >>)
Got(err, state, list) == [ err |-> err, state |-> state, nodes |-> list ]

LibraryInit ==
    /\ pc = "start" /\ buf = << >> /\ ask = Idle /\ got = Got(ESUCCESS, "", << >>)
    /\ calls = 0 /\ interrupts = 0 /\ before = 0

(* The places of the lines in what was read.  What follows a prompt has no *)
(* line of its own: the prompt is the beginning of it, and no code is      *)
(* found there.                                                            *)
parse_response(b) == { i \in DOMAIN b : b[i] # Prompt /\ (i = 1 \/ b[i - 1] # Prompt) }

(* The lines are searched from the last to the first, and the code that is *)
(* found last counts.                                                      *)
server_retcode(b, lines) ==
    LET at   == { i \in lines : b[i].code = 1 \/ is_alldone(b[i].code) }
        code == b[CHOOSE i \in at : \A j \in at : i <= j].code
    IN  IF at = {} THEN ESERVERPARSE ELSE IF is_failure(code) THEN code ELSE ESUCCESS

(* pm_node_status: a line that says exactly this. *)
node_state(b, lines, node) ==
    LET says(s) == \E i \in lines : b[i] = Resp(303, << node >>, s)
    IN  IF says("off") THEN "off" ELSE IF says("on") THEN "on" ELSE "unknown"

(* pm_node_iterator_create: the response, last line first, is turned round *)
(* once more as the nodes are put in front of the list.                    *)
node_list(b, lines) ==
    LET xnodes == elements_at(b, { i \in lines : b[i].code = 307 })
    IN  [ i \in DOMAIN xnodes |-> xnodes[i].hosts[1] ]

(* What a call makes of a complete response. *)
returned(line, b) ==
    LET lines == parse_response(b)
        err   == server_retcode(b, lines)
    IN  Got(err,
            IF err = ESUCCESS /\ line.word = "status" THEN node_state(b, lines, line.hosts[1]) ELSE "",
            IF err = ESUCCESS /\ line.word = "nodes" THEN node_list(b, lines) ELSE << >>)

-----------------------------------------------------------------------------

(* pm_connect, up to the greeting. *)
pm_connect ==
    /\ pc = "start"
    /\ \/ pc' = "hello" /\ Connects /\ UNCHANGED got
       \/ listen_fds = {} /\ pc' = "end" /\ got' = Got(ECONNECT, "", << >>) /\ UNCHANGED session_vars
    /\ UNCHANGED << buf, ask, calls, interrupts, before >>

(* A call: it writes its line, which fails if the server is gone. *)
pm_call(line) ==
    /\ pc = "idle" /\ calls < MaxCalls
    /\ calls' = calls + 1 /\ buf' = << >> /\ before' = Len(served)
    /\ \/ /\ up' = Append(up, line) /\ pc' = "call" /\ ask' = line /\ got' = Got(ESUCCESS, "", << >>)
          /\ UNCHANGED interrupts
       \/ conn = "closed" /\ got' = Got(ERRNOVALID, "", << >>) /\ UNCHANGED << up, pc, ask, interrupts >>
    /\ UNCHANGED << listen_fds, conn, to, down, toggles, cmd, told, served >>

pm_disconnect ==
    /\ pc = "idle"
    /\ up' = Append(up, Line("quit", << >>)) /\ pc' = "quit" /\ buf' = << >>
    /\ UNCHANGED << listen_fds, conn, to, down, toggles, cmd, told, served, ask, got, calls, interrupts, before >>

(* The end of the call, or of the exchange, that is in progress.           *)
Ends(g) ==
    /\ ask' = Idle
    /\ \/ pc = "call" /\ pc' = "idle" /\ got' = g /\ UNCHANGED up
       \/ /\ pc = "hello" /\ g.err = ESUCCESS /\ pc' = "exprange" /\ got' = g
          /\ up' = Append(up, Line("exprange", << >>))
       \/ pc = "exprange" /\ g.err = ESUCCESS /\ pc' = "idle" /\ got' = g /\ UNCHANGED up
       \/ pc \in { "hello", "exprange" } /\ g.err # ESUCCESS /\ pc' = "end" /\ got' = g /\ UNCHANGED up
       \/ pc = "quit" /\ pc' = "end" /\ UNCHANGED << up, got >>

Reading == pc \in { "hello", "exprange", "call", "quit" }

(* What was read ends with a prompt. *)
complete(b) == b[Len(b)] = Prompt

(* A read returns some of what is there.  What is read beyond the end of   *)
(* the response is not looked at again.                                    *)
recv ==
    /\ Reading /\ down # << >>
    /\ \E n \in 1..Len(down) :
         LET b == buf \o SubSeq(down, 1, n)
         IN  /\ down' = SubSeq(down, n + 1, Len(down))
             /\ IF complete(b)
                THEN Ends(returned(ask, b)) /\ buf' = << >>
                ELSE buf' = b /\ UNCHANGED << pc, ask, got, up >>
    /\ UNCHANGED << listen_fds, conn, to, toggles, cmd, told, served, calls, interrupts, before >>

(* The connection is at its end. *)
recv_eof ==
    /\ Reading /\ conn = "closed" /\ down = << >>
    /\ Ends(Got(ESERVEREOF, "", << >>)) /\ buf' = << >>
    /\ UNCHANGED << listen_fds, conn, to, down, toggles, cmd, told, served, calls, interrupts, before >>

(* A read fails, and the call gives up; the rest of the response is still  *)
(* to come.                                                                *)
recv_fails ==
    /\ Reading /\ interrupts < MaxInterrupts
    /\ interrupts' = interrupts + 1 /\ Ends(Got(ERRNOVALID, "", << >>)) /\ buf' = << >>
    /\ UNCHANGED << listen_fds, conn, to, down, toggles, cmd, told, served, calls, before >>

LibraryStep ==
    \/ pm_connect \/ recv \/ recv_eof \/ recv_fails \/ pm_disconnect
    \/ \E line \in Asks : pm_call(line)

LibraryNext == LibraryStep \/ (DaemonNext /\ UNCHANGED lib_vars)

LibrarySpec ==
    SessionInit /\ LibraryInit /\ [][LibraryNext]_<< session_vars, lib_vars >>

(* The program reads while it waits. *)
LibraryFairness == WF_<< session_vars, lib_vars >>(recv \/ recv_eof)

-----------------------------------------------------------------------------
(* Properties. *)

(* What came of the call in progress, at the server. *)
came_of == IF pc = "call" THEN SubSeq(served, before + 1, Len(served)) ELSE << >>

Promise ==
    INSTANCE Calls WITH
        NodeList    <- ConfNodes,
        LocalErrors <- { ERRNOVALID, ECONNECT, ESERVEREOF },
        call        <- IF pc = "call" THEN << ask >> ELSE << >>,
        outcome     <- came_of,
        result      <- IF calls = 0 \/ pc = "call" THEN << >> ELSE << got >>,
        sure        <- interrupts = 0

(* A call of libpowerman returns what the daemon made of that call, which  *)
(* it carried out once, however the response arrives in pieces; or an      *)
(* error of its own.  This holds until a read fails: the next call would   *)
(* take the rest of the response for its own.                              *)
ImplementsCalls == Promise!Spec

(* Every call that is made on an open handle returns. *)
CallsReturn == []<>(pc # "call")
=============================================================================
