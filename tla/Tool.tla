-------------------------------- MODULE Tool --------------------------------
(***************************************************************************)
(* The powerman command (powerman/powerman.c): its options become a list   *)
(* of commands, which are sent one by one until one fails.                 *)
(***************************************************************************)
EXTENDS Session

CONSTANT CommandLines   (* what is typed: opts, in order; more targets; and ignore (-I) *)

(* There is no option that sends quit. *)
OptionLines == [ word : DeviceWords \cup { "nodes", "telemetry", "exprange", "device" }, hosts : Seq(STRING) ]

ASSUME ToolAssumption ==
    CommandLines \subseteq [ opts : Seq(OptionLines), more : Seq(Seq(STRING)), ignore : BOOLEAN ]

VARIABLES
    at,         (* "start", "version", "prompt", "next", "response", "prompted", "goodbye", "end" *)
    cl,         (* the command line *)
    commands,   (* the lines that are left to send *)
    res,        (* the result of the last command *)
    exit        (* history: -1 while it runs, then the exit status *)

tool_vars == << at, cl, commands, res, exit >>

NoCommandLine == [ opts |-> << >>, more |-> << >>, ignore |-> FALSE ]

ToolInit == at = "start" /\ cl = NoCommandLine /\ commands = << >> /\ res = 0 /\ exit = -1

(* The toggles go before everything else. *)
cmd_create(list, opt) ==
    IF opt.word \in { "telemetry", "exprange" } THEN << opt >> \o list ELSE Append(list, opt)

(* Further targets are for the last command, if it takes any. *)
takes_more(list) ==
    /\ list # << >>
    /\ Last(list).hosts # << >> \/ Last(list).word \in AllWords

cmd_append(list, hosts) == [ list EXCEPT ![Len(list)].hosts = @ \o hosts ]

created(opts) == FoldLeft(cmd_create, << >>, opts)
prepared(c) == FoldLeft(cmd_append, created(c.opts), c.more)

usage(c) == created(c.opts) = << >> \/ (c.more # << >> /\ ~takes_more(created(c.opts)))

Exits(status) == at' = "end" /\ exit' = status

Start ==
    /\ at = "start"
    /\ \E c \in CommandLines :
         /\ cl' = c
         /\ \/ usage(c) /\ Exits(1) /\ UNCHANGED << commands, session_vars >>
            \/ /\ ~usage(c) /\ listen_fds = {} /\ Exits(1) /\ UNCHANGED << commands, session_vars >>
            \/ /\ ~usage(c) /\ Connects /\ commands' = prepared(c)
               /\ at' = "version" /\ UNCHANGED exit
    /\ UNCHANGED res

(* What is there to read, n responses of it, is taken. *)
Takes(n) ==
    /\ down' = SubSeq(down, n + 1, Len(down))
    /\ UNCHANGED << listen_fds, conn, up, to, toggles, cmd, told, served >>

(* xreadstr: a line.  A prompt is no line, but the beginning of one. *)
line_length == IF down[1] = Prompt THEN 2 ELSE 1
line_code == IF down[1] = Prompt THEN 0 ELSE down[1].code
HasLine == down # << >> /\ Len(down) >= line_length

Eof == conn = "closed" /\ ~HasLine

process_version ==
    /\ at = "version"
    /\ \/ /\ HasLine /\ Takes(line_length)
          /\ IF line_code = 1 THEN at' = "prompt" /\ UNCHANGED exit ELSE Exits(1)
       \/ Eof /\ Exits(1) /\ UNCHANGED session_vars
    /\ UNCHANGED << cl, commands, res >>

(* Exactly these bytes.  At the end of the connection a read returns 0 and *)
(* is tried again, for ever.                                               *)
expect(resp, then) ==
    /\ down # << >> /\ Takes(1)
    /\ IF down[1] = resp THEN then ELSE Exits(1)

expect_prompt ==
    /\ at \in { "prompt", "prompted" }
    /\ expect(Prompt, at' = "next" /\ UNCHANGED exit)
    /\ res' = IF cl.ignore THEN 0 ELSE res
    /\ UNCHANGED << cl, commands >>

(* Mutated form of stopped: the result of the last command is forgotten.   *)
stopped_never(r) == FALSE

(* A command that failed is the last. *)
stopped(r) == r # 0

Sends(line) ==
    up' = Append(up, line) /\ UNCHANGED << listen_fds, conn, to, down, toggles, cmd, told, served >>

cmd_execute ==
    /\ at = "next"
    /\ \/ /\ commands # << >> /\ ~stopped(res)
          /\ Sends(Head(commands)) /\ commands' = Tail(commands)
          /\ at' = "response" /\ UNCHANGED exit
       \/ /\ commands = << >> \/ stopped(res)
          /\ Sends(Line("quit", << >>))
          /\ at' = "goodbye" /\ UNCHANGED << commands, exit >>
       \/ /\ conn = "closed" /\ Exits(1) /\ UNCHANGED << commands, session_vars >>
    /\ UNCHANGED << cl, res >>

(* Lines up to one that ends the response. *)
process_response ==
    /\ at = "response"
    /\ \/ /\ HasLine /\ Takes(line_length) /\ UNCHANGED exit
          /\ IF is_alldone(line_code)
             THEN at' = "prompted" /\ res' = IF is_failure(line_code) THEN line_code ELSE 0
             ELSE UNCHANGED << at, res >>
       \/ Eof /\ Exits(1) /\ UNCHANGED << session_vars, res >>
    /\ UNCHANGED << cl, commands >>

expect_goodbye ==
    /\ at = "goodbye" /\ expect(Resp(101, << >>, ""), Exits(res))
    /\ UNCHANGED << cl, commands, res >>

ToolStep == Start \/ process_version \/ expect_prompt \/ cmd_execute \/ process_response \/ expect_goodbye

ToolNext == ToolStep \/ (DaemonNext /\ UNCHANGED tool_vars)

ToolSpec == SessionInit /\ ToolInit /\ [][ToolNext]_<< session_vars, tool_vars >>

-----------------------------------------------------------------------------
(* Properties. *)

(* The exit status tells what the server did.  With 0 it carried out every *)
(* command, in order, and none failed unless errors are ignored; with the  *)
(* code of a failure it carried out the commands up to the one that failed *)
(* and none after it.                                                      *)
StatusIsTrue ==
    LET did   == elements_at(served, { i \in DOMAIN served : served[i].line.word # "quit" })
        meant == prepared(cl)
    IN  exit \in {0} \cup 200..299 =>
            /\ [ i \in DOMAIN did |-> did[i].line ] = SubSeq(meant, 1, Len(did))
            /\ exit = 0 => Len(did) = Len(meant)
            /\ exit = 0 /\ ~cl.ignore => \A i \in DOMAIN did : ~is_failure(did[i].code)
            /\ exit # 0 => /\ did # << >> /\ Last(did).code = exit
                           /\ \A i \in 1..Len(did) - 1 : ~is_failure(did[i].code)

(* The command ends, and with the daemon there to the end it has a result. *)
(* When the connection ends where a prompt or the goodbye is due it waits  *)
(* for ever: a read that returns nothing is not taken for the end.         *)
Waiting == at \in { "prompt", "prompted", "goodbye" } /\ conn = "closed" /\ down = << >>
ToolEnds == []<>(at \in { "start", "end" } \/ Waiting)
=============================================================================
