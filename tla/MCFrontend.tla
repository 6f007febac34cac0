----------------------------- MODULE MCFrontend -----------------------------
(***************************************************************************)
(* Reading a configuration, and sessions of the library and of the         *)
(* powerman command with the daemon, for TLC.  A behaviour is one scene.   *)
(***************************************************************************)
EXTENDS Config, Library, Tool

VARIABLE scene

mc_vars == << config_vars, session_vars, lib_vars, tool_vars, scene >>

Init ==
    /\ scene \in { "config", "library", "tool" }
    /\ ConfigInit /\ SessionInit /\ LibraryInit /\ ToolInit

Reading_a_file == scene = "config" /\ ConfigNext /\ UNCHANGED << session_vars, lib_vars, tool_vars, scene >>
Calling == scene = "library" /\ LibraryNext /\ UNCHANGED << config_vars, tool_vars, scene >>
Commanding == scene = "tool" /\ ToolNext /\ UNCHANGED << config_vars, lib_vars, scene >>

Next == Reading_a_file \/ Calling \/ Commanding

Spec ==
    /\ Init /\ [][Next]_mc_vars
    /\ SessionFairness /\ LibraryFairness /\ WF_<< session_vars, tool_vars >>(Commanding /\ ToolStep)

(* Every call of libpowerman returns and every powerman command ends, or   *)
(* waits at the end of the connection for what it expects.                 *)
ExchangesEnd == CallsReturn /\ ToolEnds

-----------------------------------------------------------------------------
(* The configuration. *)

Plugs(names_) == [ kind |-> "plugs", names |-> names_ ]
Script(com_) == [ kind |-> "script", com |-> com_ ]
Texts ==
    { [ name |-> "wired", items |-> << Plugs(<< "1", "2" >>), Script("on") >> ],
      [ name |-> "plain", items |-> << Script("off"), Script("status") >> ],
      [ name |-> "plain", items |-> << Script("off"), Script("off") >> ] }
Devices_ == { [ name |-> "x", spec |-> "wired" ], [ name |-> "y", spec |-> "plain" ] }
NodeLine(n, d, p) == [ nodes |-> n, device |-> d, plugs |-> p ]
Nodes_ ==
    { NodeLine(<< "a" >>, "x", Omitted), NodeLine(<< "a", "b" >>, "x", << "2", "1" >>), NodeLine(<< "b" >>, "x", << "2" >>),
      NodeLine(<< "c" >>, "x", << "2", "3" >>), NodeLine(<< "b", "c" >>, "y", Omitted), NodeLine(<< "a" >>, "y", << "2" >>),
      NodeLine(<< "b" >>, "y", << "2" >>) }
Aliases_ == { [ name |-> "al", hosts |-> << "a" >> ], [ name |-> "a", hosts |-> << "b", "a" >> ] }
Listens == { "any" }
Asked == { << "a", "al", "al" >> } \cup UNION { [ 1..n -> { "a", "b", "al" } ] : n \in 1..2 }

(* The sessions. *)

TwoNodes == << "n1", "n2" >>
BothNodes == [ a \in {"al"} |-> << "n2", "n1" >> ]
TwoAddresses == << "v6", "v4" >>
N1 == << "n1" >>
All(word) == Line(word, << >>)

LibraryAsks ==
    { Line("on", N1), Line("status", N1), Line("cycle", << "n2" >>), Line("off", << "x" >>),
      Line("off", << "n[2-1]" >>), All("nodes") }

Typed(opts, more, ignore) == [ opts |-> opts, more |-> more, ignore |-> ignore ]
Typings ==
    { Typed(<< Line("on", N1), Line("status", << "al" >>) >>, << >>, FALSE),
      Typed(<< Line("off", << "x" >>), Line("on", N1) >>, << >>, FALSE),
      Typed(<< Line("cycle", N1), All("telemetry"), Line("on", N1) >>, << >>, TRUE),
      Typed(<< All("status") >>, << N1, << "n2" >> >>, FALSE),
      Typed(<< All("nodes") >>, << N1 >>, FALSE),
      Typed(<< All("temp"), All("exprange"), All("device") >>, << >>, FALSE),
      Typed(<< All("nodes"), Line("on", << >>) >>, << >>, TRUE),
      Typed(<< Line("flash", N1), Line("on", << "n[2-1]" >>) >>, << << "n2" >> >>, FALSE) }
=============================================================================
