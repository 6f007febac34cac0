------------------------------- MODULE Config -------------------------------
(***************************************************************************)
(* Reading powerman.conf: what the parser (powermand/parse_tab.y) does for *)
(* each statement, and what it leaves in the configuration (parse_util.c)  *)
(* and in the devices.  An error ends the daemon.  Once the file is read   *)
(* and found valid, clients' requests are looked up in it.                 *)
(***************************************************************************)
EXTENDS PlugMap, Targets

CONSTANTS
    SpecTexts,      (* specifications, as [ name, items ] *)
    DeviceLines,    (* as [ name, spec ] *)
    NodeLines,      (* as [ nodes, device, plugs ], plugs may be Omitted *)
    AliasLines,     (* as [ name, hosts ] *)
    ListenLines,    (* addresses *)
    DefaultListen,
    Requests,       (* the hosts clients ask for *)
    MaxStatements   (* bound: the statements of a file *)

(* The texts as the grammar builds them: a list of plugs names some, and   *)
(* lists of hosts are never of hosts without a name.                       *)
ASSUME ConfigAssumption ==
    /\ \A s \in SpecTexts :
         /\ s.name \in STRING
         /\ s.items \in Seq([ kind : {"plugs"}, names : Seq(STRING) \ {<< >>} ] \cup [ kind : {"script"}, com : STRING ])
    /\ DeviceLines \subseteq [ name : STRING, spec : STRING ]
    /\ NodeLines \subseteq [ nodes : Seq(STRING \ {NoNode}), device : STRING, plugs : Seq(STRING) ]
    /\ AliasLines \subseteq [ name : STRING, hosts : Seq(STRING \ {NoNode}) ]
    /\ Requests \subseteq Seq(STRING \ {NoNode})

VARIABLES
    current_spec,   (* the specification being read *)
    device_specs,   (* the specifications read *)
    devices,        (* name, plugs, hardwired and scripts of each device *)
    conf_nodes, conf_aliases, conf_listen,
    status,         (* "parsing", "valid", or the error that ended the daemon *)
    request,        (* what a client asked for and got *)
    file            (* history: the statements read *)

config_vars == << current_spec, device_specs, devices, conf_nodes, conf_aliases, conf_listen, status, request, file >>

ClearSpec == [ name |-> "", plugs |-> << >>, scripts |-> {}, error |-> FALSE ]

NoRequest == [ asked |-> << >>, hl |-> << >>, bad |-> << >> ]

ConfigInit ==
    /\ current_spec = ClearSpec /\ device_specs = << >> /\ devices = << >>
    /\ conf_nodes = << >> /\ conf_aliases = << >> /\ conf_listen = << >>
    /\ status = "parsing" /\ request = NoRequest /\ file = << >>

Reads(kind, stmt) ==
    /\ status = "parsing" /\ Len(file) < MaxStatements
    /\ file' = Append(file, [ kind |-> kind, stmt |-> stmt ])
    /\ UNCHANGED request

Fails(error) == status' = error

(* An item of a specification: its plugs, or one of its scripts, which may *)
(* be given once.                                                          *)
spec_item(spec, item) ==
    IF spec.error THEN spec
    ELSE IF item.kind = "plugs"
    THEN [ spec EXCEPT !.plugs = item.names, !.error = (@ \/ spec.plugs # << >>) ]
    ELSE [ spec EXCEPT !.scripts = @ \cup {item.com}, !.error = (@ \/ item.com \in spec.scripts) ]

(* Mutated form of cleared: only the name is forgotten. *)
cleared_name(spec) == [ spec EXCEPT !.name = "" ]

(* The next specification starts from nothing. *)
cleared(spec) == ClearSpec

makeSpec(s) ==
    LET spec == [ FoldLeft(spec_item, current_spec, s.items) EXCEPT !.name = s.name ]
    IN  /\ Reads("spec", s)
        /\ IF spec.error
           THEN Fails("duplicate in specification") /\ UNCHANGED << current_spec, device_specs >>
           ELSE /\ device_specs' = Append(device_specs, spec)
                /\ current_spec' = cleared(spec)
                /\ UNCHANGED status
        /\ UNCHANGED << devices, conf_nodes, conf_aliases, conf_listen >>

named(list, name) == { i \in DOMAIN list : list[i].name = name }

(* A device takes the plugs and the scripts of the first specification of  *)
(* that name.                                                              *)
makeDevice(s) ==
    LET at   == named(device_specs, s.spec)
        spec == device_specs[first_of(at)]
    IN  /\ Reads("device", s)
        /\ IF at = {} THEN Fails("device specification not found") /\ UNCHANGED devices
           ELSE /\ devices' = Append(devices, [ name |-> s.name, plugs |-> pluglist_create(spec.plugs),
                                                hardwired |-> spec.plugs # << >>, scripts |-> spec.scripts ])
                /\ UNCHANGED status
        /\ UNCHANGED << current_spec, device_specs, conf_nodes, conf_aliases, conf_listen >>

Added(nodes, ok) == [ nodes |-> nodes, ok |-> ok ]

(* Mutated form of conf_addnodes: a node of another device is no duplicate.*)
addnodes_unchecked(nodes, more) == Added(nodes \o more, TRUE)

(* Nodes are added up to the first that is there already. *)
conf_addnodes(nodes, more) ==
    LET add(a, n) == IF ~a.ok THEN a
                     ELSE IF n \in ToSet(a.nodes) THEN Added(a.nodes, FALSE)
                     ELSE Added(Append(a.nodes, n), TRUE)
    IN  FoldLeft(add, Added(nodes, TRUE), more)

(* The nodes are mapped to plugs of the first device of that name, and     *)
(* then added to the nodes of the configuration.                           *)
makeNode(s) ==
    LET at    == named(devices, s.device)
        d     == first_of(at)
        m     == pluglist_map(devices[d].plugs, devices[d].hardwired, s.nodes, s.plugs)
        added == conf_addnodes(conf_nodes, s.nodes)
    IN  /\ Reads("node", s)
        /\ \/ at = {} /\ Fails("unknown device") /\ UNCHANGED << devices, conf_nodes >>
           \/ /\ at # {} /\ devices' = [ devices EXCEPT ![d].plugs = m.plugs ]
              /\ \/ m.res # "SUCCESS" /\ Fails(m.res) /\ UNCHANGED conf_nodes
                 \/ /\ m.res = "SUCCESS" /\ conf_nodes' = added.nodes
                    /\ IF added.ok THEN UNCHANGED status ELSE Fails("duplicate node name")
        /\ UNCHANGED << current_spec, device_specs, conf_aliases, conf_listen >>

(* An alias may be given once. *)
makeAlias(s) ==
    /\ Reads("alias", s)
    /\ IF s.name \in DOMAIN conf_aliases THEN Fails("bad alias") /\ UNCHANGED conf_aliases
       ELSE /\ conf_aliases' = [ n \in DOMAIN conf_aliases \cup {s.name} |->
                                   IF n = s.name THEN s.hosts ELSE conf_aliases[n] ]
            /\ UNCHANGED status
    /\ UNCHANGED << current_spec, device_specs, devices, conf_nodes, conf_listen >>

conf_add_listen(addr) ==
    /\ Reads("listen", addr) /\ conf_listen' = Append(conf_listen, addr)
    /\ UNCHANGED << current_spec, device_specs, devices, conf_nodes, conf_aliases, status >>

(* The end of the file: aliases stand for nodes, and there is a node. *)
validate_config ==
    /\ status = "parsing"
    /\ status' = IF conf_nodes # << >> /\ \A a \in DOMAIN conf_aliases : bad_hosts(conf_nodes, conf_aliases[a]) = << >>
                 THEN "valid" ELSE "invalid"
    /\ conf_listen' = IF conf_listen = << >> THEN << DefaultListen >> ELSE conf_listen
    /\ UNCHANGED << current_spec, device_specs, devices, conf_nodes, conf_aliases, request, file >>

(* A client names hosts in a command (_hostlist_create_validated). *)
hostlist_create_validated(hl) ==
    /\ status = "valid" /\ request = NoRequest
    /\ LET expanded == conf_exp_aliases(conf_aliases, hl)
       IN  request' = [ asked |-> hl, hl |-> expanded, bad |-> bad_hosts(conf_nodes, expanded) ]
    /\ UNCHANGED << current_spec, device_specs, devices, conf_nodes, conf_aliases, conf_listen, status, file >>

ConfigNext ==
    \/ \E s \in SpecTexts : makeSpec(s)
    \/ \E s \in DeviceLines : makeDevice(s)
    \/ \E s \in NodeLines : makeNode(s)
    \/ \E s \in AliasLines : makeAlias(s)
    \/ \E a \in ListenLines : conf_add_listen(a)
    \/ validate_config
    \/ \E hl \in Requests : hostlist_create_validated(hl)

ConfigSpec == ConfigInit /\ [][ConfigNext]_config_vars

-----------------------------------------------------------------------------
(* Properties. *)

read(kind) == { file[i].stmt : i \in { k \in DOMAIN file : file[k].kind = kind } }

statements(kind) == elements_at(file, { k \in DOMAIN file : file[k].kind = kind })

places(n) ==
    UNION { { << d, i >> : i \in { k \in DOMAIN devices[d].plugs : devices[d].plugs[k].node = n } } :
              d \in DOMAIN devices }

(* In a file that is accepted every node has one plug, of the device its   *)
(* line names and of the name the line gives it, and no plug has a node    *)
(* that is not one: a command for a node switches that node.               *)
NodesOnOnePlug ==
    status = "valid" =>
        /\ \A s \in read("node") : \A k \in DOMAIN s.nodes : \E p \in places(s.nodes[k]) :
             /\ places(s.nodes[k]) = {p}
             /\ p[1] = first_of(named(devices, s.device))
             /\ s.plugs # Omitted => devices[p[1]].plugs[p[2]].name = s.plugs[k]
        /\ ToSet(conf_nodes) = UNION { ToSet(s.nodes) : s \in read("node") }
        /\ ToSet(conf_nodes) \cup {NoNode} =
             {NoNode} \cup UNION { { p.node : p \in ToSet(devices[d].plugs) } : d \in DOMAIN devices }

(* A device has the plugs and the scripts that the first specification of  *)
(* the name gives, and nothing of the specifications before or after it.   *)
DevicesMatchSpecs ==
    LET texts    == statements("spec")
        text(n)  == texts[first_of({ i \in DOMAIN texts : texts[i].stmt.name = n })].stmt
        items(d) == ToSet(text(statements("device")[d].stmt.spec).items)
    IN  \A d \in DOMAIN devices :
            /\ devices[d].scripts = { i.com : i \in { j \in items(d) : j.kind = "script" } }
            /\ devices[d].hardwired <=> \E i \in items(d) : i.kind = "plugs"
            /\ devices[d].hardwired =>
                 \E i \in items(d) :
                     i.kind = "plugs" /\ i.names = [ p \in DOMAIN devices[d].plugs |-> devices[d].plugs[p].name ]

occurrences(hl, h) == Cardinality({ i \in DOMAIN hl : hl[i] = h })

(* A request stands for each of its hosts as often as it names it and each *)
(* host of its aliases as often as it names them, and is granted if and    *)
(* only if all of those are nodes; then each is on a plug, once.           *)
RequestsAreExact ==
    request # NoRequest =>
        LET meant(i)  == IF request.asked[i] \in DOMAIN conf_aliases
                         THEN conf_aliases[request.asked[i]] ELSE << request.asked[i] >>
            times(h)  == LET add(n, i) == n + occurrences(meant(i), h)
                         IN  FoldLeft(add, 0, [ i \in DOMAIN request.asked |-> i ])
            hosts     == ToSet(request.hl) \cup UNION { ToSet(meant(i)) : i \in DOMAIN request.asked }
        IN  /\ \A h \in hosts : occurrences(request.hl, h) = times(h)
            /\ request.bad = << >> => \A h \in hosts : Cardinality(places(h)) = 1
            /\ \A h \in hosts : h \in ToSet(request.bad) <=> places(h) = {}
=============================================================================
