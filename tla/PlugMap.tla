------------------------------ MODULE PlugMap ------------------------------
(***************************************************************************)
(* The plugs of one device (libcommon/pluglist.c): a list of plugs, each   *)
(* with the node it powers.  A specification that names the plugs makes    *)
(* the list hardwired; otherwise plugs are created as nodes are mapped.    *)
(***************************************************************************)
EXTENDS Naturals, SequencesExt

NoNode == ""
Omitted == << >>    \* a node line may leave out the plugs

Plug(name, node) == [ name |-> name, node |-> node ]

(* A plug for each name, all of them free. *)
pluglist_create(plugnames) == [ i \in DOMAIN plugnames |-> Plug(plugnames[i], NoNode) ]

first_of(at) == CHOOSE i \in at : \A j \in at : i <= j

find_any(plugs, name) == { i \in DOMAIN plugs : plugs[i].name = name }

Mapped(plugs, res) == [ plugs |-> plugs, res |-> res ]

(* The node gets the plug of this name; a device that is not hardwired     *)
(* gets a new plug, in front, if it has none of the name.                  *)
map_one(plugs, hardwired, node, name) ==
    LET at == find_any(plugs, name)
    IN  IF at = {} /\ hardwired THEN Mapped(plugs, "UNKPLUG")
        ELSE IF at = {} THEN Mapped(<< Plug(name, node) >> \o plugs, "SUCCESS")
        ELSE IF plugs[first_of(at)].node # NoNode THEN Mapped(plugs, "DUPPLUG")
        ELSE Mapped([ plugs EXCEPT ![first_of(at)].node = node ], "SUCCESS")

(* The node gets the first plug that is free. *)
map_next(plugs, node) ==
    LET free == { i \in DOMAIN plugs : plugs[i].node = NoNode }
    IN  IF free = {} THEN Mapped(plugs, "NOPLUGS")
        ELSE Mapped([ plugs EXCEPT ![first_of(free)].node = node ], "SUCCESS")

(* The nodes are mapped in turn, to the plugs named or, without names, to  *)
(* the plugs that are free or to plugs of their own name.  The first that  *)
(* fails ends it, and those before it keep their plugs.                    *)
pluglist_map(plugs, hardwired, nodes, names) ==
    LET one(m, i) ==
            IF m.res # "SUCCESS" THEN m
            ELSE CASE names = Omitted /\ hardwired      -> map_next(m.plugs, nodes[i])
                   [] names = Omitted /\ ~hardwired     -> map_one(m.plugs, hardwired, nodes[i], nodes[i])
                   [] names # Omitted /\ i > Len(names) -> Mapped(m.plugs, "NOPLUGS")
                   [] OTHER                             -> map_one(m.plugs, hardwired, nodes[i], names[i])
        all == FoldLeft(one, Mapped(plugs, "SUCCESS"), [ i \in DOMAIN nodes |-> i ])
    IN  IF all.res = "SUCCESS" /\ Len(names) > Len(nodes) THEN Mapped(all.plugs, "NONODES") ELSE all
=============================================================================
