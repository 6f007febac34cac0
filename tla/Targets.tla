------------------------------ MODULE Targets ------------------------------
(***************************************************************************)
(* From the hosts of a request to the nodes of a command: aliases are      *)
(* expanded (powermand/parse_util.c) and every host is looked up among the *)
(* nodes of the configuration (powermand/client.c).                        *)
(***************************************************************************)
EXTENDS Selection, SequencesExt

(* Mutated form of conf_exp_aliases: the walk goes on from where it is,    *)
(* past the host that took the place of the alias.                         *)
exp_aliases_no_reset(aliases, hl) ==
    LET walk[k \in 0..Len(hl)] ==
            IF k = 0 THEN [ hl |-> hl, newhosts |-> << >>, at |-> 1 ]
            ELSE LET s     == walk[k - 1]
                     later == { i \in DOMAIN s.hl : i >= s.at /\ s.hl[i] \in DOMAIN aliases }
                     i     == CHOOSE i \in later : \A j \in later : i <= j
                 IN  IF later = {} THEN s
                     ELSE [ hl |-> RemoveAt(s.hl, i), newhosts |-> s.newhosts \o aliases[s.hl[i]], at |-> i + 1 ]
    IN  walk[Len(hl)].hl \o walk[Len(hl)].newhosts

(* The first alias is removed, and what it stands for is kept. *)
remove_alias(aliases, s) ==
    LET at == { i \in DOMAIN s.hl : s.hl[i] \in DOMAIN aliases }
        i  == CHOOSE i \in at : \A j \in at : i <= j
    IN  IF at = {} THEN s
        ELSE [ hl |-> RemoveAt(s.hl, i), newhosts |-> s.newhosts \o aliases[s.hl[i]] ]

(* The walk over the hosts starts again from the first whenever it removes *)
(* an alias; what the aliases stand for is appended at the end.            *)
conf_exp_aliases(aliases, hl) ==
    LET walk[k \in 0..Len(hl)] ==
            IF k = 0 THEN [ hl |-> hl, newhosts |-> << >> ] ELSE remove_alias(aliases, walk[k - 1])
    IN  walk[Len(hl)].hl \o walk[Len(hl)].newhosts

(* The hosts of a request that are no nodes once it is expanded.  A        *)
(* request that has any is refused, and they are named in the answer.      *)
bad_hosts(nodes, hl) ==
    elements_at(hl, { k \in DOMAIN hl : ~ \E i \in DOMAIN nodes : nodes[i] = hl[k] })
=============================================================================
