--------------------------- MODULE FrontendProofs ---------------------------
(***************************************************************************)
(* Proofs about what is in front of the devices.  Whatever the             *)
(* configuration file says, if it is accepted every node has one plug and  *)
(* every device what its specification says; whatever is asked for, the    *)
(* hosts that were meant are served; the exit status of powerman tells     *)
(* what was done, and a call of libpowerman what came of it.               *)
(***************************************************************************)
EXTENDS Config, Library, Tool, FoldLemmas

(***************************************************************************)
(* The plugs of a device                                                   *)
(***************************************************************************)
PlugRecs == [ name : STRING, node : STRING \cup {NoNode} ]

(* The nodes that have plugs, and which plug each has.                     *)
OnPlugs(p) == { p[i].node : i \in DOMAIN p } \ {NoNode}
PairsOf(p) == { << p[i].node, p[i].name >> : i \in { j \in DOMAIN p : p[j].node # NoNode } }
OneEach(p) == \A i, j \in DOMAIN p : p[i].node = p[j].node /\ p[i].node # NoNode => i = j

(* In q node n has got plug m, and everything else is as it was in p.      *)
Puts(p, q, n, m) ==
    /\ q \in Seq(PlugRecs) /\ PairsOf(q) = PairsOf(p) \cup {<< n, m >>}
    /\ OnPlugs(q) = OnPlugs(p) \cup {n}
    /\ OneEach(p) /\ n \notin OnPlugs(p) => OneEach(q)

(* The first of some places is one of them.                                *)
LEMMA FirstOf ==
    ASSUME NEW n \in Nat, NEW where \in SUBSET (1..n), where # {}
    PROVE  first_of(where) \in where /\ \A j \in where : first_of(where) <= j
<1>1. IsFiniteSet(1..n) /\ where \in SUBSET Int
    BY FS_Interval
<1>2. IsFiniteSet(where)
    BY <1>1, FS_Subset
<1>3. \E x \in where : \A y \in where : x <= y
    BY <1>1, <1>2, LeastAndGreatest
<1>. QED  BY <1>3 DEF first_of

(* A free plug gets a node.                                                *)
LEMMA InPlace ==
    ASSUME NEW p \in Seq(PlugRecs), NEW i \in DOMAIN p, p[i].node = NoNode, NEW n \in STRING \ {NoNode}
    PROVE  Puts(p, [ p EXCEPT ![i].node = n ], n, p[i].name)
<1>. DEFINE q == [ p EXCEPT ![i].node = n ]
            r == [ p[i] EXCEPT !.node = n ]
<1>1. DOMAIN p = 1..Len(p) /\ Len(p) \in Nat /\ p[i] \in PlugRecs
    OBVIOUS
<1>2. r \in PlugRecs /\ r.node = n /\ r.name = p[i].name
    BY <1>1 DEF PlugRecs
<1>3. q = [ p EXCEPT ![i] = r ]
    BY <1>1
<1>. HIDE DEF q, r
<1>4. /\ q \in Seq(PlugRecs) /\ DOMAIN q = DOMAIN p /\ q[i] = r
      /\ \A j \in DOMAIN p : j # i => q[j] = p[j]
    BY <1>1, <1>2, <1>3
<1>5. /\ \A j \in DOMAIN q : j = i \/ (j \in DOMAIN p /\ q[j] = p[j])
      /\ \A j \in DOMAIN p : p[j].node # NoNode => j \in DOMAIN q /\ q[j] = p[j]
      /\ i \in DOMAIN q /\ q[i].node = n /\ q[i].name = p[i].name /\ n # NoNode
    BY <1>2, <1>4
<1>6. PairsOf(q) = PairsOf(p) \cup {<< n, p[i].name >>}
    BY <1>5 DEF PairsOf
<1>7. OnPlugs(q) = OnPlugs(p) \cup {n}
    BY <1>5 DEF OnPlugs
<1>8. OneEach(p) /\ n \notin OnPlugs(p) => OneEach(q)
    BY <1>5 DEF OneEach, OnPlugs
<1>9. Puts(p, q, n, p[i].name)
    BY <1>4, <1>6, <1>7, <1>8 DEF Puts
<1>. QED  BY <1>9 DEF q

(* A plug is created in front of the others, with its node.                *)
LEMMA InFront ==
    ASSUME NEW p \in Seq(PlugRecs), NEW n \in STRING \ {NoNode}, NEW m \in STRING
    PROVE  Puts(p, << Plug(m, n) >> \o p, n, m)
<1>. DEFINE r == Plug(m, n)
            q == << r >> \o p
<1>1. DOMAIN p = 1..Len(p) /\ Len(p) \in Nat
    OBVIOUS
<1>2. r \in PlugRecs /\ r.node = n /\ r.name = m
    BY DEF PlugRecs, Plug
<1>. HIDE DEF r
<1>3. /\ q \in Seq(PlugRecs) /\ DOMAIN q = 1..Len(p) + 1 /\ q[1] = r
      /\ \A j \in 1..Len(p) : q[j + 1] = p[j]
    BY <1>1, <1>2
<1>. HIDE DEF q
<1>4. \A j \in DOMAIN q : j = 1 \/ (j # 1 /\ j - 1 \in DOMAIN p /\ (j - 1) + 1 = j /\ q[j] = p[j - 1])
    BY <1>1, <1>3
<1>5. /\ \A j \in DOMAIN p : j + 1 \in DOMAIN q /\ j + 1 # 1 /\ q[j + 1] = p[j]
      /\ 1 \in DOMAIN q /\ q[1].node = n /\ q[1].name = m /\ n # NoNode
    BY <1>1, <1>2, <1>3
<1>6. PairsOf(q) = PairsOf(p) \cup {<< n, m >>}
    <2>1. ASSUME NEW j \in DOMAIN q, q[j].node # NoNode
          PROVE  << q[j].node, q[j].name >> \in PairsOf(p) \cup {<< n, m >>}
        <3>1. CASE j = 1
            BY <1>5, <3>1
        <3>2. CASE j # 1
            BY <1>4, <2>1, <3>2 DEF PairsOf
        <3>. QED  BY <3>1, <3>2
    <2>2. ASSUME NEW j \in DOMAIN p, p[j].node # NoNode
          PROVE  << p[j].node, p[j].name >> \in PairsOf(q)
        BY <1>5, <2>2 DEF PairsOf
    <2>3. << n, m >> \in PairsOf(q)
        BY <1>5 DEF PairsOf
    <2>. QED  BY <2>1, <2>2, <2>3 DEF PairsOf
<1>7. OnPlugs(q) = OnPlugs(p) \cup {n}
    BY <1>4, <1>5 DEF OnPlugs
<1>8. ASSUME OneEach(p), n \notin OnPlugs(p)
      PROVE  OneEach(q)
    <2>1. \A j \in DOMAIN p : p[j].node # n
        BY <1>5, <1>8 DEF OnPlugs
    <2>2. ASSUME NEW j \in DOMAIN q, NEW k \in DOMAIN q, q[j].node = q[k].node, q[j].node # NoNode
          PROVE  j = k
        <3>1. CASE j = 1 \/ k = 1
            BY <1>4, <1>5, <2>1, <2>2, <3>1
        <3>2. CASE j # 1 /\ k # 1
            <4>1. j - 1 = k - 1
                BY <1>4, <1>8, <2>2, <3>2 DEF OneEach
            <4>2. j \in Int /\ k \in Int
                BY <1>3
            <4>. QED  BY <4>1, <4>2
        <3>. QED  BY <3>1, <3>2
    <2>. QED  BY <2>2 DEF OneEach
<1>9. Puts(p, q, n, m)
    BY <1>3, <1>6, <1>7, <1>8 DEF Puts
<1>. QED  BY <1>9 DEF q, r

Results == { "SUCCESS", "UNKPLUG", "DUPPLUG", "NOPLUGS", "NONODES" }
Maps == [ plugs : Seq(PlugRecs), res : Results ]

(* The plugs and the result are what they are.                             *)
LEMMA MappedType ==
    ASSUME NEW p \in Seq(PlugRecs), NEW r \in Results
    PROVE  Mapped(p, r) \in Maps /\ Mapped(p, r).plugs = p /\ Mapped(p, r).res = r
BY DEF Mapped, Maps

(* The node gets the plug of the name, one that was there or a new one.    *)
LEMMA MapOne ==
    ASSUME NEW p \in Seq(PlugRecs), NEW hw \in BOOLEAN, NEW n \in STRING \ {NoNode}, NEW m \in STRING
    PROVE  /\ map_one(p, hw, n, m) \in Maps
           /\ map_one(p, hw, n, m).res = "SUCCESS" => Puts(p, map_one(p, hw, n, m).plugs, n, m)
<1>. DEFINE where == find_any(p, m)
            i == first_of(where)
            q == [ p EXCEPT ![i].node = n ]
            r == << Plug(m, n) >> \o p
<1>1. DOMAIN p = 1..Len(p) /\ Len(p) \in Nat /\ where \in SUBSET (1..Len(p))
    BY DEF find_any
<1>2. where # {} => i \in DOMAIN p /\ p[i].name = m
    <2>1. where # {} => i \in where
        BY <1>1, FirstOf
    <2>. HIDE DEF i
    <2>. QED  BY <2>1 DEF find_any
<1>3. Puts(p, r, n, m)
    BY InFront
<1>4. where # {} /\ p[i].node = NoNode => Puts(p, q, n, m)
    <2>. SUFFICES ASSUME where # {}, p[i].node = NoNode PROVE Puts(p, q, n, m)
        OBVIOUS
    <2>. HIDE DEF i
    <2>1. Puts(p, q, n, p[i].name)
        BY <1>2, InPlace
    <2>. QED  BY <1>2, <2>1
<1>. HIDE DEF where, i, q, r
<1>5. \/ map_one(p, hw, n, m) = Mapped(p, "UNKPLUG")
      \/ map_one(p, hw, n, m) = Mapped(r, "SUCCESS")
      \/ map_one(p, hw, n, m) = Mapped(p, "DUPPLUG")
      \/ where # {} /\ p[i].node = NoNode /\ map_one(p, hw, n, m) = Mapped(q, "SUCCESS")
    BY DEF map_one, where, i, q, r
<1>6. r \in Seq(PlugRecs) /\ (where # {} /\ p[i].node = NoNode => q \in Seq(PlugRecs))
    BY <1>3, <1>4 DEF Puts
<1>7. CASE map_one(p, hw, n, m) = Mapped(p, "UNKPLUG")
    BY <1>7, MappedType DEF Results
<1>8. CASE map_one(p, hw, n, m) = Mapped(r, "SUCCESS")
    BY <1>3, <1>6, <1>8, MappedType DEF Results
<1>9. CASE map_one(p, hw, n, m) = Mapped(p, "DUPPLUG")
    BY <1>9, MappedType DEF Results
<1>10. CASE where # {} /\ p[i].node = NoNode /\ map_one(p, hw, n, m) = Mapped(q, "SUCCESS")
    BY <1>4, <1>6, <1>10, MappedType DEF Results
<1>. QED  BY <1>5, <1>7, <1>8, <1>9, <1>10

(* The node gets a plug that is free.                                      *)
LEMMA MapNext ==
    ASSUME NEW p \in Seq(PlugRecs), NEW n \in STRING \ {NoNode}
    PROVE  /\ map_next(p, n) \in Maps
           /\ map_next(p, n).res = "SUCCESS" => \E m \in STRING : Puts(p, map_next(p, n).plugs, n, m)
<1>. DEFINE free == { j \in DOMAIN p : p[j].node = NoNode }
            i == first_of(free)
            q == [ p EXCEPT ![i].node = n ]
<1>1. DOMAIN p = 1..Len(p) /\ Len(p) \in Nat /\ free \in SUBSET (1..Len(p))
    OBVIOUS
<1>2. free # {} => i \in DOMAIN p /\ p[i].node = NoNode
    <2>1. free # {} => i \in free
        <3>. HIDE DEF free
        <3>. QED  BY <1>1, FirstOf
    <2>. HIDE DEF i
    <2>. QED  BY <2>1
<1>3. free # {} => Puts(p, q, n, p[i].name) /\ p[i].name \in STRING
    <2>. SUFFICES ASSUME free # {} PROVE Puts(p, q, n, p[i].name) /\ p[i].name \in STRING
        OBVIOUS
    <2>. HIDE DEF i, free
    <2>1. p[i] \in PlugRecs
        BY <1>2
    <2>2. p[i].name \in STRING
        BY <2>1 DEF PlugRecs
    <2>. QED  BY <1>2, <2>2, InPlace
<1>4. \/ map_next(p, n) = Mapped(p, "NOPLUGS")
      \/ free # {} /\ map_next(p, n) = Mapped(q, "SUCCESS")
    BY DEF map_next
<1>. HIDE DEF free, i, q
<1>5. free # {} => q \in Seq(PlugRecs)
    BY <1>3 DEF Puts
<1>6. CASE map_next(p, n) = Mapped(p, "NOPLUGS")
    BY <1>6, MappedType DEF Results
<1>7. CASE free # {} /\ map_next(p, n) = Mapped(q, "SUCCESS")
    <2>1. map_next(p, n) \in Maps /\ map_next(p, n).plugs = q
        BY <1>5, <1>7, MappedType DEF Results
    <2>2. p[i].name \in STRING /\ Puts(p, q, n, p[i].name)
        BY <1>3, <1>7
    <2>. QED  BY <2>1, <2>2
<1>. QED  BY <1>4, <1>6, <1>7

(* One node of a line is mapped to the plug that the line gives it, or to  *)
(* one of the device's choice.                                             *)
mapped_one(hw, nodes, called, m, i) ==
    IF m.res # "SUCCESS" THEN m
    ELSE CASE called = Omitted /\ hw             -> map_next(m.plugs, nodes[i])
           [] called = Omitted /\ ~hw            -> map_one(m.plugs, hw, nodes[i], nodes[i])
           [] called # Omitted /\ i > Len(called) -> Mapped(m.plugs, "NOPLUGS")
           [] OTHER                             -> map_one(m.plugs, hw, nodes[i], called[i])

(* What it has done if it has not failed.                                  *)
Adds(m, r, nodes, called, i) ==
    r.res = "SUCCESS" =>
        /\ m.res = "SUCCESS"
        /\ \E nm \in STRING : Puts(m.plugs, r.plugs, nodes[i], nm) /\ (called # Omitted => nm = called[i])

(* pluglist_map for one node: the node is on the plug named for it or on
   the next free one, or the map has failed.                             *)
LEMMA MappedOne ==
    ASSUME NEW hw \in BOOLEAN, NEW nodes \in Seq(STRING \ {NoNode}), NEW called \in Seq(STRING),
           NEW m \in Maps, NEW i \in 1..Len(nodes)
    PROVE  /\ mapped_one(hw, nodes, called, m, i) \in Maps
           /\ Adds(m, mapped_one(hw, nodes, called, m, i), nodes, called, i)
<1>1. nodes[i] \in STRING \ {NoNode} /\ m.plugs \in Seq(PlugRecs) /\ m.res \in Results /\ i \in Int /\ Len(called) \in Nat
    BY DEF Maps
<1>2. called # Omitted /\ ~(i > Len(called)) => called[i] \in STRING
    BY <1>1
<1>3. CASE m.res # "SUCCESS"
    <2>1. mapped_one(hw, nodes, called, m, i) = m
        BY <1>3 DEF mapped_one
    <2>. QED  BY <1>3, <2>1 DEF Adds
<1>4. CASE m.res = "SUCCESS" /\ called = Omitted /\ hw
    <2>1. mapped_one(hw, nodes, called, m, i) = map_next(m.plugs, nodes[i])
        BY <1>4 DEF mapped_one
    <2>. QED  BY <1>1, <1>4, <2>1, MapNext DEF Maps, Adds
<1>5. CASE m.res = "SUCCESS" /\ called = Omitted /\ ~hw
    <2>1. mapped_one(hw, nodes, called, m, i) = map_one(m.plugs, hw, nodes[i], nodes[i])
        BY <1>5 DEF mapped_one
    <2>2. /\ map_one(m.plugs, hw, nodes[i], nodes[i]) \in Maps
          /\ map_one(m.plugs, hw, nodes[i], nodes[i]).res = "SUCCESS" =>
               Puts(m.plugs, map_one(m.plugs, hw, nodes[i], nodes[i]).plugs, nodes[i], nodes[i])
        BY <1>1, MapOne
    <2>. QED  BY <1>1, <1>5, <2>1, <2>2 DEF Adds
<1>6. CASE m.res = "SUCCESS" /\ called # Omitted /\ i > Len(called)
    <2>1. mapped_one(hw, nodes, called, m, i) = Mapped(m.plugs, "NOPLUGS")
        BY <1>6 DEF mapped_one
    <2>. QED  BY <1>1, <2>1, MappedType DEF Results, Adds
<1>7. CASE m.res = "SUCCESS" /\ called # Omitted /\ ~(i > Len(called))
    <2>1. mapped_one(hw, nodes, called, m, i) = map_one(m.plugs, hw, nodes[i], called[i])
        BY <1>7 DEF mapped_one
    <2>2. called[i] \in STRING
        BY <1>2, <1>7
    <2>3. /\ map_one(m.plugs, hw, nodes[i], called[i]) \in Maps
          /\ map_one(m.plugs, hw, nodes[i], called[i]).res = "SUCCESS" =>
               Puts(m.plugs, map_one(m.plugs, hw, nodes[i], called[i]).plugs, nodes[i], called[i])
        BY <1>1, <2>2, MapOne
    <2>. QED  BY <1>1, <1>7, <2>1, <2>2, <2>3 DEF Adds
<1>. QED  BY <1>3, <1>4, <1>5, <1>6, <1>7

(* In q the first k nodes have got plugs, of the names the line gives.     *)
Places(p, q, nodes, called, k) ==
    /\ q \in Seq(PlugRecs) /\ PairsOf(p) \subseteq PairsOf(q)
    /\ OnPlugs(q) = OnPlugs(p) \cup { nodes[j] : j \in 1..k }
    /\ \A j \in 1..k : \E nm \in STRING :
         << nodes[j], nm >> \in PairsOf(q) /\ (called # Omitted => nm = called[j])
    /\ /\ OneEach(p)
       /\ \A j \in 1..k : nodes[j] \notin OnPlugs(p)
       /\ \A i, j \in 1..k : nodes[i] = nodes[j] => i = j
       => OneEach(q)

(* One node more.                                                          *)
LEMMA PlacesNext ==
    ASSUME NEW p \in Seq(PlugRecs), NEW q, NEW r, NEW nodes \in Seq(STRING \ {NoNode}), NEW called,
           NEW k \in Nat, Places(p, q, nodes, called, k), k + 1 \in 1..Len(nodes),
           NEW nm \in STRING, Puts(q, r, nodes[k + 1], nm), called # Omitted => nm = called[k + 1]
    PROVE  Places(p, r, nodes, called, k + 1)
<1>1. 1..k + 1 = 1..k \cup {k + 1} /\ k + 1 \notin 1..k
    OBVIOUS
<1>2. { nodes[j] : j \in 1..k + 1 } = { nodes[j] : j \in 1..k } \cup { nodes[k + 1] }
    BY <1>1
<1>3. /\ r \in Seq(PlugRecs) /\ PairsOf(r) = PairsOf(q) \cup {<< nodes[k + 1], nm >>}
      /\ OnPlugs(r) = OnPlugs(q) \cup {nodes[k + 1]}
    BY DEF Puts
<1>4. /\ PairsOf(p) \subseteq PairsOf(q)
      /\ OnPlugs(q) = OnPlugs(p) \cup { nodes[j] : j \in 1..k }
    BY DEF Places
<1>5. PairsOf(p) \subseteq PairsOf(r) /\ OnPlugs(r) = OnPlugs(p) \cup { nodes[j] : j \in 1..k + 1 }
    BY <1>2, <1>3, <1>4
<1>6. ASSUME NEW j \in 1..k + 1
      PROVE  \E m \in STRING : << nodes[j], m >> \in PairsOf(r) /\ (called # Omitted => m = called[j])
    <2>1. CASE j = k + 1
        BY <1>3, <2>1
    <2>2. CASE j \in 1..k
        <3>1. PICK m \in STRING : << nodes[j], m >> \in PairsOf(q) /\ (called # Omitted => m = called[j])
            BY <2>2 DEF Places
        <3>. QED  BY <1>3, <3>1
    <2>. QED  BY <1>1, <2>1, <2>2
<1>7. ASSUME OneEach(p),
             \A j \in 1..k + 1 : nodes[j] \notin OnPlugs(p),
             \A i, j \in 1..k + 1 : nodes[i] = nodes[j] => i = j
      PROVE  OneEach(r)
    <2>1. \A j \in 1..k : nodes[j] # nodes[k + 1] /\ nodes[j] \notin OnPlugs(p)
        BY <1>1, <1>7
    <2>2. \A i, j \in 1..k : nodes[i] = nodes[j] => i = j
        BY <1>1, <1>7
    <2>3. OneEach(q)
        BY <1>7, <2>1, <2>2 DEF Places
    <2>4. nodes[k + 1] \notin OnPlugs(q)
        BY <1>1, <1>4, <1>7, <2>1
    <2>. QED  BY <2>3, <2>4 DEF Puts
<1>. QED  BY <1>3, <1>5, <1>6, <1>7 DEF Places

(* A plug list with the same names.                                        *)
SameNames(p, q) == DOMAIN q = DOMAIN p /\ \A i \in DOMAIN p : q[i].name = p[i].name

(* The names of the plugs of a hardwired device are not changed.           *)
LEMMA NamesStay ==
    ASSUME NEW nodes \in Seq(STRING \ {NoNode}), NEW called \in Seq(STRING),
           NEW m \in Maps, NEW i \in 1..Len(nodes)
    PROVE  SameNames(m.plugs, mapped_one(TRUE, nodes, called, m, i).plugs)
<1>. DEFINE p == m.plugs
            r == mapped_one(TRUE, nodes, called, m, i)
<1>1. p \in Seq(PlugRecs) /\ \A k \in DOMAIN p : p[k] \in PlugRecs
    BY DEF Maps
<1>2. ASSUME NEW k, NEW n
      PROVE  SameNames(p, [ p EXCEPT ![k].node = n ])
    <2>. DEFINE q == [ p EXCEPT ![k].node = n ]
    <2>1. DOMAIN q = DOMAIN p
        OBVIOUS
    <2>2. ASSUME NEW j \in DOMAIN p
          PROVE  q[j].name = p[j].name
        <3>1. q[j] = IF j = k THEN [ p[j] EXCEPT !.node = n ] ELSE p[j]
            OBVIOUS
        <3>2. [ p[j] EXCEPT !.node = n ].name = p[j].name
            BY <1>1 DEF PlugRecs
        <3>. HIDE DEF q
        <3>. QED  BY <3>1, <3>2
    <2>. HIDE DEF q
    <2>3. SameNames(p, q)
        BY <2>1, <2>2 DEF SameNames
    <2>. QED  BY <2>3 DEF q
<1>3. SameNames(p, p)
    BY DEF SameNames
<1>4. \A q, x : Mapped(q, x).plugs = q
    BY DEF Mapped
<1>. DEFINE put(k, n) == [ p EXCEPT ![k].node = n ]
<1>10. \A k, n : SameNames(p, put(k, n))
    BY <1>2
<1>5. ASSUME NEW n
      PROVE  SameNames(p, map_next(p, n).plugs)
    <2>. DEFINE k == first_of({ j \in DOMAIN p : p[j].node = NoNode })
    <2>1. map_next(p, n) = Mapped(p, "NOPLUGS") \/ map_next(p, n) = Mapped(put(k, n), "SUCCESS")
        BY DEF map_next
    <2>. HIDE DEF put, p, k
    <2>. QED  BY <1>3, <1>4, <1>10, <2>1
<1>6. ASSUME NEW n, NEW x
      PROVE  SameNames(p, map_one(p, TRUE, n, x).plugs)
    <2>. DEFINE k == first_of(find_any(p, x))
    <2>1. \/ map_one(p, TRUE, n, x) = Mapped(p, "UNKPLUG")
          \/ map_one(p, TRUE, n, x) = Mapped(p, "DUPPLUG")
          \/ map_one(p, TRUE, n, x) = Mapped(put(k, n), "SUCCESS")
        BY DEF map_one
    <2>. HIDE DEF put, p, k
    <2>2. /\ SameNames(p, Mapped(p, "UNKPLUG").plugs) /\ SameNames(p, Mapped(p, "DUPPLUG").plugs)
          /\ SameNames(p, Mapped(put(k, n), "SUCCESS").plugs)
        BY <1>3, <1>4, <1>10
    <2>. QED  BY <2>1, <2>2
<1>. HIDE DEF p
<1>7. \/ r = m
      \/ r = map_next(p, nodes[i])
      \/ r = Mapped(p, "NOPLUGS")
      \/ r = map_one(p, TRUE, nodes[i], called[i])
    BY DEF mapped_one, p
<1>8. r = m => r.plugs = p
    BY DEF p
<1>. HIDE DEF r
<1>9. SameNames(p, r.plugs)
    BY <1>3, <1>4, <1>5, <1>6, <1>7, <1>8
<1>. QED  BY <1>9 DEF p, r

(* All nodes of a line are mapped, or there is an error; and the names of  *)
(* the plugs stay if the device is hardwired.                              *)
LEMMA MapAll ==
    ASSUME NEW p \in Seq(PlugRecs), NEW hw \in BOOLEAN,
           NEW nodes \in Seq(STRING \ {NoNode}), NEW called \in Seq(STRING)
    PROVE  LET m == pluglist_map(p, hw, nodes, called)
           IN  /\ m \in Maps /\ (m.res = "SUCCESS" => Places(p, m.plugs, nodes, called, Len(nodes)))
               /\ hw => SameNames(p, m.plugs)
<1>. DEFINE n    == Len(nodes)
            base == Mapped(p, "SUCCESS")
            idx  == [ i \in DOMAIN nodes |-> i ]
            step == [ i \in 1..n |-> [ m \in Maps |-> mapped_one(hw, nodes, called, m, i) ] ]
            it   == CHOOSE g : g = [ s \in SUBSET DOMAIN idx |->
                       IF s = {} THEN base ELSE mapped_one(hw, nodes, called, g[s \ {Max(s)}], idx[Max(s)]) ]
            all  == it[DOMAIN idx]
<1>1. n \in Nat /\ DOMAIN idx = 1..n /\ \A i \in 1..n : idx[i] = i
    OBVIOUS
<1>2. base \in Maps /\ base.plugs = p /\ base.res = "SUCCESS"
    BY MappedType DEF Results
<1>3. step \in [1..n -> [Maps -> Maps]]
    <2>1. \A i \in 1..n : \A m \in Maps : mapped_one(hw, nodes, called, m, i) \in Maps
        BY MappedOne
    <2>. QED  BY <2>1
<1>4. pluglist_map(p, hw, nodes, called) =
         IF all.res = "SUCCESS" /\ Len(called) > Len(nodes) THEN Mapped(all.plugs, "NONODES") ELSE all
    BY Zenon DEF pluglist_map, FoldLeft, MapThenFoldSet, mapped_one
<1>5. \E g : g = [ s \in SUBSET DOMAIN idx |->
                       IF s = {} THEN base ELSE mapped_one(hw, nodes, called, g[s \ {Max(s)}], idx[Max(s)]) ]
    <2>. HIDE DEF base, step, n, idx
    <2>0. PICK iter : TakesLast(iter, Maps, base, n, step)
        BY <1>1, <1>2, <1>3, FoldRuns
    <2>1. /\ iter \in [SUBSET (1..n) -> Maps]
          /\ \A s \in SUBSET (1..n) :
               iter[s] = IF s = {} THEN base ELSE step[Max(s)][iter[s \ {Max(s)}]]
        BY <2>0 DEF TakesLast
    <2>2. ASSUME NEW s \in SUBSET (1..n), s # {}
          PROVE  iter[s] = mapped_one(hw, nodes, called, iter[s \ {Max(s)}], idx[Max(s)])
        <3>1. Max(s) \in 1..n
            BY <1>1, <2>2, MaxIn
        <3>2. s \ {Max(s)} \in SUBSET (1..n)
            OBVIOUS
        <3>. HIDE DEF Max
        <3>3. iter[s \ {Max(s)}] \in Maps /\ idx[Max(s)] = Max(s)
            BY <1>1, <2>1, <3>1, <3>2
        <3>4. iter[s] = step[Max(s)][iter[s \ {Max(s)}]]
            BY <2>1, <2>2
        <3>. QED  BY <3>1, <3>3, <3>4 DEF step
    <2>3. iter = [ s \in SUBSET DOMAIN idx |->
                     IF s = {} THEN base ELSE mapped_one(hw, nodes, called, iter[s \ {Max(s)}], idx[Max(s)]) ]
        BY <1>1, <2>1, <2>2
    <2>. QED  BY <2>3
<1>6. it = [ s \in SUBSET DOMAIN idx |->
               IF s = {} THEN base ELSE mapped_one(hw, nodes, called, it[s \ {Max(s)}], idx[Max(s)]) ]
    <2>. HIDE DEF base, idx
    <2>. QED  BY <1>5
<1>. HIDE DEF it
<1>7. \E h : GoesUp(h, Maps, base, n, step) /\ h[n] = it[1..n]
    <2>1. it[{}] = base
        BY <1>6
    <2>2. ASSUME NEW i \in 1..n, it[1..i - 1] \in Maps
          PROVE  it[1..i] = step[i][it[1..i - 1]]
        <3>1. Max(1..i) = i /\ (1..i) \ {i} = 1..i - 1 /\ 1..i # {}
            BY MaxUpTo
        <3>2. 1..i \in SUBSET DOMAIN idx
            BY <1>1
        <3>. HIDE DEF Max
        <3>3. it[1..i] = mapped_one(hw, nodes, called, it[1..i - 1], i)
            BY <1>1, <1>6, <3>1, <3>2
        <3>. QED  BY <2>2, <3>3
    <2>. HIDE DEF base, step, n
    <2>3. GoesOn(it, Maps, base, n, step)
        BY <2>1, <2>2 DEF GoesOn
    <2>4. IsReached(it[1..n], Maps, base, n, step)
        BY <1>1, <1>2, <1>3, <2>3, FoldValues
    <2>. QED  BY <2>4 DEF IsReached
<1>8. PICK h \in [0..n -> Maps] : h[0] = base /\ h[n] = it[1..n] /\ \A i \in 1..n : h[i] = step[i][h[i - 1]]
    <2>. HIDE DEF base, step, n
    <2>. QED  BY <1>7 DEF GoesUp
<1>. DEFINE I == { k \in 0..n : h[k].res = "SUCCESS" => Places(p, h[k].plugs, nodes, called, k) }
<1>9. 0 \in I
    <2>. HIDE DEF n, base
    <2>1. 1..0 = {} /\ p \in Seq(PlugRecs)
        OBVIOUS
    <2>2. Places(p, p, nodes, called, 0)
        BY <2>1 DEF Places
    <2>. QED  BY <1>1, <1>2, <1>8, <2>2
<1>10. ASSUME NEW k \in 0..n - 1, k \in I
       PROVE  k + 1 \in I
    <2>1. k \in Nat /\ k + 1 \in 1..Len(nodes) /\ (k + 1) - 1 = k /\ k + 1 \in 0..n /\ h[k] \in Maps
        BY <1>1
    <2>2. h[k + 1] = step[k + 1][h[k]]
        <3>. HIDE DEF step, n
        <3>1. k + 1 \in 1..n
            BY <2>1 DEF n
        <3>. QED  BY <1>8, <2>1, <3>1
    <2>3. h[k + 1] = mapped_one(hw, nodes, called, h[k], k + 1)
        BY <2>1, <2>2
    <2>4. SUFFICES ASSUME h[k + 1].res = "SUCCESS" PROVE Places(p, h[k + 1].plugs, nodes, called, k + 1)
        BY <2>1
    <2>. HIDE DEF step
    <2>5. /\ h[k].res = "SUCCESS"
          /\ \E nm \in STRING : Puts(h[k].plugs, h[k + 1].plugs, nodes[k + 1], nm) /\ (called # Omitted => nm = called[k + 1])
        <3>1. Adds(h[k], mapped_one(hw, nodes, called, h[k], k + 1), nodes, called, k + 1)
            BY <2>1, MappedOne
        <3>. QED  BY <2>3, <2>4, <3>1 DEF Adds
    <2>6. Places(p, h[k].plugs, nodes, called, k)
        BY <1>10, <2>5
    <2>. QED  BY <2>1, <2>5, <2>6, PlacesNext
<1>11. n \in I
    <2>. HIDE DEF I, n
    <2>1. I \in SUBSET (0..n)
        BY DEF I
    <2>2. I = 0..n
        BY <1>1, <1>9, <1>10, <2>1, UpTo
    <2>. QED  BY <1>1, <2>2
<1>12. all = h[n] /\ all \in Maps /\ (all.res = "SUCCESS" => Places(p, all.plugs, nodes, called, n))
    <2>1. n \in 0..n
        BY <1>1
    <2>2. all = h[n]
        BY <1>1, <1>8
    <2>. HIDE DEF n, all
    <2>. QED  BY <1>11, <2>1, <2>2
<1>15. hw => SameNames(p, all.plugs)
    <2>. SUFFICES ASSUME hw = TRUE PROVE SameNames(p, all.plugs)
        OBVIOUS
    <2>. DEFINE J == { k \in 0..n : SameNames(p, h[k].plugs) }
    <2>1. 0 \in J
        <3>. HIDE DEF n, base
        <3>. QED  BY <1>1, <1>2, <1>8 DEF SameNames
    <2>2. ASSUME NEW k \in 0..n - 1, k \in J
          PROVE  k + 1 \in J
        <3>1. k + 1 \in 1..Len(nodes) /\ (k + 1) - 1 = k /\ k + 1 \in 0..n /\ h[k] \in Maps
            BY <1>1
        <3>2. h[k + 1] = step[k + 1][h[k]]
            <4>. HIDE DEF step, n
            <4>1. k + 1 \in 1..n
                BY <3>1 DEF n
            <4>. QED  BY <1>8, <3>1, <4>1
        <3>3. h[k + 1] = mapped_one(TRUE, nodes, called, h[k], k + 1)
            BY <3>1, <3>2
        <3>. HIDE DEF step
        <3>4. SameNames(h[k].plugs, h[k + 1].plugs)
            BY <3>1, <3>3, NamesStay
        <3>. QED  BY <2>2, <3>1, <3>4 DEF SameNames
    <2>3. n \in J
        <3>. HIDE DEF J, n
        <3>1. J \in SUBSET (0..n)
            BY DEF J
        <3>2. J = 0..n
            BY <1>1, <2>1, <2>2, <3>1, UpTo
        <3>. QED  BY <1>1, <3>2
    <2>. QED  BY <1>12, <2>3
<1>. HIDE DEF all
<1>13. CASE all.res = "SUCCESS" /\ Len(called) > Len(nodes)
    <2>1. all.plugs \in Seq(PlugRecs) /\ "NONODES" \in Results
        BY <1>12 DEF Maps, Results
    <2>2. /\ Mapped(all.plugs, "NONODES") \in Maps
          /\ Mapped(all.plugs, "NONODES").res = "NONODES"
          /\ Mapped(all.plugs, "NONODES").plugs = all.plugs
        BY <2>1, MappedType
    <2>3. "NONODES" # "SUCCESS"
        OBVIOUS
    <2>. QED  BY <1>4, <1>13, <1>15, <2>2, <2>3
<1>14. CASE ~(all.res = "SUCCESS" /\ Len(called) > Len(nodes))
    BY <1>4, <1>12, <1>14, <1>15
<1>. QED  BY <1>13, <1>14

(***************************************************************************)
(* The nodes of the configuration                                          *)
(***************************************************************************)
Lists == [ nodes : Seq(STRING), ok : BOOLEAN ]

(* A node is added to the list unless it is there.                         *)
add_one(a, n) ==
    IF ~a.ok THEN a
    ELSE IF n \in ToSet(a.nodes) THEN Added(a.nodes, FALSE)
    ELSE Added(Append(a.nodes, n), TRUE)

(* The first k of the nodes more are new, and all of them are in the list. *)
News(nodes, a, more, k) ==
    a.ok => /\ ToSet(a.nodes) = ToSet(nodes) \cup { more[j] : j \in 1..k }
            /\ \A j \in 1..k : more[j] \notin ToSet(nodes)
            /\ \A i, j \in 1..k : more[i] = more[j] => i = j

(* conf_addnodes for one node: it is added and it is new, or the call has
   failed.                                                               *)
LEMMA AddOne ==
    ASSUME NEW a \in Lists, NEW n \in STRING
    PROVE  /\ add_one(a, n) \in Lists
           /\ add_one(a, n).ok => /\ a.ok /\ n \notin ToSet(a.nodes)
                                  /\ ToSet(add_one(a, n).nodes) = ToSet(a.nodes) \cup {n}
<1>. DEFINE s == a.nodes
            t == Append(s, n)
<1>1. s \in Seq(STRING) /\ a.ok \in BOOLEAN
    BY DEF Lists
<1>2. t \in Seq(STRING) /\ DOMAIN t = 1..Len(s) + 1 /\ t[Len(s) + 1] = n
      /\ DOMAIN s = 1..Len(s) /\ Len(s) \in Nat /\ \A i \in 1..Len(s) : t[i] = s[i]
    BY <1>1
<1>3. 1..Len(s) + 1 = 1..Len(s) \cup {Len(s) + 1}
    BY <1>2
<1>. HIDE DEF t, s
<1>4. ToSet(t) = ToSet(s) \cup {n}
    <2>1. \A i \in DOMAIN t : t[i] = n \/ (i \in DOMAIN s /\ t[i] = s[i])
        BY <1>2, <1>3
    <2>2. \A i \in DOMAIN s : i \in DOMAIN t /\ t[i] = s[i]
        BY <1>2, <1>3
    <2>3. \E i \in DOMAIN t : t[i] = n
        BY <1>2, <1>3
    <2>. QED  BY <2>1, <2>2, <2>3 DEF ToSet
<1>5. CASE ~a.ok
    BY <1>5 DEF add_one
<1>6. CASE a.ok /\ n \in ToSet(s)
    <2>1. add_one(a, n) = Added(s, FALSE)
        BY <1>6 DEF add_one, s
    <2>. QED  BY <1>1, <2>1 DEF Added, Lists
<1>7. CASE a.ok /\ n \notin ToSet(s)
    <2>1. add_one(a, n) = Added(t, TRUE)
        BY <1>7 DEF add_one, s, t
    <2>2. add_one(a, n) \in Lists /\ add_one(a, n).nodes = t
        BY <1>2, <2>1 DEF Added, Lists
    <2>. QED  BY <1>4, <1>7, <2>2 DEF s
<1>. QED  BY <1>1, <1>5, <1>6, <1>7

(* One node more.                                                          *)
LEMMA NewsNext ==
    ASSUME NEW nodes, NEW a \in Lists, NEW more \in Seq(STRING), NEW k \in Nat, k + 1 \in 1..Len(more),
           News(nodes, a, more, k)
    PROVE  News(nodes, add_one(a, more[k + 1]), more, k + 1)
<1>. DEFINE n == more[k + 1]
            b == add_one(a, n)
<1>1. SUFFICES ASSUME b.ok
               PROVE  /\ ToSet(b.nodes) = ToSet(nodes) \cup { more[j] : j \in 1..k + 1 }
                      /\ \A j \in 1..k + 1 : more[j] \notin ToSet(nodes)
                      /\ \A i, j \in 1..k + 1 : more[i] = more[j] => i = j
    BY DEF News
<1>2. n \in STRING
    OBVIOUS
<1>3. a.ok /\ n \notin ToSet(a.nodes) /\ ToSet(b.nodes) = ToSet(a.nodes) \cup {n}
    BY <1>1, <1>2, AddOne
<1>4. 1..k + 1 = 1..k \cup {k + 1}
    OBVIOUS
<1>5. /\ ToSet(a.nodes) = ToSet(nodes) \cup { more[j] : j \in 1..k }
      /\ \A j \in 1..k : more[j] \notin ToSet(nodes)
      /\ \A i, j \in 1..k : more[i] = more[j] => i = j
    BY <1>3 DEF News
<1>6. n \notin ToSet(nodes) /\ \A j \in 1..k : more[j] # n
    BY <1>3, <1>5
<1>. HIDE DEF b
<1>7. ToSet(b.nodes) = ToSet(nodes) \cup { more[j] : j \in 1..k + 1 }
    BY <1>3, <1>4, <1>5
<1>8. \A i, j \in 1..k + 1 : more[i] = more[j] => i = j
    BY <1>4, <1>5, <1>6
<1>. QED  BY <1>4, <1>5, <1>6, <1>7, <1>8

(* All nodes are added, or there is an error.                              *)
LEMMA AddAll ==
    ASSUME NEW nodes \in Seq(STRING), NEW more \in Seq(STRING)
    PROVE  /\ conf_addnodes(nodes, more) \in Lists
           /\ News(nodes, conf_addnodes(nodes, more), more, Len(more))
<1>. DEFINE n    == Len(more)
            base == Added(nodes, TRUE)
            step == [ i \in 1..n |-> [ a \in Lists |-> add_one(a, more[i]) ] ]
            it   == CHOOSE g : g = [ s \in SUBSET DOMAIN more |->
                       IF s = {} THEN base ELSE add_one(g[s \ {Max(s)}], more[Max(s)]) ]
            all  == it[DOMAIN more]
<1>1. n \in Nat /\ DOMAIN more = 1..n /\ \A i \in 1..n : more[i] \in STRING
    OBVIOUS
<1>2. base \in Lists /\ base.nodes = nodes /\ base.ok
    BY DEF Added, Lists
<1>3. step \in [1..n -> [Lists -> Lists]]
    <2>1. \A i \in 1..n : \A a \in Lists : add_one(a, more[i]) \in Lists
        BY <1>1, AddOne
    <2>. QED  BY <2>1
<1>4. conf_addnodes(nodes, more) = all
    BY Zenon DEF conf_addnodes, FoldLeft, MapThenFoldSet, add_one
<1>5. \E g : g = [ s \in SUBSET DOMAIN more |->
                       IF s = {} THEN base ELSE add_one(g[s \ {Max(s)}], more[Max(s)]) ]
    <2>. HIDE DEF base, step, n
    <2>1. PICK iter : TakesLast(iter, Lists, base, n, step)
        BY <1>1, <1>2, <1>3, FoldRuns
    <2>2. /\ iter \in [SUBSET (1..n) -> Lists]
          /\ \A s \in SUBSET (1..n) :
               iter[s] = IF s = {} THEN base ELSE step[Max(s)][iter[s \ {Max(s)}]]
        BY <2>1 DEF TakesLast
    <2>3. ASSUME NEW s \in SUBSET (1..n), s # {}
          PROVE  iter[s] = add_one(iter[s \ {Max(s)}], more[Max(s)])
        <3>1. Max(s) \in 1..n
            BY <1>1, <2>3, MaxIn
        <3>2. s \ {Max(s)} \in SUBSET (1..n)
            OBVIOUS
        <3>. HIDE DEF Max
        <3>3. iter[s \ {Max(s)}] \in Lists
            BY <2>2, <3>2
        <3>4. iter[s] = step[Max(s)][iter[s \ {Max(s)}]]
            BY <2>2, <2>3
        <3>. QED  BY <3>1, <3>3, <3>4 DEF step
    <2>4. iter = [ s \in SUBSET DOMAIN more |->
                     IF s = {} THEN base ELSE add_one(iter[s \ {Max(s)}], more[Max(s)]) ]
        BY <1>1, <2>2, <2>3
    <2>. QED  BY <2>4
<1>6. it = [ s \in SUBSET DOMAIN more |->
               IF s = {} THEN base ELSE add_one(it[s \ {Max(s)}], more[Max(s)]) ]
    <2>. HIDE DEF base
    <2>. QED  BY <1>5
<1>. HIDE DEF it
<1>7. IsReached(it[1..n], Lists, base, n, step)
    <2>1. it[{}] = base
        BY <1>6
    <2>2. ASSUME NEW i \in 1..n, it[1..i - 1] \in Lists
          PROVE  it[1..i] = step[i][it[1..i - 1]]
        <3>1. Max(1..i) = i /\ (1..i) \ {i} = 1..i - 1 /\ 1..i # {}
            BY MaxUpTo
        <3>2. 1..i \in SUBSET DOMAIN more
            BY <1>1
        <3>. HIDE DEF Max
        <3>3. it[1..i] = add_one(it[1..i - 1], more[i])
            BY <1>1, <1>6, <3>1, <3>2
        <3>. QED  BY <2>2, <3>3
    <2>. HIDE DEF base, step, n
    <2>3. GoesOn(it, Lists, base, n, step)
        BY <2>1, <2>2 DEF GoesOn
    <2>. QED  BY <1>1, <1>2, <1>3, <2>3, FoldValues
<1>8. PICK h \in [0..n -> Lists] : h[0] = base /\ h[n] = it[1..n] /\ \A i \in 1..n : h[i] = step[i][h[i - 1]]
    <2>. HIDE DEF base, step, n
    <2>. QED  BY <1>7 DEF IsReached, GoesUp
<1>. DEFINE I == { k \in 0..n : News(nodes, h[k], more, k) }
<1>9. 0 \in I
    <2>. HIDE DEF n, base
    <2>1. 1..0 = {}
        OBVIOUS
    <2>2. News(nodes, base, more, 0)
        BY <1>2, <2>1 DEF News
    <2>. QED  BY <1>1, <1>8, <2>2
<1>10. ASSUME NEW k \in 0..n - 1, k \in I
       PROVE  k + 1 \in I
    <2>1. k \in Nat /\ k + 1 \in 1..Len(more) /\ (k + 1) - 1 = k /\ k + 1 \in 0..n /\ h[k] \in Lists
        BY <1>1
    <2>2. h[k + 1] = step[k + 1][h[k]]
        <3>. HIDE DEF step, n
        <3>1. k + 1 \in 1..n
            BY <2>1 DEF n
        <3>. QED  BY <1>8, <2>1, <3>1
    <2>3. h[k + 1] = add_one(h[k], more[k + 1])
        BY <2>1, <2>2
    <2>. HIDE DEF step
    <2>4. News(nodes, h[k], more, k)
        BY <1>10
    <2>5. News(nodes, add_one(h[k], more[k + 1]), more, k + 1)
        BY <2>1, <2>4, NewsNext
    <2>. QED  BY <2>1, <2>3, <2>5
<1>11. n \in I
    <2>. HIDE DEF I, n
    <2>1. I \in SUBSET (0..n)
        BY DEF I
    <2>2. I = 0..n
        BY <1>1, <1>9, <1>10, <2>1, UpTo
    <2>. QED  BY <1>1, <2>2
<1>12. all = h[n] /\ h[n] \in Lists /\ News(nodes, h[n], more, n)
    <2>1. n \in 0..n
        BY <1>1
    <2>2. all = h[n]
        BY <1>1, <1>8
    <2>. HIDE DEF n, all
    <2>. QED  BY <1>11, <2>1, <2>2
<1>. QED  BY <1>4, <1>12

(***************************************************************************)
(* The specifications                                                      *)
(***************************************************************************)
Specs == [ name : STRING \cup {""}, plugs : Seq(STRING), scripts : SUBSET STRING, error : BOOLEAN ]
Items == [ kind : {"plugs"}, names : Seq(STRING) \ {<< >>} ] \cup [ kind : {"script"}, com : STRING ]

(* One item of a specification keeps its type.                            *)
LEMMA ItemType ==
    ASSUME NEW spec \in Specs, NEW item \in Items
    PROVE  spec_item(spec, item) \in Specs
<1>1. CASE item \in [ kind : {"plugs"}, names : Seq(STRING) \ {<< >>} ]
    <2>1. item.kind = "plugs" /\ item.names \in Seq(STRING)
        BY <1>1
    <2>2. (spec.error \/ spec.plugs # << >>) \in BOOLEAN
        OBVIOUS
    <2>. QED  BY <2>1, <2>2 DEF spec_item, Specs
<1>2. CASE item \in [ kind : {"script"}, com : STRING ]
    <2>1. item.kind # "plugs" /\ item.com \in STRING
        BY <1>2
    <2>2. (spec.error \/ item.com \in spec.scripts) \in BOOLEAN
        OBVIOUS
    <2>3. spec.scripts \cup {item.com} \in SUBSET STRING
        BY <2>1 DEF Specs
    <2>. QED  BY <2>1, <2>2, <2>3 DEF spec_item, Specs
<1>. QED  BY <1>1, <1>2 DEF Items

(* What the items of a specification come to, one by one.                  *)
LEMMA ItemsType ==
    ASSUME NEW spec \in Specs, NEW items \in Seq(Items)
    PROVE  /\ FoldLeft(spec_item, spec, items) \in Specs
           /\ \E h \in [0..Len(items) -> Specs] :
                /\ h[0] = spec /\ h[Len(items)] = FoldLeft(spec_item, spec, items)
                /\ \A i \in 1..Len(items) : h[i] = spec_item(h[i - 1], items[i])
<1>. DEFINE n    == Len(items)
            step == [ i \in 1..n |-> [ s \in Specs |-> spec_item(s, items[i]) ] ]
            it   == CHOOSE g : g = [ s \in SUBSET DOMAIN items |->
                       IF s = {} THEN spec ELSE spec_item(g[s \ {Max(s)}], items[Max(s)]) ]
<1>1. n \in Nat /\ DOMAIN items = 1..n /\ \A i \in 1..n : items[i] \in Items
    OBVIOUS
<1>2. step \in [1..n -> [Specs -> Specs]]
    <2>1. \A i \in 1..n : \A s \in Specs : spec_item(s, items[i]) \in Specs
        BY <1>1, ItemType
    <2>. QED  BY <2>1
<1>3. FoldLeft(spec_item, spec, items) = it[DOMAIN items]
    BY Zenon DEF FoldLeft, MapThenFoldSet
<1>4. PICK iter : iter \in [SUBSET (1..n) -> Specs] /\
               \A s \in SUBSET (1..n) : iter[s] = IF s = {} THEN spec ELSE step[Max(s)][iter[s \ {Max(s)}]]
    <2>. HIDE DEF step, n, it
    <2>1. PICK iter : TakesLast(iter, Specs, spec, n, step)
        BY <1>1, <1>2, FoldRuns
    <2>. QED  BY <2>1 DEF TakesLast
<1>5. ASSUME NEW s \in SUBSET (1..n), s # {}
      PROVE  iter[s] = spec_item(iter[s \ {Max(s)}], items[Max(s)])
    <2>. HIDE DEF step, n
    <2>1. Max(s) \in 1..n
        BY <1>1, <1>5, MaxIn
    <2>2. s \ {Max(s)} \in SUBSET (1..n)
        OBVIOUS
    <2>. HIDE DEF Max
    <2>3. iter[s \ {Max(s)}] \in Specs
        BY <1>4, <2>2
    <2>4. iter[s] = step[Max(s)][iter[s \ {Max(s)}]]
        BY <1>4, <1>5
    <2>. QED  BY <2>1, <2>3, <2>4 DEF step
<1>6. it = [ s \in SUBSET DOMAIN items |->
               IF s = {} THEN spec ELSE spec_item(it[s \ {Max(s)}], items[Max(s)]) ]
    <2>. HIDE DEF step, n
    <2>1. iter = [ s \in SUBSET DOMAIN items |->
                     IF s = {} THEN spec ELSE spec_item(iter[s \ {Max(s)}], items[Max(s)]) ]
        BY <1>1, <1>4, <1>5
    <2>. QED  BY <2>1
<1>. HIDE DEF it
<1>7. IsReached(it[1..n], Specs, spec, n, step)
    <2>1. it[{}] = spec
        BY <1>6
    <2>2. ASSUME NEW i \in 1..n, it[1..i - 1] \in Specs
          PROVE  it[1..i] = step[i][it[1..i - 1]]
        <3>1. Max(1..i) = i /\ (1..i) \ {i} = 1..i - 1 /\ 1..i # {}
            BY MaxUpTo
        <3>2. 1..i \in SUBSET DOMAIN items
            BY <1>1
        <3>. HIDE DEF Max
        <3>3. it[1..i] = spec_item(it[1..i - 1], items[i])
            BY <1>1, <1>6, <3>1, <3>2
        <3>. QED  BY <2>2, <3>3
    <2>. HIDE DEF step, n
    <2>3. GoesOn(it, Specs, spec, n, step)
        BY <2>1, <2>2 DEF GoesOn
    <2>. QED  BY <1>1, <1>2, <2>3, FoldValues
<1>8. PICK h \in [0..n -> Specs] : h[0] = spec /\ h[n] = it[1..n] /\ \A i \in 1..n : h[i] = step[i][h[i - 1]]
    <2>. HIDE DEF step, n
    <2>. QED  BY <1>7 DEF IsReached, GoesUp
<1>9. \A i \in 1..n : h[i] = spec_item(h[i - 1], items[i])
    <2>1. \A i \in 1..n : i - 1 \in 0..n
        BY <1>1
    <2>. HIDE DEF n
    <2>. QED  BY <1>8, <2>1
<1>10. n \in 0..n
    BY <1>1
<1>. QED  BY <1>1, <1>3, <1>8, <1>9, <1>10

(***************************************************************************)
(* The configuration as it grows                                           *)
(***************************************************************************)
Devs == [ name : STRING, plugs : Seq(PlugRecs), hardwired : BOOLEAN, scripts : SUBSET STRING ]

(* The plug of a node, of the device and of the name its line gives.       *)
HasItsPlugs(devs, s) ==
    /\ named(devs, s.device) # {}
    /\ \A k \in DOMAIN s.nodes : \E nm \in STRING :
         /\ << s.nodes[k], nm >> \in PairsOf(devs[first_of(named(devs, s.device))].plugs)
         /\ s.plugs # Omitted => nm = s.plugs[k]

(* What holds of the devices, the nodes and the node lines read so far: no *)
(* node is twice on a device or on two of them, the nodes are those of the *)
(* lines, and the lines' nodes have their plugs.                           *)
Placed(devs, nodes, lines) ==
    /\ \A d \in DOMAIN devs : OneEach(devs[d].plugs)
    /\ \A d, e \in DOMAIN devs : \A n \in OnPlugs(devs[d].plugs) : n \in OnPlugs(devs[e].plugs) => d = e
    /\ \A n : n \in ToSet(nodes) <=> \E d \in DOMAIN devs : n \in OnPlugs(devs[d].plugs)
    /\ ToSet(nodes) = UNION { ToSet(s.nodes) : s \in lines }
    /\ \A s \in lines : HasItsPlugs(devs, s)

(* There is one first place.                                               *)
LEMMA FirstIs ==
    ASSUME NEW where \in SUBSET Int, NEW i \in where, \A j \in where : i <= j
    PROVE  first_of(where) = i
<1>1. \A k \in where : (\A j \in where : k <= j) => k = i
    BY SMT
<1>. QED  BY <1>1 DEF first_of

(* The first device of a name stays the first.                             *)
LEMMA StaysFirst ==
    ASSUME NEW devs \in Seq(Devs), NEW c \in Devs, NEW name, named(devs, name) # {}
    PROVE  /\ named(Append(devs, c), name) # {}
           /\ first_of(named(Append(devs, c), name)) = first_of(named(devs, name))
           /\ first_of(named(devs, name)) \in DOMAIN devs
<1>. DEFINE new == Append(devs, c)
            where  == named(devs, name)
            i   == first_of(where)
<1>1. /\ DOMAIN devs = 1..Len(devs) /\ Len(devs) \in Nat /\ DOMAIN new = 1..Len(devs) + 1
      /\ \A j \in 1..Len(devs) : new[j] = devs[j]
    OBVIOUS
<1>2. where \in SUBSET (1..Len(devs)) /\ where # {}
    BY <1>1 DEF named
<1>3. i \in where /\ \A j \in where : i <= j
    <2>. HIDE DEF where
    <2>. QED  BY <1>1, <1>2, FirstOf
<1>. HIDE DEF i, new
<1>4. i \in named(new, name) /\ i \in 1..Len(devs)
    BY <1>1, <1>2, <1>3 DEF named
<1>5. \A j \in named(new, name) : i <= j /\ j \in Int
    <2>1. ASSUME NEW j \in named(new, name) PROVE i <= j /\ j \in Int
        <3>1. j \in 1..Len(devs) + 1 /\ (j \in 1..Len(devs) => j \in where)
            BY <1>1, <2>1 DEF named
        <3>2. CASE j \in 1..Len(devs)
            BY <1>3, <3>1, <3>2
        <3>3. CASE j \notin 1..Len(devs)
            <4>. HIDE DEF where
            <4>. QED  BY <1>1, <1>4, <3>1, <3>3
        <3>. QED  BY <3>2, <3>3
    <2>. QED  BY <2>1
<1>6. first_of(named(new, name)) = i
    BY <1>4, <1>5, FirstIs
<1>. QED  BY <1>1, <1>4, <1>6 DEF i, new

(* A device is added, and its plugs are free.                              *)
LEMMA PlacedDevice ==
    ASSUME NEW devs \in Seq(Devs), NEW c \in Devs, NEW nodes, NEW lines,
           OnPlugs(c.plugs) = {}, OneEach(c.plugs), Placed(devs, nodes, lines)
    PROVE  Placed(Append(devs, c), nodes, lines)
<1>. DEFINE new == Append(devs, c)
<1>1. /\ DOMAIN devs = 1..Len(devs) /\ Len(devs) \in Nat /\ DOMAIN new = 1..Len(devs) + 1
      /\ \A j \in 1..Len(devs) : new[j] = devs[j]
      /\ new[Len(devs) + 1] = c
    OBVIOUS
<1>2. \A s : HasItsPlugs(devs, s) => HasItsPlugs(new, s)
    <2>1. ASSUME NEW s, HasItsPlugs(devs, s)
          PROVE  HasItsPlugs(new, s)
        <3>1. /\ named(new, s.device) # {}
              /\ first_of(named(new, s.device)) = first_of(named(devs, s.device))
              /\ first_of(named(devs, s.device)) \in DOMAIN devs
            BY <2>1, StaysFirst DEF HasItsPlugs
        <3>. HIDE DEF new
        <3>2. new[first_of(named(new, s.device))] = devs[first_of(named(devs, s.device))]
            BY <1>1, <3>1
        <3>. QED  BY <2>1, <3>1, <3>2 DEF HasItsPlugs
    <2>. QED  BY <2>1
<1>. HIDE DEF new
<1>3. \A d \in DOMAIN new : new[d] = c \/ (d \in DOMAIN devs /\ new[d] = devs[d])
    BY <1>1
<1>4. \A d \in DOMAIN new : OneEach(new[d].plugs)
    BY <1>3 DEF Placed
<1>5. \A d, e \in DOMAIN new : \A n \in OnPlugs(new[d].plugs) : n \in OnPlugs(new[e].plugs) => d = e
    BY <1>3 DEF Placed
<1>6. \A n : n \in ToSet(nodes) <=> \E d \in DOMAIN new : n \in OnPlugs(new[d].plugs)
    <2>1. \A d \in DOMAIN devs : d \in DOMAIN new /\ new[d] = devs[d]
        BY <1>1
    <2>. QED  BY <1>3, <2>1 DEF Placed
<1>7. \A s \in lines : HasItsPlugs(new, s)
    BY <1>2 DEF Placed
<1>8. Placed(new, nodes, lines)
    BY <1>4, <1>5, <1>6, <1>7 DEF Placed
<1>. QED  BY <1>8 DEF new

(* The nodes of a line get their plugs, and are new to the configuration.  *)
LEMMA PlacedNodes ==
    ASSUME NEW devs \in Seq(Devs), NEW nodes, NEW lines, NEW s \in NodeLines, NEW q \in Seq(PlugRecs), NEW a,
           named(devs, s.device) # {},
           Placed(devs, nodes, lines),
           Places(devs[first_of(named(devs, s.device))].plugs, q, s.nodes, s.plugs, Len(s.nodes)),
           a.ok, News(nodes, a, s.nodes, Len(s.nodes))
    PROVE  Placed([ devs EXCEPT ![first_of(named(devs, s.device))].plugs = q ], a.nodes, lines \cup {s})
<1>. DEFINE d   == first_of(named(devs, s.device))
            c   == [ devs[d] EXCEPT !.plugs = q ]
            new == [ devs EXCEPT ![d].plugs = q ]
            p   == devs[d].plugs
            n   == Len(s.nodes)
            on  == { s.nodes[j] : j \in 1..n }
<1>1. d \in DOMAIN devs
    <2>1. DOMAIN devs = 1..Len(devs) /\ Len(devs) \in Nat
        OBVIOUS
    <2>2. named(devs, s.device) \in SUBSET (1..Len(devs))
        BY <2>1 DEF named
    <2>3. d \in named(devs, s.device)
        BY <2>1, <2>2, FirstOf
    <2>. QED  BY <2>1, <2>2, <2>3
<1>2. devs[d] \in Devs
    <2>. HIDE DEF d
    <2>. QED  BY <1>1
<1>3. c.plugs = q /\ c.name = devs[d].name
    <2>. HIDE DEF d
    <2>. QED  BY <1>2 DEF Devs
<1>4. new = [ devs EXCEPT ![d] = c ]
    BY <1>1
<1>5. DOMAIN new = DOMAIN devs /\ new[d] = c /\ \A e \in DOMAIN devs : e # d => new[e] = devs[e]
    <2>. HIDE DEF d, c, new
    <2>. QED  BY <1>1, <1>4
<1>6. s.nodes \in Seq(STRING \ {NoNode}) /\ DOMAIN s.nodes = 1..n /\ n \in Nat
    <2>1. s.nodes \in Seq(STRING \ {NoNode})
        BY ConfigAssumption
    <2>. QED  BY <2>1
<1>7. ToSet(s.nodes) = on
    BY <1>6 DEF ToSet
<1>. HIDE DEF d, c, new, p, on
<1>8. /\ PairsOf(p) \subseteq PairsOf(q) /\ OnPlugs(q) = OnPlugs(p) \cup on
      /\ \A j \in 1..n : \E nm \in STRING :
           << s.nodes[j], nm >> \in PairsOf(q) /\ (s.plugs # Omitted => nm = s.plugs[j])
    <2>1. Places(p, q, s.nodes, s.plugs, n)
        BY DEF p, d
    <2>. QED  BY <2>1 DEF Places, on
<1>9. /\ ToSet(a.nodes) = ToSet(nodes) \cup on
      /\ \A x \in on : x \notin ToSet(nodes)
      /\ \A i, j \in 1..n : s.nodes[i] = s.nodes[j] => i = j
    BY DEF News, on
<1>10. \A e \in DOMAIN devs : \A x \in on : x \notin OnPlugs(devs[e].plugs)
    BY <1>9 DEF Placed
<1>11. OneEach(q)
    <2>1. Places(p, q, s.nodes, s.plugs, n)
        BY DEF p, d
    <2>2. OneEach(p)
        BY <1>1 DEF Placed, p
    <2>3. \A j \in 1..n : s.nodes[j] \notin OnPlugs(p)
        BY <1>1, <1>10 DEF p, on
    <2>. QED  BY <1>9, <2>1, <2>2, <2>3 DEF Places
<1>12. \A e \in DOMAIN new : /\ (e = d => new[e].plugs = q)
                             /\ (e # d => e \in DOMAIN devs /\ new[e].plugs = devs[e].plugs)
    BY <1>3, <1>5
<1>13. \A e \in DOMAIN new : OneEach(new[e].plugs)
    BY <1>11, <1>12 DEF Placed
<1>14. ASSUME NEW e \in DOMAIN new, NEW f \in DOMAIN new, NEW x \in OnPlugs(new[e].plugs), x \in OnPlugs(new[f].plugs)
       PROVE  e = f
    <2>1. \A e1, f1 \in DOMAIN devs : \A y \in OnPlugs(devs[e1].plugs) : y \in OnPlugs(devs[f1].plugs) => e1 = f1
        BY DEF Placed
    <2>2. CASE e = d /\ f # d
        <3>1. x \in OnPlugs(devs[f].plugs) /\ f \in DOMAIN devs
            BY <1>12, <1>14, <2>2
        <3>2. x \in OnPlugs(p)
            BY <1>8, <1>10, <1>12, <1>14, <2>2, <3>1
        <3>. QED  BY <1>1, <2>1, <2>2, <3>1, <3>2 DEF p
    <2>3. CASE f = d /\ e # d
        <3>1. x \in OnPlugs(devs[e].plugs) /\ e \in DOMAIN devs
            BY <1>12, <1>14, <2>3
        <3>2. x \in OnPlugs(p)
            BY <1>8, <1>10, <1>12, <1>14, <2>3, <3>1
        <3>. QED  BY <1>1, <2>1, <2>3, <3>1, <3>2 DEF p
    <2>4. CASE e # d /\ f # d
        BY <1>12, <1>14, <2>1, <2>4
    <2>. QED  BY <2>2, <2>3, <2>4
<1>15. ASSUME NEW x
       PROVE  x \in ToSet(a.nodes) <=> \E e \in DOMAIN new : x \in OnPlugs(new[e].plugs)
    <2>1. x \in ToSet(nodes) <=> \E e \in DOMAIN devs : x \in OnPlugs(devs[e].plugs)
        BY DEF Placed
    <2>2. ASSUME x \in ToSet(a.nodes)
          PROVE  \E e \in DOMAIN new : x \in OnPlugs(new[e].plugs)
        <3>1. CASE x \in on
            BY <1>1, <1>5, <1>8, <1>12, <3>1
        <3>2. CASE x \in ToSet(nodes)
            <4>1. PICK e \in DOMAIN devs : x \in OnPlugs(devs[e].plugs)
                BY <2>1, <3>2
            <4>2. CASE e = d
                BY <1>5, <1>8, <1>12, <4>1, <4>2 DEF p
            <4>3. CASE e # d
                BY <1>5, <1>12, <4>1, <4>3
            <4>. QED  BY <4>2, <4>3
        <3>. QED  BY <1>9, <2>2, <3>1, <3>2
    <2>3. ASSUME NEW e \in DOMAIN new, x \in OnPlugs(new[e].plugs)
          PROVE  x \in ToSet(a.nodes)
        <3>1. CASE e = d
            <4>1. x \in on \/ x \in OnPlugs(devs[d].plugs)
                BY <1>8, <1>12, <2>3, <3>1 DEF p
            <4>. QED  BY <1>1, <1>9, <2>1, <4>1
        <3>2. CASE e # d
            BY <1>9, <1>12, <2>1, <2>3, <3>2
        <3>. QED  BY <3>1, <3>2
    <2>. QED  BY <2>2, <2>3
<1>16. ToSet(a.nodes) = UNION { ToSet(l.nodes) : l \in lines \cup {s} }
    <2>1. ToSet(nodes) = UNION { ToSet(l.nodes) : l \in lines }
        BY DEF Placed
    <2>. QED  BY <1>7, <1>9, <2>1
<1>17. \A x : named(new, x) = named(devs, x)
    <2>1. \A e \in DOMAIN devs : new[e].name = devs[e].name
        BY <1>3, <1>5
    <2>. QED  BY <1>5, <2>1 DEF named
<1>18. ASSUME NEW e \in DOMAIN devs
       PROVE  PairsOf(devs[e].plugs) \subseteq PairsOf(new[e].plugs)
    BY <1>5, <1>8, <1>12 DEF p
<1>19. ASSUME NEW l \in lines
       PROVE  HasItsPlugs(new, l)
    <2>1. HasItsPlugs(devs, l)
        BY DEF Placed
    <2>. DEFINE e == first_of(named(devs, l.device))
    <2>2. e \in DOMAIN devs
        <3>1. DOMAIN devs = 1..Len(devs) /\ Len(devs) \in Nat
            OBVIOUS
        <3>2. named(devs, l.device) \in SUBSET (1..Len(devs)) /\ named(devs, l.device) # {}
            BY <2>1, <3>1 DEF named, HasItsPlugs
        <3>3. e \in named(devs, l.device)
            BY <3>1, <3>2, FirstOf
        <3>. QED  BY <3>1, <3>2, <3>3
    <2>3. first_of(named(new, l.device)) = e /\ named(new, l.device) # {}
        BY <1>17, <2>1 DEF HasItsPlugs
    <2>4. \A k \in DOMAIN l.nodes : \E nm \in STRING :
             << l.nodes[k], nm >> \in PairsOf(devs[e].plugs) /\ (l.plugs # Omitted => nm = l.plugs[k])
        BY <2>1 DEF HasItsPlugs
    <2>. HIDE DEF e
    <2>5. PairsOf(devs[e].plugs) \subseteq PairsOf(new[e].plugs)
        BY <1>18, <2>2
    <2>6. \A k \in DOMAIN l.nodes : \E nm \in STRING :
             << l.nodes[k], nm >> \in PairsOf(new[e].plugs) /\ (l.plugs # Omitted => nm = l.plugs[k])
        BY <2>4, <2>5
    <2>. QED  BY <2>3, <2>6 DEF HasItsPlugs
<1>20. HasItsPlugs(new, s)
    <2>1. first_of(named(new, s.device)) = d /\ named(new, s.device) # {}
        BY <1>17 DEF d
    <2>2. new[d].plugs = q
        BY <1>3, <1>5
    <2>. QED  BY <1>6, <1>8, <2>1, <2>2 DEF HasItsPlugs
<1>21. Placed(new, a.nodes, lines \cup {s})
    BY <1>13, <1>14, <1>15, <1>16, <1>19, <1>20 DEF Placed
<1>. QED  BY <1>21 DEF new, d

(***************************************************************************)
(* The file                                                                *)
(***************************************************************************)
Stmts == SpecTexts \cup DeviceLines \cup NodeLines \cup AliasLines \cup ListenLines
Kinds == { "spec", "device", "node", "alias", "listen" }

(* One more statement is read.                                             *)
LEMMA ReadOne ==
    ASSUME NEW f \in Seq([ kind : Kinds, stmt : Stmts ]), NEW g, NEW kind \in Kinds, NEW s \in Stmts,
           g = Append(f, [ kind |-> kind, stmt |-> s ])
    PROVE  /\ g \in Seq([ kind : Kinds, stmt : Stmts ])
           /\ LET lines(h) == { h[i].stmt : i \in { k \in DOMAIN h : h[k].kind = "node" } }
              IN  lines(g) = IF kind = "node" THEN lines(f) \cup {s} ELSE lines(f)
<1>. DEFINE r == [ kind |-> kind, stmt |-> s ]
<1>1. r \in [ kind : Kinds, stmt : Stmts ] /\ r.kind = kind /\ r.stmt = s
    OBVIOUS
<1>. HIDE DEF r
<1>2. /\ DOMAIN f = 1..Len(f) /\ Len(f) \in Nat /\ DOMAIN g = 1..Len(f) + 1 /\ g[Len(f) + 1] = r
      /\ \A j \in 1..Len(f) : g[j] = f[j]
      /\ g \in Seq([ kind : Kinds, stmt : Stmts ])
    BY <1>1 DEF r
<1>3. \A j \in DOMAIN g : (j \in DOMAIN f /\ g[j] = f[j]) \/ g[j] = r
    BY <1>2
<1>4. /\ \A j \in DOMAIN f : j \in DOMAIN g /\ g[j] = f[j]
      /\ \E j \in DOMAIN g : g[j] = r
    BY <1>2
<1>. QED  BY <1>1, <1>2, <1>3, <1>4

ConfigTypeOK ==
    /\ current_spec \in Specs /\ device_specs \in Seq(Specs) /\ devices \in Seq(Devs)
    /\ conf_nodes \in Seq(STRING) /\ file \in Seq([ kind : Kinds, stmt : Stmts ])
    /\ \A s \in read("node") : s \in NodeLines

(* An error ends the daemon: nothing is promised of what it has read.      *)
ConfigInv ==
    /\ ConfigTypeOK
    /\ status \in { "parsing", "valid" } => Placed(devices, conf_nodes, read("node"))

(* The cleared specification is one.                                      *)
LEMMA ClearTyped == ClearSpec \in Specs
<1>1. << >> \in Seq(STRING)
    OBVIOUS
<1>. QED  BY <1>1 DEF ClearSpec, Specs

(* The parser starts with nothing placed.                                 *)
LEMMA ConfigStarts == ConfigInit => ConfigInv
<1>. SUFFICES ASSUME ConfigInit PROVE ConfigInv
    OBVIOUS
<1>1. /\ current_spec = ClearSpec /\ device_specs = << >> /\ devices = << >> /\ conf_nodes = << >> /\ file = << >>
    BY DEF ConfigInit
<1>2. read("node") = {}
    BY <1>1 DEF read
<1>3. DOMAIN << >> = {}
    OBVIOUS
<1>4. ToSet(conf_nodes) = {}
    BY <1>1, <1>3 DEF ToSet
<1>5. Placed(devices, conf_nodes, read("node"))
    BY <1>1, <1>2, <1>3, <1>4 DEF Placed
<1>. QED  BY <1>1, <1>2, <1>5, ClearTyped DEF ConfigInv, ConfigTypeOK

(* What is read is kept, whatever the statement does.                      *)
LEMMA ReadsKept ==
    ASSUME ConfigInv, NEW kind \in Kinds, NEW s \in Stmts, Reads(kind, s), kind = "node" => s \in NodeLines
    PROVE  /\ file' \in Seq([ kind : Kinds, stmt : Stmts ])
           /\ read("node")' = IF kind = "node" THEN read("node") \cup {s} ELSE read("node")
           /\ \A l \in read("node")' : l \in NodeLines
           /\ Placed(devices, conf_nodes, read("node"))
<1>1. file' = Append(file, [ kind |-> kind, stmt |-> s ]) /\ status = "parsing"
    BY DEF Reads
<1>2. file \in Seq([ kind : Kinds, stmt : Stmts ]) /\ \A l \in read("node") : l \in NodeLines
    BY DEF ConfigInv, ConfigTypeOK
<1>3. /\ file' \in Seq([ kind : Kinds, stmt : Stmts ])
      /\ read("node")' = IF kind = "node" THEN read("node") \cup {s} ELSE read("node")
    BY <1>1, <1>2, ReadOne DEF read
<1>4. Placed(devices, conf_nodes, read("node"))
    BY <1>1 DEF ConfigInv
<1>. QED  BY <1>2, <1>3, <1>4

(* A device gets plugs without nodes.                                      *)
LEMMA PlugsFree ==
    ASSUME NEW called \in Seq(STRING)
    PROVE  /\ pluglist_create(called) \in Seq(PlugRecs)
           /\ OnPlugs(pluglist_create(called)) = {} /\ OneEach(pluglist_create(called))
<1>1. NoNode \in STRING \cup {NoNode}
    OBVIOUS
<1>2. \A m \in STRING : Plug(m, NoNode) \in PlugRecs /\ Plug(m, NoNode).node = NoNode
    BY <1>1 DEF Plug, PlugRecs
<1>3. DOMAIN called = 1..Len(called) /\ Len(called) \in Nat /\ \A i \in DOMAIN called : called[i] \in STRING
    OBVIOUS
<1>. DEFINE p == pluglist_create(called)
<1>4. /\ DOMAIN p = 1..Len(called)
      /\ \A i \in DOMAIN p : p[i] \in PlugRecs /\ p[i].node = NoNode
    BY <1>2, <1>3 DEF pluglist_create
<1>5. p = [ i \in 1..Len(called) |-> p[i] ]
    BY <1>3 DEF pluglist_create
<1>. HIDE DEF p
<1>6. p \in Seq(PlugRecs)
    BY <1>3, <1>4, <1>5
<1>7. OnPlugs(p) = {} /\ OneEach(p)
    BY <1>4 DEF OnPlugs, OneEach
<1>. QED  BY <1>6, <1>7 DEF p

(* makeSpec places nothing.                                               *)
LEMMA SpecKeeps ==
    ASSUME ConfigInv, NEW s \in SpecTexts, makeSpec(s)
    PROVE  ConfigInv'
<1>. DEFINE folded == FoldLeft(spec_item, current_spec, s.items)
            spec   == [ folded EXCEPT !.name = s.name ]
<1>1. s.name \in STRING /\ s.items \in Seq(Items)
    BY ConfigAssumption DEF Items
<1>2. folded \in Specs
    BY <1>1, ItemsType DEF ConfigInv, ConfigTypeOK
<1>3. spec \in Specs
    <2>. HIDE DEF folded
    <2>. QED  BY <1>1, <1>2 DEF Specs
<1>4. Reads("spec", s) /\ UNCHANGED << devices, conf_nodes >> /\ "spec" \in Kinds /\ "spec" # "node" /\ s \in Stmts
    BY DEF makeSpec, Kinds, Stmts
<1>5. /\ file' \in Seq([ kind : Kinds, stmt : Stmts ])
      /\ read("node")' = read("node") /\ \A l \in read("node")' : l \in NodeLines
      /\ Placed(devices, conf_nodes, read("node"))
    BY <1>4, ReadsKept
<1>6. Placed(devices', conf_nodes', read("node")')
    BY <1>4, <1>5
<1>7. \/ UNCHANGED << current_spec, device_specs >>
      \/ device_specs' = Append(device_specs, spec) /\ current_spec' = ClearSpec
    BY DEF makeSpec, cleared
<1>. HIDE DEF spec
<1>8. current_spec' \in Specs /\ device_specs' \in Seq(Specs)
    <2>1. current_spec \in Specs /\ device_specs \in Seq(Specs)
        BY DEF ConfigInv, ConfigTypeOK
    <2>2. Append(device_specs, spec) \in Seq(Specs)
        BY <1>3, <2>1
    <2>. QED  BY <1>7, <2>1, <2>2, ClearTyped
<1>. QED  BY <1>4, <1>5, <1>6, <1>8 DEF ConfigInv, ConfigTypeOK

(* makeDevice creates a device whose plugs carry no node.                 *)
LEMMA DeviceKeeps ==
    ASSUME ConfigInv, NEW s \in DeviceLines, makeDevice(s)
    PROVE  ConfigInv'
<1>. DEFINE where   == named(device_specs, s.spec)
            spec == device_specs[first_of(where)]
            c    == [ name |-> s.name, plugs |-> pluglist_create(spec.plugs),
                      hardwired |-> spec.plugs # << >>, scripts |-> spec.scripts ]
<1>1. s.name \in STRING /\ device_specs \in Seq(Specs) /\ devices \in Seq(Devs)
    BY ConfigAssumption DEF ConfigInv, ConfigTypeOK
<1>2. Reads("device", s) /\ UNCHANGED << current_spec, device_specs, conf_nodes >>
      /\ "device" \in Kinds /\ "device" # "node" /\ s \in Stmts
    BY DEF makeDevice, Kinds, Stmts
<1>3. /\ file' \in Seq([ kind : Kinds, stmt : Stmts ])
      /\ read("node")' = read("node") /\ \A l \in read("node")' : l \in NodeLines
      /\ Placed(devices, conf_nodes, read("node"))
    BY <1>2, ReadsKept
<1>4. (UNCHANGED devices) \/ (where # {} /\ devices' = Append(devices, c))
    BY DEF makeDevice
<1>5. ASSUME where # {}
      PROVE  c \in Devs /\ OnPlugs(c.plugs) = {} /\ OneEach(c.plugs)
    <2>1. DOMAIN device_specs = 1..Len(device_specs) /\ Len(device_specs) \in Nat
        BY <1>1
    <2>2. where \in SUBSET (1..Len(device_specs))
        BY <2>1 DEF named
    <2>3. first_of(where) \in DOMAIN device_specs
        <3>. HIDE DEF where
        <3>. QED  BY <1>5, <2>1, <2>2, FirstOf
    <2>4. spec \in Specs
        <3>. HIDE DEF where
        <3>. QED  BY <1>1, <2>3
    <2>. HIDE DEF spec
    <2>5. spec.plugs \in Seq(STRING) /\ spec.scripts \in SUBSET STRING /\ (spec.plugs # << >>) \in BOOLEAN
        BY <2>4 DEF Specs
    <2>6. /\ pluglist_create(spec.plugs) \in Seq(PlugRecs)
          /\ OnPlugs(pluglist_create(spec.plugs)) = {} /\ OneEach(pluglist_create(spec.plugs))
        BY <2>5, PlugsFree
    <2>. QED  BY <1>1, <2>5, <2>6 DEF Devs
<1>. HIDE DEF c, where
<1>6. devices' \in Seq(Devs) /\ Placed(devices', conf_nodes, read("node"))
    <2>1. CASE UNCHANGED devices
        BY <1>1, <1>3, <2>1
    <2>2. CASE where # {} /\ devices' = Append(devices, c)
        <3>1. c \in Devs /\ OnPlugs(c.plugs) = {} /\ OneEach(c.plugs)
            BY <1>5, <2>2
        <3>2. Placed(Append(devices, c), conf_nodes, read("node"))
            BY <1>1, <1>3, <3>1, PlacedDevice
        <3>. QED  BY <1>1, <2>2, <3>1, <3>2
    <2>. QED  BY <1>4, <2>1, <2>2
<1>7. Placed(devices', conf_nodes', read("node")')
    BY <1>2, <1>3, <1>6
<1>. QED  BY <1>2, <1>3, <1>6, <1>7 DEF ConfigInv, ConfigTypeOK

(* makeNode puts the new nodes on plugs that were free, one each.         *)
LEMMA NodeKeeps ==
    ASSUME ConfigInv, NEW s \in NodeLines, makeNode(s)
    PROVE  ConfigInv'
<1>. DEFINE where    == named(devices, s.device)
            d     == first_of(where)
            m     == pluglist_map(devices[d].plugs, devices[d].hardwired, s.nodes, s.plugs)
            added == conf_addnodes(conf_nodes, s.nodes)
            new   == [ devices EXCEPT ![d].plugs = m.plugs ]
<1>1. /\ s.nodes \in Seq(STRING \ {NoNode}) /\ s.plugs \in Seq(STRING)
      /\ devices \in Seq(Devs) /\ conf_nodes \in Seq(STRING)
    BY ConfigAssumption DEF ConfigInv, ConfigTypeOK
<1>2. s.nodes \in Seq(STRING)
    BY <1>1
<1>3. Reads("node", s) /\ UNCHANGED << current_spec, device_specs >> /\ "node" \in Kinds /\ s \in Stmts
    BY DEF makeNode, Kinds, Stmts
<1>4. /\ file' \in Seq([ kind : Kinds, stmt : Stmts ])
      /\ read("node")' = read("node") \cup {s} /\ \A l \in read("node")' : l \in NodeLines
      /\ Placed(devices, conf_nodes, read("node"))
    BY <1>3, ReadsKept
<1>5. \/ where = {} /\ status' = "unknown device" /\ UNCHANGED << devices, conf_nodes >>
      \/ /\ where # {} /\ devices' = new
         /\ \/ m.res # "SUCCESS" /\ status' = m.res /\ UNCHANGED conf_nodes
            \/ /\ m.res = "SUCCESS" /\ conf_nodes' = added.nodes
               /\ added.ok \/ status' = "duplicate node name"
    BY DEF makeNode, Fails
<1>6. added \in Lists /\ News(conf_nodes, added, s.nodes, Len(s.nodes))
    BY <1>1, <1>2, AddAll
<1>7. ASSUME where # {}
      PROVE  d \in DOMAIN devices /\ devices[d] \in Devs
    <2>1. DOMAIN devices = 1..Len(devices) /\ Len(devices) \in Nat
        BY <1>1
    <2>2. where \in SUBSET (1..Len(devices))
        BY <2>1 DEF named
    <2>3. d \in DOMAIN devices
        <3>. HIDE DEF where
        <3>. QED  BY <1>7, <2>1, <2>2, FirstOf
    <2>. HIDE DEF d
    <2>. QED  BY <1>1, <2>3
<1>8. ASSUME where # {}
      PROVE  m \in Maps /\ (m.res = "SUCCESS" => Places(devices[d].plugs, m.plugs, s.nodes, s.plugs, Len(s.nodes)))
    <2>1. devices[d].plugs \in Seq(PlugRecs) /\ devices[d].hardwired \in BOOLEAN
        <3>. HIDE DEF d, where
        <3>. QED  BY <1>7, <1>8 DEF Devs
    <2>. HIDE DEF d, where
    <2>. QED  BY <1>1, <2>1, MapAll
<1>9. ASSUME where # {}
      PROVE  new \in Seq(Devs)
    <2>1. m.plugs \in Seq(PlugRecs)
        <3>. HIDE DEF m, where
        <3>. QED  BY <1>8, <1>9 DEF Maps
    <2>. DEFINE c == [ devices[d] EXCEPT !.plugs = m.plugs ]
    <2>. HIDE DEF m, d, where
    <2>2. c \in Devs
        BY <1>7, <1>9, <2>1 DEF Devs
    <2>3. new = [ devices EXCEPT ![d] = c ]
        BY <1>7, <1>9
    <2>4. d \in DOMAIN devices
        BY <1>7, <1>9
    <2>. HIDE DEF c, new
    <2>5. [ devices EXCEPT ![d] = c ] \in Seq(Devs)
        BY <1>1, <2>2, <2>4
    <2>. QED  BY <2>3, <2>5
<1>10. devices' \in Seq(Devs) /\ conf_nodes' \in Seq(STRING)
    <2>. HIDE DEF where, d, m, added, new
    <2>1. added.nodes \in Seq(STRING)
        BY <1>6 DEF Lists
    <2>. QED  BY <1>1, <1>5, <1>9, <2>1
<1>11. ASSUME status' \in { "parsing", "valid" }
       PROVE  Placed(devices', conf_nodes', read("node")')
    <2>1. /\ where # {} /\ devices' = new /\ m.res = "SUCCESS" /\ conf_nodes' = added.nodes /\ added.ok
        <3>. HIDE DEF where, d, m, added, new
        <3>1. where # {} => m.res \in Results
            BY <1>8 DEF Maps
        <3>2. CASE where = {} /\ status' = "unknown device"
            BY <1>11, <3>2
        <3>3. CASE where # {} /\ m.res # "SUCCESS" /\ status' = m.res
            BY <1>11, <3>1, <3>3 DEF Results
        <3>4. CASE where # {} /\ devices' = new /\ m.res = "SUCCESS" /\ conf_nodes' = added.nodes
                   /\ (added.ok \/ status' = "duplicate node name")
            BY <1>11, <3>4
        <3>. QED  BY <1>5, <3>2, <3>3, <3>4
    <2>2. Places(devices[d].plugs, m.plugs, s.nodes, s.plugs, Len(s.nodes)) /\ m.plugs \in Seq(PlugRecs)
        <3>. HIDE DEF where, d, m, added, new
        <3>. QED  BY <1>8, <2>1 DEF Maps
    <2>3. Placed(new, added.nodes, read("node") \cup {s})
        <3>. HIDE DEF m, added
        <3>. QED  BY <1>1, <1>4, <1>6, <2>1, <2>2, PlacedNodes
    <2>. HIDE DEF where, d, m, added, new
    <2>. QED  BY <1>4, <2>1, <2>3
<1>. HIDE DEF where, d, m, added, new
<1>12. current_spec' \in Specs /\ device_specs' \in Seq(Specs)
    BY <1>3 DEF ConfigInv, ConfigTypeOK
<1>. QED  BY <1>4, <1>10, <1>11, <1>12 DEF ConfigInv, ConfigTypeOK

(* The other statements leave devices and nodes alone.                     *)
LEMMA OthersKeep ==
    ASSUME ConfigInv, NEW kind \in { "alias", "listen" }, NEW s \in Stmts, Reads(kind, s),
           UNCHANGED << current_spec, device_specs, devices, conf_nodes >>
    PROVE  ConfigInv'
<1>1. kind \in Kinds /\ kind # "node"
    BY DEF Kinds
<1>2. /\ file' \in Seq([ kind : Kinds, stmt : Stmts ])
      /\ read("node")' = read("node") /\ \A l \in read("node")' : l \in NodeLines
      /\ Placed(devices, conf_nodes, read("node"))
    BY <1>1, ReadsKept
<1>3. Placed(devices', conf_nodes', read("node")')
    BY <1>2
<1>. QED  BY <1>2, <1>3 DEF ConfigInv, ConfigTypeOK

(* Every line of the file, and its end, keep the invariant.               *)
LEMMA ConfigKeeps == ConfigInv /\ [ConfigNext]_config_vars => ConfigInv'
<1>. SUFFICES ASSUME ConfigInv, [ConfigNext]_config_vars PROVE ConfigInv'
    OBVIOUS
<1>1. ASSUME NEW s \in SpecTexts, makeSpec(s) PROVE ConfigInv'
    BY <1>1, SpecKeeps
<1>2. ASSUME NEW s \in DeviceLines, makeDevice(s) PROVE ConfigInv'
    BY <1>2, DeviceKeeps
<1>3. ASSUME NEW s \in NodeLines, makeNode(s) PROVE ConfigInv'
    BY <1>3, NodeKeeps
<1>4. ASSUME NEW s \in AliasLines, makeAlias(s) PROVE ConfigInv'
    <2>1. Reads("alias", s) /\ UNCHANGED << current_spec, device_specs, devices, conf_nodes >> /\ s \in Stmts
        BY <1>4 DEF makeAlias, Stmts
    <2>. QED  BY <2>1, OthersKeep
<1>5. ASSUME NEW a \in ListenLines, conf_add_listen(a) PROVE ConfigInv'
    <2>1. Reads("listen", a) /\ UNCHANGED << current_spec, device_specs, devices, conf_nodes >> /\ a \in Stmts
        BY <1>5 DEF conf_add_listen, Stmts
    <2>. QED  BY <2>1, OthersKeep
<1>6. ASSUME status \in { "parsing", "valid" } \/ status' = status,
             UNCHANGED << current_spec, device_specs, devices, conf_nodes, file >>
      PROVE  ConfigInv'
    <2>1. read("node")' = read("node")
        BY <1>6 DEF read
    <2>2. status' \in { "parsing", "valid" } => Placed(devices', conf_nodes', read("node")')
        BY <1>6, <2>1 DEF ConfigInv
    <2>. QED  BY <1>6, <2>1, <2>2 DEF ConfigInv, ConfigTypeOK
<1>7. CASE validate_config
    BY <1>6, <1>7 DEF validate_config
<1>8. ASSUME NEW hl \in Requests, hostlist_create_validated(hl) PROVE ConfigInv'
    BY <1>6, <1>8 DEF hostlist_create_validated
<1>9. CASE UNCHANGED config_vars
    BY <1>6, <1>9 DEF config_vars
<1>. QED  BY <1>1, <1>2, <1>3, <1>4, <1>5, <1>7, <1>8, <1>9 DEF ConfigNext

(* What is placed is on one plug.                                          *)
LEMMA OnePlug ==
    ASSUME ConfigInv, status = "valid"
    PROVE  NodesOnOnePlug
<1>1. Placed(devices, conf_nodes, read("node")) /\ devices \in Seq(Devs) /\ \A s \in read("node") : s \in NodeLines
    BY DEF ConfigInv, ConfigTypeOK
<1>2. ASSUME NEW s \in read("node"), NEW k \in DOMAIN s.nodes
      PROVE  \E p \in places(s.nodes[k]) :
                /\ places(s.nodes[k]) = {p}
                /\ p[1] = first_of(named(devices, s.device))
                /\ s.plugs # Omitted => devices[p[1]].plugs[p[2]].name = s.plugs[k]
    <2>. DEFINE n == s.nodes[k]
                d == first_of(named(devices, s.device))
    <2>1. n # NoNode
        <3>1. s.nodes \in Seq(STRING \ {NoNode})
            BY <1>1, ConfigAssumption
        <3>. QED  BY <3>1
    <2>2. HasItsPlugs(devices, s)
        BY <1>1 DEF Placed
    <2>3. d \in DOMAIN devices
        <3>1. DOMAIN devices = 1..Len(devices) /\ Len(devices) \in Nat
            BY <1>1
        <3>2. named(devices, s.device) \in SUBSET (1..Len(devices)) /\ named(devices, s.device) # {}
            BY <2>2, <3>1 DEF named, HasItsPlugs
        <3>3. d \in named(devices, s.device)
            BY <3>1, <3>2, FirstOf
        <3>. QED  BY <3>1, <3>2, <3>3
    <2>4. PICK nm \in STRING : << n, nm >> \in PairsOf(devices[d].plugs) /\ (s.plugs # Omitted => nm = s.plugs[k])
        BY <2>2 DEF HasItsPlugs
    <2>. HIDE DEF d, n
    <2>5. PICK i \in DOMAIN devices[d].plugs : devices[d].plugs[i].node = n /\ devices[d].plugs[i].name = nm
        BY <2>4 DEF PairsOf
    <2>6. ASSUME NEW e \in DOMAIN devices, NEW j \in DOMAIN devices[e].plugs, devices[e].plugs[j].node = n
          PROVE  e = d /\ j = i
        <3>1. n \in OnPlugs(devices[e].plugs) /\ n \in OnPlugs(devices[d].plugs)
            BY <2>1, <2>5, <2>6 DEF OnPlugs
        <3>2. e = d
            BY <1>1, <2>3, <3>1 DEF Placed
        <3>3. OneEach(devices[d].plugs)
            BY <1>1, <2>3 DEF Placed
        <3>. QED  BY <2>1, <2>5, <2>6, <3>2, <3>3 DEF OneEach
    <2>. DEFINE p == << d, i >>
    <2>7. p \in places(n)
        BY <2>3, <2>5 DEF places
    <2>8. \A x \in places(n) : x = p
        BY <2>6 DEF places
    <2>9. p[1] = d /\ p[2] = i
        OBVIOUS
    <2>. HIDE DEF p
    <2>10. places(n) = {p} /\ (s.plugs # Omitted => devices[p[1]].plugs[p[2]].name = s.plugs[k])
        BY <2>4, <2>5, <2>7, <2>8, <2>9
    <2>. QED  BY <2>7, <2>9, <2>10 DEF n, d
<1>3. ToSet(conf_nodes) = UNION { ToSet(s.nodes) : s \in read("node") }
    BY <1>1 DEF Placed
<1>. DEFINE X == ToSet(conf_nodes)
            Y == UNION { { p.node : p \in ToSet(devices[d].plugs) } : d \in DOMAIN devices }
<1>4. X \cup {NoNode} = {NoNode} \cup Y
    <2>1. ASSUME NEW x, x # NoNode, NEW d \in DOMAIN devices
          PROVE  x \in OnPlugs(devices[d].plugs) <=> x \in { p.node : p \in ToSet(devices[d].plugs) }
        BY <2>1 DEF OnPlugs, ToSet
    <2>2. \A x : x \in ToSet(conf_nodes) <=> \E d \in DOMAIN devices : x \in OnPlugs(devices[d].plugs)
        BY <1>1 DEF Placed
    <2>3. \A x : x # NoNode => (x \in ToSet(conf_nodes) <=>
                                x \in UNION { { p.node : p \in ToSet(devices[d].plugs) } : d \in DOMAIN devices })
        BY <2>1, <2>2
    <2>4. \A x : x # NoNode => (x \in X <=> x \in Y)
        BY <2>3
    <2>. HIDE DEF X, Y
    <2>. QED  BY <2>4
<1>. QED  BY <1>2, <1>3, <1>4 DEF NodesOnOnePlug

(* Whatever a configuration file says: if it is accepted, every node has   *)
(* one plug, of the device its line names and of the name the line gives.  *)
THEOREM NodesAreOnOnePlug == ConfigSpec => []NodesOnOnePlug
<1>1. ConfigInv => NodesOnOnePlug
    <2>1. status # "valid" => NodesOnOnePlug
        BY DEF NodesOnOnePlug
    <2>. QED  BY <2>1, OnePlug
<1>. QED  BY <1>1, ConfigStarts, ConfigKeeps, PTL DEF ConfigSpec


(***************************************************************************)
(* The devices and their specifications                                    *)
(***************************************************************************)
(* The specification is what the items up to the k-th say.                 *)
SaysUpTo(spec, items, k) ==
    /\ spec.scripts = { items[j].com : j \in { i \in 1..k : items[i].kind = "script" } }
    /\ spec.plugs # << >> <=> \E j \in 1..k : items[j].kind = "plugs"
    /\ spec.plugs # << >> => \E j \in 1..k : items[j].kind = "plugs" /\ items[j].names = spec.plugs

(* One item more.                                                          *)
LEMMA SaysMore ==
    ASSUME NEW items \in Seq(Items), NEW k \in 0..Len(items) - 1, NEW spec \in Specs,
           spec.error \/ SaysUpTo(spec, items, k)
    PROVE  LET r == spec_item(spec, items[k + 1]) IN r.error \/ SaysUpTo(r, items, k + 1)
<1>. DEFINE item == items[k + 1]
            r == spec_item(spec, item)
<1>1. k + 1 \in 1..Len(items) /\ k \in Nat /\ k + 1 \in 1..k + 1 /\ k + 1 \notin 1..k
      /\ (\A j \in 1..k : j \in 1..k + 1) /\ \A j \in 1..k + 1 : j \in 1..k \/ j = k + 1
    OBVIOUS
<1>2. item \in Items
    BY <1>1
<1>. HIDE DEF item
<1>3. CASE spec.error
    <2>1. r = spec
        BY <1>3 DEF spec_item
    <2>. QED  BY <1>3, <2>1 DEF item
<1>4. CASE ~spec.error /\ item \in [ kind : {"plugs"}, names : Seq(STRING) \ {<< >>} ]
    <2>1. item.kind = "plugs" /\ item.names # << >>
        BY <1>4
    <2>2. r.error = (spec.error \/ spec.plugs # << >>) /\ r.plugs = item.names /\ r.scripts = spec.scripts
        BY <1>4, <2>1 DEF spec_item, Specs
    <2>3. { items[j].com : j \in { i \in 1..k + 1 : items[i].kind = "script" } } =
          { items[j].com : j \in { i \in 1..k : items[i].kind = "script" } }
        <3>1. { i \in 1..k + 1 : items[i].kind = "script" } = { i \in 1..k : items[i].kind = "script" }
            BY <1>1, <2>1 DEF item
        <3>. QED  BY <3>1
    <2>. HIDE DEF r
    <2>4. SUFFICES ASSUME ~r.error PROVE SaysUpTo(r, items, k + 1)
        BY DEF r, item
    <2>5. SaysUpTo(spec, items, k)
        BY <1>4
    <2>6. r.scripts = { items[j].com : j \in { i \in 1..k + 1 : items[i].kind = "script" } }
        BY <2>2, <2>3, <2>5 DEF SaysUpTo
    <2>7. \E j \in 1..k + 1 : items[j].kind = "plugs" /\ items[j].names = r.plugs
        BY <1>1, <2>1, <2>2 DEF item
    <2>. QED  BY <2>1, <2>2, <2>6, <2>7 DEF SaysUpTo
<1>5. CASE ~spec.error /\ item \in [ kind : {"script"}, com : STRING ]
    <2>1. item.kind = "script" /\ item.kind # "plugs"
        BY <1>5
    <2>2. r.plugs = spec.plugs /\ r.scripts = spec.scripts \cup {item.com}
        BY <1>5, <2>1 DEF spec_item, Specs
    <2>3. SaysUpTo(spec, items, k)
        BY <1>5
    <2>4. { items[j].com : j \in { i \in 1..k + 1 : items[i].kind = "script" } } =
          { items[j].com : j \in { i \in 1..k : items[i].kind = "script" } } \cup {item.com}
        <3>1. { i \in 1..k + 1 : items[i].kind = "script" } = { i \in 1..k : items[i].kind = "script" } \cup {k + 1}
            BY <1>1, <2>1 DEF item
        <3>. QED  BY <3>1 DEF item
    <2>. HIDE DEF r
    <2>5. r.scripts = { items[j].com : j \in { i \in 1..k + 1 : items[i].kind = "script" } }
        BY <2>2, <2>3, <2>4 DEF SaysUpTo
    <2>6. \A j \in 1..k + 1 : items[j].kind = "plugs" => j \in 1..k
        BY <1>1, <2>1 DEF item
    <2>7. r.plugs # << >> <=> \E j \in 1..k + 1 : items[j].kind = "plugs"
        BY <1>1, <2>2, <2>3, <2>6 DEF SaysUpTo
    <2>8. r.plugs # << >> => \E j \in 1..k + 1 : items[j].kind = "plugs" /\ items[j].names = r.plugs
        BY <1>1, <2>2, <2>3 DEF SaysUpTo
    <2>. QED  BY <2>5, <2>7, <2>8 DEF SaysUpTo, r, item
<1>. QED  BY <1>2, <1>3, <1>4, <1>5 DEF Items

(* The specification is what its items say.                                *)
Says(spec, items) ==
    /\ spec.scripts = { i.com : i \in { j \in ToSet(items) : j.kind = "script" } }
    /\ spec.plugs # << >> <=> \E i \in ToSet(items) : i.kind = "plugs"
    /\ spec.plugs # << >> => \E i \in ToSet(items) : i.kind = "plugs" /\ i.names = spec.plugs

(* All of them.                                                            *)
LEMMA ItemsSay ==
    ASSUME NEW items \in Seq(Items), ~FoldLeft(spec_item, ClearSpec, items).error
    PROVE  Says(FoldLeft(spec_item, ClearSpec, items), items)
<1>. DEFINE n == Len(items)
            f == FoldLeft(spec_item, ClearSpec, items)
<1>1. n \in Nat /\ DOMAIN items = 1..n
    OBVIOUS
<1>2. PICK h \in [0..n -> Specs] : h[0] = ClearSpec /\ h[n] = f /\ \A i \in 1..n : h[i] = spec_item(h[i - 1], items[i])
    BY ItemsType, ClearTyped
<1>. HIDE DEF f
<1>. DEFINE I == { k \in 0..n : h[k].error \/ SaysUpTo(h[k], items, k) }
<1>3. 0 \in I
    <2>1. 1..0 = {}
        OBVIOUS
    <2>2. ClearSpec.scripts = {} /\ ClearSpec.plugs = << >>
        BY DEF ClearSpec
    <2>3. SaysUpTo(ClearSpec, items, 0)
        BY <2>1, <2>2 DEF SaysUpTo
    <2>. QED  BY <1>1, <1>2, <2>3
<1>4. ASSUME NEW k \in 0..n - 1, k \in I
      PROVE  k + 1 \in I
    <2>1. k + 1 \in 1..n /\ (k + 1) - 1 = k /\ k + 1 \in 0..n /\ h[k] \in Specs
        BY <1>1
    <2>2. h[k + 1] = spec_item(h[k], items[k + 1])
        BY <1>2, <2>1
    <2>3. h[k + 1].error \/ SaysUpTo(h[k + 1], items, k + 1)
        <3>1. h[k].error \/ SaysUpTo(h[k], items, k)
            BY <1>4
        <3>. QED  BY <2>1, <2>2, <3>1, SaysMore
    <2>. QED  BY <2>1, <2>3
<1>5. n \in I
    <2>1. I \in SUBSET (0..n)
        OBVIOUS
    <2>. HIDE DEF I
    <2>2. I = 0..n
        BY <1>1, <1>3, <1>4, <2>1, UpTo
    <2>. QED  BY <1>1, <2>2
<1>6. SaysUpTo(f, items, n)
    BY <1>2, <1>5 DEF f
<1>7. ToSet(items) = { items[j] : j \in 1..n }
    BY <1>1 DEF ToSet
<1>8. { i.com : i \in { j \in ToSet(items) : j.kind = "script" } } =
      { items[j].com : j \in { i \in 1..n : items[i].kind = "script" } }
    BY <1>7
<1>9. Says(f, items)
    BY <1>6, <1>7, <1>8 DEF Says, SaysUpTo
<1>. QED  BY <1>9 DEF f

(* The statements of a kind, in the order of the file.                     *)
of_kind(f, kind) == elements_at(f, { k \in DOMAIN f : f[k].kind = kind })

(* One statement more.                                                     *)
LEMMA OfKindMore ==
    ASSUME NEW T, NEW f \in Seq(T), NEW r, NEW kind
    PROVE  of_kind(Append(f, r), kind) = IF r.kind = kind THEN Append(of_kind(f, kind), r) ELSE of_kind(f, kind)
<1>. DEFINE g == Append(f, r)
            n == Len(f)
            P == { k \in DOMAIN f : f[k].kind = kind }
            Q == { k \in DOMAIN g : g[k].kind = kind }
<1>1. n \in Nat /\ DOMAIN f = 1..n /\ DOMAIN g = 1..n + 1 /\ g[n + 1] = r /\ \A k \in 1..n : g[k] = f[k]
    OBVIOUS
<1>2. of_kind(f, kind) = elements_at(f, P) /\ of_kind(g, kind) = elements_at(g, Q)
    BY DEF of_kind
<1>. HIDE DEF g, n
<1>3. P \in SUBSET (1..n)
    BY <1>1
<1>4. Q = IF r.kind = kind THEN P \cup {n + 1} ELSE P
    <2>1. n + 1 \in 1..n + 1 /\ n + 1 \notin 1..n /\ (\A k \in 1..n : k \in 1..n + 1)
          /\ \A k \in 1..n + 1 : k \in 1..n \/ k = n + 1
        BY <1>1
    <2>2. \A k : k \in Q <=> k \in P \/ (r.kind = kind /\ k = n + 1)
        BY <1>1, <2>1
    <2>. HIDE DEF P, Q
    <2>. QED  BY <2>2
<1>. HIDE DEF P, Q
<1>5. Longer(f, g, n, P)
    BY <1>1, <1>3 DEF Longer
<1>6. /\ elements_at(g, P) = elements_at(f, P)
      /\ elements_at(g, P \cup {n + 1}) = Append(elements_at(f, P), g[n + 1])
    BY <1>5, ChoosesMore
<1>. QED  BY <1>1, <1>2, <1>4, <1>6 DEF g

(* The device is as the specification says.                                *)
Has(dev, spec) ==
    /\ dev.scripts = spec.scripts /\ (dev.hardwired <=> spec.plugs # << >>)
    /\ dev.hardwired => [ p \in DOMAIN dev.plugs |-> dev.plugs[p].name ] = spec.plugs

(* Each specification is as its text says, and each device as the first    *)
(* specification of the name its line gives.                               *)
FromTexts(specs, texts) ==
    /\ Len(specs) <= Len(texts)
    /\ \A i \in 1..Len(specs) : specs[i].name = texts[i].stmt.name /\ Says(specs[i], texts[i].stmt.items)

FromLines(devs, lines, specs) ==
    /\ Len(devs) <= Len(lines)
    /\ \A d \in 1..Len(devs) :
         /\ named(specs, lines[d].stmt.spec) # {}
         /\ Has(devs[d], specs[first_of(named(specs, lines[d].stmt.spec))])

SpecLines == [ kind : {"spec"}, stmt : SpecTexts ]
DevLines == [ kind : {"device"}, stmt : DeviceLines ]

(* The inductive invariant.  While the file is read each of its            *)
(* specifications and devices is there.                                    *)
MatchInv ==
    /\ statements("spec") \in Seq(SpecLines) /\ statements("device") \in Seq(DevLines)
    /\ FromTexts(device_specs, statements("spec"))
    /\ FromLines(devices, statements("device"), device_specs)
    /\ status = "parsing" =>
         /\ current_spec = ClearSpec /\ Len(device_specs) = Len(statements("spec"))
         /\ Len(devices) = Len(statements("device"))

(* A specification more, and a text more.                                  *)
LEMMA TextsMore ==
    ASSUME NEW specs \in Seq(Specs), NEW texts \in Seq(SpecLines), FromTexts(specs, texts), NEW t \in SpecLines
    PROVE  /\ FromTexts(specs, Append(texts, t))
           /\ \A spec : Len(specs) = Len(texts) /\ spec.name = t.stmt.name /\ Says(spec, t.stmt.items)
                => FromTexts(Append(specs, spec), Append(texts, t))
<1>. DEFINE n == Len(specs)
            u == Append(texts, t)
<1>1. n \in Nat /\ Len(texts) \in Nat /\ n <= Len(texts)
      /\ \A i \in 1..n : specs[i].name = texts[i].stmt.name /\ Says(specs[i], texts[i].stmt.items)
    BY DEF FromTexts
<1>2. Len(u) = Len(texts) + 1 /\ u[Len(texts) + 1] = t /\ \A i \in 1..Len(texts) : u[i] = texts[i]
    OBVIOUS
<1>. HIDE DEF u
<1>3. \A i \in 1..n : u[i] = texts[i]
    BY <1>1, <1>2
<1>4. FromTexts(specs, u)
    BY <1>1, <1>2, <1>3 DEF FromTexts
<1>5. ASSUME NEW spec, n = Len(texts), spec.name = t.stmt.name, Says(spec, t.stmt.items)
      PROVE  FromTexts(Append(specs, spec), u)
    <2>. DEFINE v == Append(specs, spec)
    <2>1. Len(v) = n + 1 /\ v[n + 1] = spec /\ \A i \in 1..n : v[i] = specs[i]
        OBVIOUS
    <2>. HIDE DEF v
    <2>2. \A i \in 1..n + 1 : i \in 1..n \/ i = n + 1
        BY <1>1
    <2>3. \A i \in 1..n + 1 : v[i].name = u[i].stmt.name /\ Says(v[i], u[i].stmt.items)
        BY <1>1, <1>2, <1>3, <1>5, <2>1, <2>2
    <2>4. Len(v) <= Len(u)
        BY <1>1, <1>2, <1>5, <2>1
    <2>5. FromTexts(v, u)
        BY <2>1, <2>3, <2>4 DEF FromTexts
    <2>. QED  BY <2>5 DEF v
<1>. QED  BY <1>4, <1>5 DEF u, n

(* What is first among places up to n is first whatever comes behind them. *)
LEMMA FirstStays ==
    ASSUME NEW n \in Nat, NEW where \in SUBSET (1..n), where # {}, NEW bt \in SUBSET (Nat \ {0}),
           \A k \in 1..n : k \in bt <=> k \in where
    PROVE  first_of(bt) = first_of(where) /\ first_of(where) \in where
<1>. DEFINE i == first_of(where)
<1>1. i \in where /\ \A j \in where : i <= j
    BY FirstOf
<1>. HIDE DEF i
<1>2. i \in bt /\ i \in 1..n
    BY <1>1
<1>3. \A j \in bt : i <= j
    <2>1. \A j \in bt : j \in Nat /\ j # 0 /\ (j \in 1..n \/ n < j)
        OBVIOUS
    <2>2. \A j \in bt : n < j => i <= j
        BY <1>2, <2>1
    <2>. QED  BY <1>1, <2>1, <2>2
<1>4. first_of(bt) = i
    BY <1>2, <1>3, FirstIs
<1>. QED  BY <1>1, <1>4 DEF i

(* The first specification of a name stays the first.                      *)
LEMMA SpecStaysFirst ==
    ASSUME NEW specs \in Seq(Specs), NEW spec \in Specs, NEW name, named(specs, name) # {}
    PROVE  /\ named(Append(specs, spec), name) # {}
           /\ first_of(named(Append(specs, spec), name)) = first_of(named(specs, name))
           /\ first_of(named(specs, name)) \in 1..Len(specs)
           /\ specs[first_of(named(specs, name))].name = name
           /\ Append(specs, spec)[first_of(named(specs, name))] = specs[first_of(named(specs, name))]
<1>. DEFINE v == Append(specs, spec)
            n == Len(specs)
            where == named(specs, name)
            bt == named(v, name)
<1>1. n \in Nat /\ DOMAIN specs = 1..n /\ DOMAIN v = 1..n + 1 /\ \A k \in 1..n : v[k] = specs[k]
    OBVIOUS
<1>. HIDE DEF v, n
<1>2. where \in SUBSET (1..n) /\ bt \in SUBSET (Nat \ {0}) /\ \A k \in 1..n : k \in bt <=> k \in where
    BY <1>1 DEF named
<1>3. \A k \in where : specs[k].name = name
    BY DEF named
<1>4. where # {}
    OBVIOUS
<1>. HIDE DEF where, bt
<1>5. first_of(bt) = first_of(where) /\ first_of(where) \in where
    BY <1>1, <1>2, <1>4, FirstStays
<1>6. first_of(where) \in bt /\ first_of(where) \in 1..n /\ bt # {}
    BY <1>2, <1>5
<1>. QED  BY <1>1, <1>3, <1>5, <1>6 DEF where, bt, n, v

(* A specification more, and a line more.                                  *)
LEMMA LinesMore ==
    ASSUME NEW devs \in Seq(Devs), NEW lines \in Seq(DevLines), NEW specs \in Seq(Specs),
           FromLines(devs, lines, specs)
    PROVE  /\ \A spec \in Specs : FromLines(devs, lines, Append(specs, spec))
           /\ \A l \in DevLines : FromLines(devs, Append(lines, l), specs)
           /\ \A l \in DevLines : \A c :
                /\ Len(devs) = Len(lines) /\ named(specs, l.stmt.spec) # {}
                /\ Has(c, specs[first_of(named(specs, l.stmt.spec))])
                => FromLines(Append(devs, c), Append(lines, l), specs)
<1>. DEFINE n == Len(devs)
            m == Len(lines)
            At(dev, l) == named(specs, l.stmt.spec) # {} /\ Has(dev, specs[first_of(named(specs, l.stmt.spec))])
<1>1. n \in Nat /\ m \in Nat /\ n <= m /\ \A d \in 1..n : At(devs[d], lines[d]) /\ d \in 1..m
    BY DEF FromLines
<1>2. ASSUME NEW spec \in Specs
      PROVE  FromLines(devs, lines, Append(specs, spec))
    <2>1. \A d \in 1..n : named(specs, lines[d].stmt.spec) # {} /\ Has(devs[d], specs[first_of(named(specs, lines[d].stmt.spec))])
        BY <1>1
    <2>2. \A name : named(specs, name) # {} =>
             /\ named(Append(specs, spec), name) # {}
             /\ Append(specs, spec)[first_of(named(Append(specs, spec), name))] = specs[first_of(named(specs, name))]
        BY SpecStaysFirst
    <2>. QED  BY <1>1, <2>1, <2>2 DEF FromLines
<1>3. ASSUME NEW l \in DevLines
      PROVE  /\ Len(Append(lines, l)) = m + 1 /\ Append(lines, l)[m + 1] = l
             /\ \A d \in 1..m : Append(lines, l)[d] = lines[d]
    OBVIOUS
<1>4. ASSUME NEW l \in DevLines
      PROVE  FromLines(devs, Append(lines, l), specs)
    <2>. DEFINE k == Append(lines, l)
    <2>1. Len(k) = m + 1 /\ \A d \in 1..m : k[d] = lines[d]
        BY <1>3
    <2>. HIDE DEF k
    <2>2. \A d \in 1..n : At(devs[d], k[d])
        BY <1>1, <2>1
    <2>3. n <= Len(k)
        BY <1>1, <2>1
    <2>4. FromLines(devs, k, specs)
        BY <2>2, <2>3 DEF FromLines
    <2>. QED  BY <2>4 DEF k
<1>5. ASSUME NEW l \in DevLines, NEW c, n = m, At(c, l)
      PROVE  FromLines(Append(devs, c), Append(lines, l), specs)
    <2>. DEFINE k == Append(lines, l)
                e == Append(devs, c)
    <2>1. Len(k) = m + 1 /\ k[m + 1] = l /\ \A d \in 1..m : k[d] = lines[d]
        BY <1>3
    <2>2. Len(e) = n + 1 /\ e[n + 1] = c /\ \A d \in 1..n : e[d] = devs[d]
        OBVIOUS
    <2>. HIDE DEF k, e
    <2>3. \A d \in 1..n + 1 : d \in 1..n \/ d = n + 1
        BY <1>1
    <2>. HIDE DEF At
    <2>4. \A d \in 1..n + 1 : At(e[d], k[d])
        BY <1>1, <1>5, <2>1, <2>2, <2>3
    <2>5. Len(e) <= Len(k) /\ Len(e) = n + 1
        BY <1>1, <1>5, <2>1, <2>2
    <2>6. FromLines(e, k, specs)
        BY <2>4, <2>5 DEF FromLines, At
    <2>. QED  BY <2>6 DEF k, e
<1>. QED  BY <1>2, <1>4, <1>5 DEF n, m

(* The mapping of nodes leaves a device as its specification says.         *)
LEMMA HasStays ==
    ASSUME NEW dev \in Devs, NEW spec, Has(dev, spec), NEW p, dev.hardwired => SameNames(dev.plugs, p)
    PROVE  Has([ dev EXCEPT !.plugs = p ], spec)
<1>. DEFINE e == [ dev EXCEPT !.plugs = p ]
<1>1. e.scripts = dev.scripts /\ e.hardwired = dev.hardwired /\ e.plugs = p
    BY DEF Devs
<1>. HIDE DEF e
<1>2. ASSUME dev.hardwired
      PROVE  [ i \in DOMAIN e.plugs |-> e.plugs[i].name ] = spec.plugs
    <2>1. DOMAIN p = DOMAIN dev.plugs /\ \A i \in DOMAIN p : p[i].name = dev.plugs[i].name
        BY <1>2 DEF SameNames
    <2>2. [ i \in DOMAIN dev.plugs |-> dev.plugs[i].name ] = spec.plugs
        BY <1>2 DEF Has
    <2>. QED  BY <1>1, <2>1, <2>2
<1>3. Has(e, spec)
    BY <1>1, <1>2 DEF Has
<1>. QED  BY <1>3 DEF e

(* Statements of other kinds.                                              *)
LEMMA StatementRead ==
    ASSUME ConfigTypeOK, NEW kind \in Kinds, NEW s \in Stmts, Reads(kind, s)
    PROVE  /\ status = "parsing"
           /\ \A k : statements(k)' = IF k = kind THEN Append(statements(k), [ kind |-> kind, stmt |-> s ])
                                      ELSE statements(k)
<1>. DEFINE r == [ kind |-> kind, stmt |-> s ]
<1>1. file' = Append(file, r) /\ status = "parsing" /\ file \in Seq([ kind : Kinds, stmt : Stmts ])
    BY DEF Reads, ConfigTypeOK
<1>2. ASSUME NEW k
      PROVE  statements(k)' = IF k = kind THEN Append(statements(k), r) ELSE statements(k)
    <2>1. statements(k) = of_kind(file, k) /\ statements(k)' = of_kind(file', k)
        BY DEF statements, of_kind
    <2>2. r.kind = kind
        OBVIOUS
    <2>. HIDE DEF r
    <2>3. of_kind(Append(file, r), k) = IF r.kind = k THEN Append(of_kind(file, k), r) ELSE of_kind(file, k)
        BY <1>1, OfKindMore
    <2>. QED  BY <1>1, <2>1, <2>2, <2>3
<1>. QED  BY <1>1, <1>2

(* makeSpec: the specification is what its text says, since nothing was    *)
(* left of the one before.                                                 *)
LEMMA SpecMatches ==
    ASSUME ConfigInv, MatchInv, NEW s \in SpecTexts, makeSpec(s)
    PROVE  MatchInv'
<1>. DEFINE folded == FoldLeft(spec_item, current_spec, s.items)
            spec   == [ folded EXCEPT !.name = s.name ]
            t      == [ kind |-> "spec", stmt |-> s ]
            texts  == statements("spec")
            lines  == statements("device")
<1>1. s.name \in STRING /\ s.items \in Seq(Items)
    BY ConfigAssumption DEF Items
<1>2. ConfigTypeOK /\ Reads("spec", s) /\ "spec" \in Kinds /\ s \in Stmts /\ UNCHANGED devices
    BY DEF makeSpec, Kinds, Stmts, ConfigInv
<1>3. status = "parsing" /\ texts' = Append(texts, t) /\ lines' = lines
    BY <1>2, StatementRead
<1>4. /\ texts \in Seq(SpecLines) /\ lines \in Seq(DevLines)
      /\ FromTexts(device_specs, texts) /\ FromLines(devices, lines, device_specs)
      /\ current_spec = ClearSpec /\ Len(device_specs) = Len(texts) /\ Len(devices) = Len(lines)
      /\ device_specs \in Seq(Specs) /\ devices \in Seq(Devs)
    BY <1>2, <1>3 DEF MatchInv, ConfigTypeOK
<1>5. t \in SpecLines /\ t.stmt = s
    BY DEF SpecLines
<1>6. folded \in Specs
    BY <1>1, <1>4, ItemsType, ClearTyped
<1>7. /\ spec.name = s.name /\ spec \in Specs
      /\ spec.error = folded.error /\ spec.scripts = folded.scripts /\ spec.plugs = folded.plugs
    <2>. HIDE DEF folded
    <2>. QED  BY <1>1, <1>6 DEF Specs
<1>8. ~spec.error => Says(spec, s.items)
    <2>1. ~folded.error => Says(folded, s.items)
        BY <1>1, <1>4, ItemsSay
    <2>. HIDE DEF folded, spec
    <2>. QED  BY <1>7, <2>1 DEF Says
<1>9. \/ spec.error /\ status' = "duplicate in specification" /\ UNCHANGED device_specs
      \/ ~spec.error /\ device_specs' = Append(device_specs, spec) /\ current_spec' = ClearSpec
    BY DEF makeSpec, Fails, cleared
<1>. HIDE DEF folded, spec, t, texts, lines
<1>10. Append(texts, t) \in Seq(SpecLines) /\ Len(Append(texts, t)) = Len(texts) + 1
    BY <1>4, <1>5
<1>11. CASE spec.error /\ status' = "duplicate in specification" /\ UNCHANGED device_specs
    <2>1. FromTexts(device_specs, Append(texts, t))
        BY <1>4, <1>5, TextsMore
    <2>. QED  BY <1>2, <1>3, <1>4, <1>10, <1>11, <2>1 DEF MatchInv, texts, lines
<1>12. CASE ~spec.error /\ device_specs' = Append(device_specs, spec) /\ current_spec' = ClearSpec
    <2>1. FromTexts(Append(device_specs, spec), Append(texts, t))
        BY <1>4, <1>5, <1>7, <1>8, <1>12, TextsMore
    <2>2. FromLines(devices, lines, Append(device_specs, spec))
        BY <1>4, <1>7, LinesMore
    <2>3. Len(Append(device_specs, spec)) = Len(device_specs) + 1
        BY <1>4
    <2>. QED  BY <1>2, <1>3, <1>4, <1>10, <1>12, <2>1, <2>2, <2>3 DEF MatchInv, texts, lines
<1>. QED  BY <1>9, <1>11, <1>12

(* makeDevice: the device is what the first specification of the name      *)
(* says.                                                                   *)
LEMMA DeviceMatches ==
    ASSUME ConfigInv, MatchInv, NEW s \in DeviceLines, makeDevice(s)
    PROVE  MatchInv'
<1>. DEFINE where    == named(device_specs, s.spec)
            spec  == device_specs[first_of(where)]
            p     == pluglist_create(spec.plugs)
            c     == [ name |-> s.name, plugs |-> p, hardwired |-> spec.plugs # << >>, scripts |-> spec.scripts ]
            l     == [ kind |-> "device", stmt |-> s ]
            texts == statements("spec")
            lines == statements("device")
<1>2. ConfigTypeOK /\ Reads("device", s) /\ "device" \in Kinds /\ s \in Stmts
      /\ UNCHANGED << current_spec, device_specs >>
    BY DEF makeDevice, Kinds, Stmts, ConfigInv
<1>3. status = "parsing" /\ texts' = texts /\ lines' = Append(lines, l)
    BY <1>2, StatementRead
<1>4. /\ texts \in Seq(SpecLines) /\ lines \in Seq(DevLines)
      /\ FromTexts(device_specs, texts) /\ FromLines(devices, lines, device_specs)
      /\ current_spec = ClearSpec /\ Len(device_specs) = Len(texts) /\ Len(devices) = Len(lines)
      /\ device_specs \in Seq(Specs) /\ devices \in Seq(Devs)
    BY <1>2, <1>3 DEF MatchInv, ConfigTypeOK
<1>5. l \in DevLines /\ l.stmt = s
    BY DEF DevLines
<1>6. \/ where = {} /\ status' = "device specification not found" /\ UNCHANGED devices
      \/ where # {} /\ devices' = Append(devices, c)
    BY DEF makeDevice, Fails
<1>7. where # {} => Has(c, spec)
    <2>1. c.scripts = spec.scripts /\ (c.hardwired <=> spec.plugs # << >>) /\ c.plugs = p
        OBVIOUS
    <2>2. ASSUME where # {}
          PROVE  [ i \in DOMAIN p |-> p[i].name ] = spec.plugs
        <3>1. spec \in Specs
            <4>1. first_of(where) \in 1..Len(device_specs)
                <5>1. where \in SUBSET (1..Len(device_specs)) /\ Len(device_specs) \in Nat
                    BY <1>4 DEF named
                <5>. HIDE DEF where
                <5>. QED  BY <2>2, <5>1, FirstOf
            <4>. HIDE DEF where
            <4>. QED  BY <1>4, <4>1
        <3>. DEFINE q == spec.plugs
        <3>2. q \in Seq(STRING)
            <4>. HIDE DEF spec
            <4>. QED  BY <3>1 DEF Specs
        <3>. HIDE DEF spec, q
        <3>3. DOMAIN p = DOMAIN q /\ \A i \in DOMAIN q : p[i].name = q[i]
            BY DEF pluglist_create, Plug, q
        <3>. HIDE DEF p
        <3>4. [ i \in DOMAIN p |-> p[i].name ] = [ i \in DOMAIN q |-> q[i] ]
            BY <3>3
        <3>5. [ i \in DOMAIN q |-> q[i] ] = q
            BY <3>2
        <3>. QED  BY <3>4, <3>5 DEF q
    <2>. HIDE DEF c, p, spec, where
    <2>. QED  BY <2>1, <2>2 DEF Has
<1>. HIDE DEF c, p, l, texts, lines
<1>8. Append(lines, l) \in Seq(DevLines) /\ Len(Append(lines, l)) = Len(lines) + 1
    BY <1>4, <1>5
<1>9. CASE where = {} /\ status' = "device specification not found" /\ UNCHANGED devices
    <2>1. FromLines(devices, Append(lines, l), device_specs)
        BY <1>4, <1>5, LinesMore
    <2>. QED  BY <1>2, <1>3, <1>4, <1>8, <1>9, <2>1 DEF MatchInv, texts, lines
<1>10. CASE where # {} /\ devices' = Append(devices, c)
    <2>1. FromLines(Append(devices, c), Append(lines, l), device_specs)
        BY <1>4, <1>5, <1>7, <1>10, LinesMore
    <2>2. Len(Append(devices, c)) = Len(devices) + 1
        BY <1>4
    <2>. QED  BY <1>2, <1>3, <1>4, <1>8, <1>10, <2>1, <2>2 DEF MatchInv, texts, lines
<1>. QED  BY <1>6, <1>9, <1>10

(* makeNode maps nodes to plugs, and no plug of a hardwired device gets    *)
(* another name.                                                           *)
LEMMA NodeMatches ==
    ASSUME ConfigInv, MatchInv, NEW s \in NodeLines, makeNode(s)
    PROVE  MatchInv'
<1>. DEFINE where    == named(devices, s.device)
            d     == first_of(where)
            m     == pluglist_map(devices[d].plugs, devices[d].hardwired, s.nodes, s.plugs)
            new   == [ devices EXCEPT ![d].plugs = m.plugs ]
            c     == [ devices[d] EXCEPT !.plugs = m.plugs ]
            texts == statements("spec")
            lines == statements("device")
<1>1. s.nodes \in Seq(STRING \ {NoNode}) /\ s.plugs \in Seq(STRING)
    BY ConfigAssumption
<1>2. ConfigTypeOK /\ Reads("node", s) /\ "node" \in Kinds /\ s \in Stmts
      /\ UNCHANGED << current_spec, device_specs >>
    BY DEF makeNode, Kinds, Stmts, ConfigInv
<1>3. status = "parsing" /\ texts' = texts /\ lines' = lines
    BY <1>2, StatementRead
<1>4. /\ texts \in Seq(SpecLines) /\ lines \in Seq(DevLines)
      /\ FromTexts(device_specs, texts) /\ FromLines(devices, lines, device_specs)
      /\ current_spec = ClearSpec /\ Len(device_specs) = Len(texts) /\ Len(devices) = Len(lines)
      /\ device_specs \in Seq(Specs) /\ devices \in Seq(Devs)
    BY <1>2, <1>3 DEF MatchInv, ConfigTypeOK
<1>5. UNCHANGED devices \/ (where # {} /\ devices' = new)
    BY DEF makeNode
<1>6. ASSUME where # {}
      PROVE  /\ Len(new) = Len(devices)
             /\ \A i \in 1..Len(devices) : \A spec : Has(devices[i], spec) => Has(new[i], spec)
    <2>1. d \in 1..Len(devices)
        <3>1. where \in SUBSET (1..Len(devices)) /\ Len(devices) \in Nat
            BY <1>4 DEF named
        <3>. HIDE DEF where
        <3>. QED  BY <1>6, <3>1, FirstOf
    <2>. HIDE DEF d, where
    <2>2. devices[d] \in Devs
        BY <1>4, <2>1
    <2>3. devices[d].plugs \in Seq(PlugRecs) /\ devices[d].hardwired \in BOOLEAN
        BY <2>2 DEF Devs
    <2>4. devices[d].hardwired => SameNames(devices[d].plugs, m.plugs)
        BY <1>1, <2>3, MapAll
    <2>. HIDE DEF m
    <2>5. \A spec : Has(devices[d], spec) => Has(c, spec)
        BY <2>2, <2>4, HasStays
    <2>6. new = [ devices EXCEPT ![d] = c ]
        BY <2>1
    <2>. HIDE DEF c, new
    <2>7. Len(new) = Len(devices) /\ new[d] = c /\ \A i \in 1..Len(devices) : i # d => new[i] = devices[i]
        BY <1>4, <2>1, <2>6
    <2>. QED  BY <2>5, <2>7
<1>. HIDE DEF where, new, texts, lines
<1>7. FromLines(devices', lines, device_specs) /\ Len(devices') = Len(devices)
    <2>1. CASE UNCHANGED devices
        BY <1>4, <2>1
    <2>2. CASE where # {} /\ devices' = new
        <3>1. Len(new) = Len(devices) /\ \A i \in 1..Len(devices) : \A spec : Has(devices[i], spec) => Has(new[i], spec)
            BY <1>6, <2>2
        <3>2. FromLines(new, lines, device_specs)
            BY <1>4, <3>1 DEF FromLines
        <3>. QED  BY <2>2, <3>1, <3>2
    <2>. QED  BY <1>5, <2>1, <2>2
<1>. QED  BY <1>2, <1>3, <1>4, <1>7 DEF MatchInv, texts, lines

(* The other statements leave devices and specifications alone.            *)
LEMMA OthersMatch ==
    ASSUME ConfigInv, MatchInv, NEW kind \in { "alias", "listen" }, NEW s \in Stmts, Reads(kind, s),
           UNCHANGED << current_spec, device_specs, devices >>
    PROVE  MatchInv'
<1>1. ConfigTypeOK /\ kind \in Kinds /\ kind # "spec" /\ kind # "device"
    BY DEF Kinds, ConfigInv
<1>2. status = "parsing" /\ statements("spec")' = statements("spec") /\ statements("device")' = statements("device")
    BY <1>1, StatementRead
<1>. QED  BY <1>2 DEF MatchInv

(* At first there is nothing to match.                                     *)
LEMMA MatchStarts == ConfigInit => MatchInv
<1>. SUFFICES ASSUME ConfigInit PROVE MatchInv
    OBVIOUS
<1>1. current_spec = ClearSpec /\ device_specs = << >> /\ devices = << >> /\ file = << >>
    BY DEF ConfigInit
<1>2. Cardinality({}) = 0
    BY FS_EmptySet
<1>3. \A k : statements(k) = << >>
    <2>1. DOMAIN << >> = {} /\ 1..0 = {}
        OBVIOUS
    <2>2. \A f : elements_at(f, {}) = << >>
        BY <1>2, <2>1 DEF elements_at
    <2>3. \A k : { j \in DOMAIN << >> : << >>[j].kind = k } = {}
        BY <2>1
    <2>. QED  BY <1>1, <2>2, <2>3 DEF statements
<1>4. << >> \in Seq(SpecLines) /\ << >> \in Seq(DevLines) /\ Len(<< >>) = 0 /\ 1..0 = {}
    OBVIOUS
<1>5. FromTexts(<< >>, << >>) /\ FromLines(<< >>, << >>, << >>)
    BY <1>4 DEF FromTexts, FromLines
<1>. QED  BY <1>1, <1>3, <1>4, <1>5 DEF MatchInv

(* Every line of the file, and its end, keep it.                           *)
LEMMA MatchKept == ConfigInv /\ MatchInv /\ [ConfigNext]_config_vars => MatchInv'
<1>. SUFFICES ASSUME ConfigInv, MatchInv, [ConfigNext]_config_vars PROVE MatchInv'
    OBVIOUS
<1>1. ASSUME NEW s \in SpecTexts, makeSpec(s) PROVE MatchInv'
    BY <1>1, SpecMatches
<1>2. ASSUME NEW s \in DeviceLines, makeDevice(s) PROVE MatchInv'
    BY <1>2, DeviceMatches
<1>3. ASSUME NEW s \in NodeLines, makeNode(s) PROVE MatchInv'
    BY <1>3, NodeMatches
<1>4. ASSUME NEW s \in AliasLines, makeAlias(s) PROVE MatchInv'
    <2>1. Reads("alias", s) /\ UNCHANGED << current_spec, device_specs, devices >> /\ s \in Stmts
        BY <1>4 DEF makeAlias, Stmts
    <2>. QED  BY <2>1, OthersMatch
<1>5. ASSUME NEW a \in ListenLines, conf_add_listen(a) PROVE MatchInv'
    <2>1. Reads("listen", a) /\ UNCHANGED << current_spec, device_specs, devices >> /\ a \in Stmts
        BY <1>5 DEF conf_add_listen, Stmts
    <2>. QED  BY <2>1, OthersMatch
<1>6. ASSUME UNCHANGED << current_spec, device_specs, devices, file >>, status' = "parsing" => status = "parsing"
      PROVE  MatchInv'
    <2>1. statements("spec")' = statements("spec") /\ statements("device")' = statements("device")
        BY <1>6 DEF statements
    <2>. QED  BY <1>6, <2>1 DEF MatchInv
<1>7. CASE validate_config
    BY <1>6, <1>7 DEF validate_config
<1>8. ASSUME NEW hl \in Requests, hostlist_create_validated(hl) PROVE MatchInv'
    BY <1>6, <1>8 DEF hostlist_create_validated
<1>9. CASE UNCHANGED config_vars
    BY <1>6, <1>9 DEF config_vars
<1>. QED  BY <1>1, <1>2, <1>3, <1>4, <1>5, <1>7, <1>8, <1>9 DEF ConfigNext

(* A device, its specification and the text of it.                         *)
LEMMA MatchesAll ==
    ASSUME ConfigInv, MatchInv
    PROVE  DevicesMatchSpecs
<1>. DEFINE texts   == statements("spec")
            lines   == statements("device")
            tat(n)  == { i \in DOMAIN texts : texts[i].stmt.name = n }
            text(n) == texts[first_of(tat(n))].stmt
<1>1. /\ texts \in Seq(SpecLines) /\ FromTexts(device_specs, texts) /\ FromLines(devices, lines, device_specs)
      /\ device_specs \in Seq(Specs) /\ devices \in Seq(Devs)
    BY DEF MatchInv, ConfigInv, ConfigTypeOK
<1>. HIDE DEF texts, lines
<1>2. ASSUME NEW n, named(device_specs, n) # {}
      PROVE  LET i == first_of(named(device_specs, n))
             IN  /\ first_of(tat(n)) = i
                 /\ Says(device_specs[i], text(n).items)
    <2>. DEFINE where == named(device_specs, n)
                bt == tat(n)
                k  == Len(device_specs)
    <2>1. k \in Nat /\ DOMAIN device_specs = 1..k /\ Len(texts) \in Nat /\ DOMAIN texts = 1..Len(texts) /\ k <= Len(texts)
        BY <1>1 DEF FromTexts
    <2>2. \A i \in 1..k : i \in DOMAIN texts /\ device_specs[i].name = texts[i].stmt.name /\ Says(device_specs[i], texts[i].stmt.items)
        BY <1>1, <2>1 DEF FromTexts
    <2>3. where \in SUBSET (1..k) /\ bt \in SUBSET (Nat \ {0}) /\ where # {}
        BY <1>2, <2>1 DEF named
    <2>4. \A i \in 1..k : i \in bt <=> i \in where
        BY <2>1, <2>2 DEF named
    <2>. HIDE DEF where, bt
    <2>5. first_of(bt) = first_of(where) /\ first_of(where) \in where
        BY <2>1, <2>3, <2>4, FirstStays
    <2>6. Says(device_specs[first_of(where)], texts[first_of(where)].stmt.items)
        BY <2>2, <2>3, <2>5
    <2>. QED  BY <2>5, <2>6 DEF where, bt
<1>. DEFINE items(d) == ToSet(text(lines[d].stmt.spec).items)
<1>3. ASSUME NEW d \in DOMAIN devices
      PROVE  /\ devices[d].scripts = { i.com : i \in { j \in items(d) : j.kind = "script" } }
             /\ devices[d].hardwired <=> \E i \in items(d) : i.kind = "plugs"
             /\ devices[d].hardwired =>
                  \E i \in items(d) :
                      i.kind = "plugs" /\ i.names = [ p \in DOMAIN devices[d].plugs |-> devices[d].plugs[p].name ]
    <2>. DEFINE n == lines[d].stmt.spec
                spec == device_specs[first_of(named(device_specs, n))]
    <2>1. d \in 1..Len(devices)
        BY <1>1
    <2>2. named(device_specs, n) # {} /\ Has(devices[d], spec)
        BY <1>1, <2>1 DEF FromLines
    <2>. HIDE DEF n
    <2>3. Says(spec, text(n).items)
        BY <1>2, <2>2
    <2>. HIDE DEF spec, text
    <2>. QED  BY <2>2, <2>3 DEF Has, Says, n
<1>. QED  BY <1>3 DEF DevicesMatchSpecs, texts, lines

(* Whatever a configuration file says, each device has the plugs and the   *)
(* scripts of the first specification of the name its line gives (makeSpec,*)
(* _clear_current_spec and makeDevice of parse_tab.y).                     *)
THEOREM DevicesAreAsSpecified == ConfigSpec => []DevicesMatchSpecs
<1>1. ConfigInv /\ MatchInv => DevicesMatchSpecs
    BY MatchesAll
<1>. QED  BY <1>1, ConfigStarts, ConfigKeeps, MatchStarts, MatchKept, PTL DEF ConfigSpec

(***************************************************************************)
(* The requests                                                            *)
(***************************************************************************)
(* How often a host occurs in two sequences.                               *)
LEMMA OccursInBoth ==
    ASSUME NEW u \in Seq(STRING), NEW v \in Seq(STRING), NEW h
    PROVE  /\ occurrences(u, h) \in Int /\ occurrences(v, h) \in Int
           /\ occurrences(u \o v, h) = occurrences(u, h) + occurrences(v, h)
<1>. DEFINE n == Len(u)
            m == Len(v)
            w == u \o v
            A == { i \in DOMAIN u : u[i] = h }
            B == { i \in DOMAIN v : v[i] = h }
            C == { i \in DOMAIN w : w[i] = h } \ A
            f == [ j \in B |-> n + j ]
<1>1. /\ n \in Nat /\ m \in Nat /\ DOMAIN u = 1..n /\ DOMAIN v = 1..m /\ DOMAIN w = 1..n + m
      /\ \A i \in 1..n : w[i] = u[i]
      /\ \A j \in 1..m : w[n + j] = v[j]
    OBVIOUS
<1>2. A \in SUBSET (1..n) /\ B \in SUBSET (1..m)
    BY <1>1
<1>. HIDE DEF w, n, m
<1>3. /\ \A i \in 1..n : i \in 1..n + m
      /\ \A j \in 1..m : n + j \in 1..n + m /\ n + j \notin 1..n
      /\ \A i \in 1..n + m : i \in 1..n \/ (i - n \in 1..m /\ n + (i - n) = i)
    BY <1>1
<1>4. A \cup C = { i \in DOMAIN w : w[i] = h } /\ A \cap C = {}
    BY <1>1, <1>3
<1>5. \A j \in B : n + j \in C
    BY <1>1, <1>2, <1>3
<1>6. \A c \in C : \E j \in B : n + j = c
    <2>1. ASSUME NEW c \in C
          PROVE  \E j \in B : n + j = c
        <3>1. c \in 1..n + m /\ w[c] = h /\ c \notin A
            BY <1>1
        <3>2. c \notin 1..n
            BY <1>1, <3>1
        <3>3. c - n \in 1..m /\ n + (c - n) = c
            BY <1>3, <3>1, <3>2
        <3>4. c - n \in B
            BY <1>1, <3>1, <3>3
        <3>. QED  BY <3>3, <3>4
    <2>. QED  BY <2>1
<1>7. \A i, j \in B : n + i = n + j => i = j
    BY <1>1, <1>2
<1>8. IsFiniteSet(A) /\ IsFiniteSet(B)
    <2>1. IsFiniteSet(1..n) /\ IsFiniteSet(1..m)
        BY <1>1, FS_Interval
    <2>. HIDE DEF A, B
    <2>. QED  BY <1>2, <2>1, FS_Subset
<1>. HIDE DEF A, B, C
<1>9. IsFiniteSet(C) /\ Cardinality(C) = Cardinality(B)
    <2>1. f \in Surjection(B, C) /\ f \in Injection(B, C)
        BY <1>5, <1>6, <1>7 DEF Surjection, Injection, IsInjective
    <2>. HIDE DEF f
    <2>. QED  BY <1>8, <2>1, FS_Surjection
<1>10. Cardinality(A \cup C) = Cardinality(A) + Cardinality(C)
    <2>1. Cardinality(A \cup C) = Cardinality(A) + Cardinality(C) - Cardinality(A \cap C)
        BY <1>8, <1>9, FS_Union
    <2>2. Cardinality(A \cap C) = 0
        BY <1>4, FS_EmptySet
    <2>3. Cardinality(A) \in Nat /\ Cardinality(C) \in Nat
        BY <1>8, <1>9, FS_CardinalityType
    <2>. QED  BY <2>1, <2>2, <2>3
<1>11. Cardinality(A) \in Nat /\ Cardinality(B) \in Nat
    BY <1>8, FS_CardinalityType
<1>12. occurrences(w, h) = Cardinality(A) + Cardinality(B)
    BY <1>4, <1>9, <1>10 DEF occurrences
<1>13. occurrences(u, h) = Cardinality(A) /\ occurrences(v, h) = Cardinality(B)
    BY DEF occurrences, A, B
<1>14. occurrences(u, h) \in Int /\ occurrences(v, h) \in Int
    <2>. DEFINE a == Cardinality(A)
                b == Cardinality(B)
    <2>1. a \in Nat /\ b \in Nat
        BY <1>11
    <2>. HIDE DEF a, b
    <2>2. a \in Int /\ b \in Int
        BY <2>1
    <2>. QED  BY <1>13, <2>2 DEF a, b
<1>15. occurrences(w, h) = occurrences(u, h) + occurrences(v, h)
    BY <1>12, <1>13
<1>. QED  BY <1>14, <1>15 DEF w

(* A sequence of one.                                                      *)
LEMMA OneIn == ASSUME NEW T, NEW x \in T PROVE << x >> \in Seq(T)
OBVIOUS

(* How often it occurs in what one host stands for.                        *)
LEMMA OccursOnce ==
    ASSUME NEW x \in STRING, NEW h
    PROVE  occurrences(<< x >>, h) = IF x = h THEN 1 ELSE 0
<1>1. DOMAIN << x >> = {1} /\ << x >>[1] = x
    OBVIOUS
<1>2. CASE x = h
    <2>1. { i \in DOMAIN << x >> : << x >>[i] = h } = {1}
        BY <1>1, <1>2
    <2>2. Cardinality({1}) = 1
        BY FS_Singleton
    <2>. QED  BY <1>2, <2>1, <2>2 DEF occurrences
<1>3. CASE x # h
    <2>1. { i \in DOMAIN << x >> : << x >>[i] = h } = {}
        BY <1>1, <1>3
    <2>. QED  BY <1>3, <2>1, FS_EmptySet DEF occurrences
<1>. QED  BY <1>2, <1>3

(* s adds up w of the elements of u.                                       *)
AddsUp(s, u, w) ==
    /\ s \in [0..Len(u) -> Int] /\ s[0] = 0
    /\ \A i \in 1..Len(u) : s[i] = s[i - 1] + w[u[i]]

(* The sum without one of the elements.                                    *)
LEMMA AddsWithout ==
    ASSUME NEW w \in [STRING -> Int], NEW u \in Seq(STRING), NEW i \in 1..Len(u), NEW s, AddsUp(s, u, w)
    PROVE  /\ RemoveAt(u, i) \in Seq(STRING) /\ Len(RemoveAt(u, i)) = Len(u) - 1
           /\ \A j \in 1..Len(u) - 1 : RemoveAt(u, i)[j] = IF j < i THEN u[j] ELSE u[j + 1]
           /\ \E t : AddsUp(t, RemoveAt(u, i), w) /\ t[Len(u) - 1] = s[Len(u)] - w[u[i]]
<1>. DEFINE n == Len(u)
            v == RemoveAt(u, i)
            t == [ j \in 0..n - 1 |-> IF j < i THEN s[j] ELSE s[j + 1] - w[u[i]] ]
<1>1. n \in Nat /\ i \in 1..n /\ n - 1 \in Nat /\ \A j \in 1..n : u[j] \in STRING /\ w[u[j]] \in Int
    <2>1. n \in Nat /\ \A j \in 1..n : u[j] \in STRING
        OBVIOUS
    <2>. HIDE DEF n
    <2>2. i \in 1..n
        BY DEF n
    <2>3. n - 1 \in Nat
        BY <2>1, <2>2
    <2>4. \A j \in 1..n : w[u[j]] \in Int
        BY <2>1
    <2>. QED  BY <2>1, <2>2, <2>3, <2>4
<1>2. /\ v \in Seq(STRING) /\ Len(v) = n - 1
      /\ \A j \in 1..n - 1 : v[j] = IF j < i THEN u[j] ELSE u[j + 1]
    <2>. DEFINE a == SubSeq(u, 1, i - 1)
                b == SubSeq(u, i + 1, n)
    <2>1. /\ a \in Seq(STRING) /\ Len(a) = i - 1
          /\ \A j \in 1..i - 1 : a[j] = u[j]
        BY <1>1
    <2>2. /\ b \in Seq(STRING) /\ Len(b) = n - i
          /\ \A j \in 1..n - i : b[j] = u[j + i]
        BY <1>1
    <2>. HIDE DEF a, b, n
    <2>3. /\ a \o b \in Seq(STRING) /\ Len(a \o b) = (i - 1) + (n - i)
          /\ \A j \in 1..(i - 1) + (n - i) : (a \o b)[j] = IF j <= i - 1 THEN a[j] ELSE b[j - (i - 1)]
        <3>1. /\ a \o b \in Seq(STRING) /\ Len(a \o b) = Len(a) + Len(b)
              /\ \A j \in 1..Len(a) + Len(b) : (a \o b)[j] = IF j <= Len(a) THEN a[j] ELSE b[j - Len(a)]
            <4>1. a \in Seq(STRING) /\ b \in Seq(STRING)
                BY <2>1, <2>2
            <4>. QED  BY <4>1
        <3>. QED  BY <2>1, <2>2, <3>1
    <2>4. (i - 1) + (n - i) = n - 1
        BY <1>1
    <2>5. ASSUME NEW j \in 1..n - 1
          PROVE  (a \o b)[j] = IF j < i THEN u[j] ELSE u[j + 1]
        <3>1. CASE j < i
            <4>1. j <= i - 1 /\ j \in 1..i - 1
                BY <1>1, <3>1
            <4>. QED  BY <2>1, <2>3, <2>4, <3>1, <4>1
        <3>2. CASE ~(j < i)
            <4>1. ~(j <= i - 1) /\ j - (i - 1) \in 1..n - i /\ (j - (i - 1)) + i = j + 1
                BY <1>1, <3>2
            <4>. QED  BY <2>2, <2>3, <2>4, <3>2, <4>1
        <3>. QED  BY <3>1, <3>2
    <2>6. v = a \o b
        BY DEF RemoveAt, a, b, n
    <2>. HIDE DEF v
    <2>. QED  BY <2>3, <2>4, <2>5, <2>6
<1>3. s \in [0..n -> Int] /\ s[0] = 0 /\ \A j \in 1..n : s[j] = s[j - 1] + w[u[j]]
    BY DEF AddsUp
<1>. DEFINE d == w[u[i]]
<1>4. d \in Int
    BY <1>1
<1>. HIDE DEF n, v, d
<1>5. t = [ j \in 0..n - 1 |-> IF j < i THEN s[j] ELSE s[j + 1] - d ]
    BY DEF d
<1>. HIDE DEF t
<1>6. \A j \in 0..n - 1 : /\ j \in Int /\ j \in 0..n /\ j + 1 \in 0..n /\ t[j] \in Int
                          /\ t[j] = IF j < i THEN s[j] ELSE s[j + 1] - d
    <2>1. ASSUME NEW j \in 0..n - 1
          PROVE  /\ j \in Int /\ j \in 0..n /\ j + 1 \in 0..n /\ t[j] \in Int
                 /\ t[j] = IF j < i THEN s[j] ELSE s[j + 1] - d
        <3>1. j \in Int /\ j \in 0..n /\ j + 1 \in 0..n
            BY <1>1
        <3>2. s[j] \in Int /\ s[j + 1] \in Int
            BY <1>3, <3>1
        <3>3. t[j] = IF j < i THEN s[j] ELSE s[j + 1] - d
            BY <1>5
        <3>. QED  BY <1>4, <3>1, <3>2, <3>3
    <2>. QED  BY <2>1
<1>7. ASSUME NEW j \in 1..n - 1
      PROVE  t[j] = t[j - 1] + w[v[j]]
    <2>1. /\ j \in 1..n /\ j + 1 \in 1..n /\ j \in 0..n - 1 /\ j - 1 \in 0..n - 1 /\ (j + 1) - 1 = j /\ (j - 1) + 1 = j
          /\ j \in 0..n /\ j - 1 \in 0..n
        BY <1>1
    <2>2. /\ s[j - 1] \in Int /\ s[j] \in Int /\ s[j + 1] \in Int /\ w[u[j]] \in Int /\ w[u[j + 1]] \in Int
          /\ s[j] = s[j - 1] + w[u[j]] /\ s[j + 1] = s[j] + w[u[j + 1]]
        BY <1>1, <1>3, <1>6, <2>1
    <2>3. /\ t[j] = IF j < i THEN s[j] ELSE s[j + 1] - d
          /\ t[j - 1] = IF j - 1 < i THEN s[j - 1] ELSE s[j] - d
          /\ v[j] = IF j < i THEN u[j] ELSE u[j + 1]
        BY <1>2, <1>6, <2>1
    <2>4. CASE j < i
        <3>1. j - 1 < i
            BY <1>1, <2>4
        <3>. QED  BY <2>2, <2>3, <2>4, <3>1
    <2>5. CASE j = i
        <3>1. ~(j < i) /\ j - 1 < i /\ w[u[j]] = d
            BY <1>1, <2>5 DEF d
        <3>. QED  BY <1>4, <2>2, <2>3, <3>1
    <2>6. CASE i < j
        <3>1. ~(j < i) /\ ~(j - 1 < i)
            BY <1>1, <2>6
        <3>. QED  BY <1>4, <2>2, <2>3, <3>1
    <2>7. j < i \/ j = i \/ i < j
        BY <1>1, <2>1
    <2>. QED  BY <2>4, <2>5, <2>6, <2>7
<1>8. t[0] = 0
    <2>1. 0 \in 0..n - 1 \/ n - 1 < 0
        BY <1>1
    <2>2. 0 < i /\ ~(n - 1 < 0)
        BY <1>1
    <2>. QED  BY <1>3, <1>6, <2>1, <2>2
<1>9. t[n - 1] = s[n] - d
    <2>1. n - 1 \in 0..n - 1 /\ (n - 1) + 1 = n /\ n \in 1..n
        BY <1>1
    <2>2. t[n - 1] = IF n - 1 < i THEN s[n - 1] ELSE s[n] - d
        BY <1>6, <2>1
    <2>3. CASE n - 1 < i
        <3>1. i = n
            BY <1>1, <2>3
        <3>2. s[n] = s[n - 1] + d /\ s[n - 1] \in Int
            BY <1>3, <1>6, <2>1, <3>1 DEF d
        <3>. QED  BY <1>4, <2>2, <2>3, <3>2
    <2>. QED  BY <2>2, <2>3
<1>10. AddsUp(t, v, w)
    <2>1. t \in [0..Len(v) -> Int]
        BY <1>2, <1>5, <1>6
    <2>. QED  BY <1>2, <1>7, <1>8, <2>1 DEF AddsUp
<1>. QED  BY <1>2, <1>9, <1>10 DEF n, v, d

(* w counts a host.                                                        *)
CountsIt(w, u, h) == \A i \in 1..Len(u) : w[u[i]] = IF u[i] = h THEN 1 ELSE 0

(* Then the sum is how often it occurs.                                    *)
LEMMA AddsOccurrences ==
    ASSUME NEW w, NEW u \in Seq(STRING), NEW h, NEW s, AddsUp(s, u, w), CountsIt(w, u, h)
    PROVE  s[Len(u)] = occurrences(u, h)
<1>. DEFINE n == Len(u)
            A(k) == { i \in 1..k : u[i] = h }
            I == { k \in 0..n : s[k] = Cardinality(A(k)) /\ IsFiniteSet(A(k)) }
<1>1. n \in Nat /\ DOMAIN u = 1..n
    OBVIOUS
<1>2. s \in [0..n -> Int] /\ s[0] = 0 /\ \A j \in 1..n : s[j] = s[j - 1] + w[u[j]]
    BY DEF AddsUp
<1>3. 0 \in I
    <2>1. A(0) = {}
        OBVIOUS
    <2>2. IsFiniteSet(A(0)) /\ Cardinality(A(0)) = 0
        BY <2>1, FS_EmptySet
    <2>. HIDE DEF A
    <2>. QED  BY <1>1, <1>2, <2>2
<1>4. ASSUME NEW k \in 0..n - 1, k \in I
      PROVE  k + 1 \in I
    <2>1. k + 1 \in 1..n /\ (k + 1) - 1 = k /\ k + 1 \notin 1..k /\ k + 1 \in 0..n
        BY <1>1
    <2>2. s[k] = Cardinality(A(k)) /\ IsFiniteSet(A(k)) /\ s[k] \in Int
        BY <1>2, <1>4
    <2>3. 1..k + 1 = 1..k \cup {k + 1}
        BY <1>1
    <2>4. s[k + 1] = s[k] + IF u[k + 1] = h THEN 1 ELSE 0
        BY <1>2, <2>1 DEF CountsIt
    <2>5. CASE u[k + 1] = h
        <3>1. A(k + 1) = A(k) \cup {k + 1} /\ k + 1 \notin A(k)
            BY <2>1, <2>3, <2>5
        <3>. HIDE DEF A
        <3>2. IsFiniteSet(A(k + 1)) /\ Cardinality(A(k + 1)) = Cardinality(A(k)) + 1
            BY <2>2, <3>1, FS_AddElement
        <3>. QED  BY <2>1, <2>2, <2>4, <2>5, <3>2
    <2>6. CASE u[k + 1] # h
        <3>1. A(k + 1) = A(k)
            BY <2>1, <2>3, <2>6
        <3>. HIDE DEF A
        <3>. QED  BY <2>1, <2>2, <2>4, <2>6, <3>1
    <2>. QED  BY <2>5, <2>6
<1>5. I = 0..n
    <2>. HIDE DEF I, n
    <2>1. I \in SUBSET (0..n)
        BY DEF I
    <2>. QED  BY <1>1, <1>3, <1>4, <2>1, UpTo
<1>6. s[n] = Cardinality(A(n))
    <2>1. n \in I
        <3>. HIDE DEF I, n
        <3>. QED  BY <1>1, <1>5
    <2>. QED  BY <2>1
<1>. QED  BY <1>1, <1>6 DEF occurrences

(* What a host stands for.                                                 *)
stands_for(aliases, x) == IF x \in DOMAIN aliases THEN aliases[x] ELSE << x >>

(* How often one host occurs in what another stands for.                   *)
weights(aliases, h) == [ x \in STRING |-> occurrences(stands_for(aliases, x), h) ]

(* All that some hosts stand for.                                          *)
meant_by(aliases, u) == UNION { ToSet(stands_for(aliases, u[i])) : i \in DOMAIN u }

GoodAliases(aliases) == \A a \in DOMAIN aliases : aliases[a] \in Seq(STRING)

(* A host stands for hosts, which can be counted.                          *)
LEMMA StandsFor ==
    ASSUME NEW aliases, GoodAliases(aliases), NEW h
    PROVE  /\ \A x \in STRING : stands_for(aliases, x) \in Seq(STRING)
           /\ weights(aliases, h) \in [STRING -> Int]
           /\ \A x \in STRING : weights(aliases, h)[x] = occurrences(stands_for(aliases, x), h)
<1>1. ASSUME NEW x \in STRING
      PROVE  stands_for(aliases, x) \in Seq(STRING)
    <2>1. << x >> \in Seq(STRING)
        BY OneIn
    <2>. QED  BY <2>1 DEF stands_for, GoodAliases
<1>2. \A x \in STRING : occurrences(stands_for(aliases, x), h) \in Int
    <2>1. ASSUME NEW x \in STRING
          PROVE  occurrences(stands_for(aliases, x), h) \in Int
        BY <1>1, OccursInBoth
    <2>. QED  BY <2>1
<1>. QED  BY <1>1, <1>2 DEF weights

(* How often a host occurs in what others stand for, as a fold gives it.   *)
counted(aliases, asked, h) ==
    LET add(n, i) == n + occurrences(stands_for(aliases, asked[i]), h)
    IN  FoldLeft(add, 0, [ i \in DOMAIN asked |-> i ])

(* It is the sum of the weights.                                           *)
LEMMA SumsUp ==
    ASSUME NEW aliases, GoodAliases(aliases), NEW asked \in Seq(STRING), NEW h
    PROVE  \E s : /\ AddsUp(s, asked, weights(aliases, h))
                  /\ s[Len(asked)] = counted(aliases, asked, h)
<1>. DEFINE add(x, i) == x + occurrences(stands_for(aliases, asked[i]), h)
            w    == weights(aliases, h)
            n    == Len(asked)
            q    == [ i \in DOMAIN asked |-> i ]
            step == [ i \in 1..n |-> [ x \in Int |-> x + w[asked[i]] ] ]
            it   == CHOOSE g : g = [ e \in SUBSET DOMAIN q |->
                       IF e = {} THEN 0 ELSE g[e \ {Max(e)}] + occurrences(stands_for(aliases, asked[q[Max(e)]]), h) ]
<1>1. /\ n \in Nat /\ DOMAIN asked = 1..n /\ DOMAIN q = 1..n
      /\ \A i \in 1..n : q[i] = i /\ asked[i] \in STRING
    OBVIOUS
<1>2. /\ \A i \in 1..n : w[asked[i]] \in Int /\ occurrences(stands_for(aliases, asked[i]), h) = w[asked[i]]
    <2>1. w \in [STRING -> Int] /\ \A x \in STRING : w[x] = occurrences(stands_for(aliases, x), h)
        BY StandsFor
    <2>. HIDE DEF w, n
    <2>. QED  BY <1>1, <2>1
<1>3. FoldLeft(add, 0, q) = it[DOMAIN q]
    <2>. HIDE DEF q
    <2>. QED  BY Zenon DEF FoldLeft, MapThenFoldSet
<1>. HIDE DEF w, n, q
<1>4. step \in [1..n -> [Int -> Int]] /\ 0 \in Int
    BY <1>2
<1>5. \E g : g = [ e \in SUBSET DOMAIN q |->
                 IF e = {} THEN 0 ELSE g[e \ {Max(e)}] + occurrences(stands_for(aliases, asked[q[Max(e)]]), h) ]
    <2>. HIDE DEF step
    <2>1. PICK iter : TakesLast(iter, Int, 0, n, step)
        BY <1>1, <1>4, FoldRuns
    <2>2. /\ iter \in [SUBSET (1..n) -> Int]
          /\ \A e \in SUBSET (1..n) : iter[e] = IF e = {} THEN 0 ELSE step[Max(e)][iter[e \ {Max(e)}]]
        BY <2>1 DEF TakesLast
    <2>3. ASSUME NEW e \in SUBSET (1..n), e # {}
          PROVE  iter[e] = iter[e \ {Max(e)}] + occurrences(stands_for(aliases, asked[q[Max(e)]]), h)
        <3>1. Max(e) \in 1..n
            BY <1>1, <2>3, MaxIn
        <3>2. e \ {Max(e)} \in SUBSET (1..n)
            OBVIOUS
        <3>. HIDE DEF Max
        <3>3. iter[e \ {Max(e)}] \in Int
            BY <2>2, <3>2
        <3>4. iter[e] = step[Max(e)][iter[e \ {Max(e)}]]
            BY <2>2, <2>3
        <3>5. step[Max(e)][iter[e \ {Max(e)}]] = iter[e \ {Max(e)}] + w[asked[Max(e)]]
            BY <3>1, <3>3 DEF step
        <3>. QED  BY <1>1, <1>2, <3>1, <3>4, <3>5
    <2>4. iter = [ e \in SUBSET DOMAIN q |->
                     IF e = {} THEN 0 ELSE iter[e \ {Max(e)}] + occurrences(stands_for(aliases, asked[q[Max(e)]]), h) ]
        BY <1>1, <2>2, <2>3
    <2>. QED  BY <2>4
<1>6. it = [ e \in SUBSET DOMAIN q |->
               IF e = {} THEN 0 ELSE it[e \ {Max(e)}] + occurrences(stands_for(aliases, asked[q[Max(e)]]), h) ]
    BY <1>5
<1>. HIDE DEF it
<1>7. IsReached(it[1..n], Int, 0, n, step)
    <2>1. it[{}] = 0
        BY <1>6
    <2>2. ASSUME NEW i \in 1..n, it[1..i - 1] \in Int
          PROVE  it[1..i] = step[i][it[1..i - 1]]
        <3>1. Max(1..i) = i /\ (1..i) \ {i} = 1..i - 1 /\ 1..i # {}
            BY MaxUpTo
        <3>2. 1..i \in SUBSET DOMAIN q
            BY <1>1
        <3>. HIDE DEF Max
        <3>3. it[1..i] = it[1..i - 1] + occurrences(stands_for(aliases, asked[i]), h)
            BY <1>1, <1>6, <3>1, <3>2
        <3>. QED  BY <1>2, <2>2, <3>3
    <2>. HIDE DEF step
    <2>3. GoesOn(it, Int, 0, n, step)
        BY <2>1, <2>2 DEF GoesOn
    <2>. QED  BY <1>1, <1>4, <2>3, FoldValues
<1>8. PICK s : s \in [0..n -> Int] /\ s[0] = 0 /\ s[n] = it[1..n] /\ \A i \in 1..n : s[i] = step[i][s[i - 1]]
    <2>. HIDE DEF step
    <2>. QED  BY <1>7 DEF IsReached, GoesUp
<1>9. \A i \in 1..n : s[i] = s[i - 1] + w[asked[i]]
    <2>1. \A i \in 1..n : i - 1 \in 0..n
        BY <1>1
    <2>. QED  BY <1>8, <2>1
<1>10. AddsUp(s, asked, w) /\ s[n] = FoldLeft(add, 0, q)
    <2>. HIDE DEF step, add
    <2>. QED  BY <1>1, <1>3, <1>8, <1>9 DEF AddsUp, n
<1>11. counted(aliases, asked, h) = FoldLeft(add, 0, q)
    BY Zenon DEF counted, q
<1>. HIDE DEF add
<1>. QED  BY <1>10, <1>11 DEF w, n

Walked == [ hl : Seq(STRING), newhosts : Seq(STRING) ]

(* The hosts that are left and those that were found are those asked for,  *)
(* each as often.                                                          *)
Covers(r, aliases, asked, total) ==
    /\ \A h \in STRING : \E s : /\ AddsUp(s, r.hl, weights(aliases, h))
                                /\ s[Len(r.hl)] + occurrences(r.newhosts, h) = total[h]
    /\ meant_by(aliases, r.hl) \cup ToSet(r.newhosts) = meant_by(aliases, asked)

(* There is no alias among the hosts.                                      *)
Expanded(aliases, u) == \A i \in DOMAIN u : u[i] \notin DOMAIN aliases

(* The elements of two sequences.                                          *)
LEMMA JoinedSet ==
    ASSUME NEW u \in Seq(STRING), NEW v \in Seq(STRING)
    PROVE  ToSet(u \o v) = ToSet(u) \cup ToSet(v)
<1>. DEFINE n == Len(u)
            m == Len(v)
            w == u \o v
<1>1. /\ n \in Nat /\ m \in Nat /\ DOMAIN u = 1..n /\ DOMAIN v = 1..m /\ DOMAIN w = 1..n + m
      /\ \A i \in 1..n : w[i] = u[i]
      /\ \A j \in 1..m : w[n + j] = v[j]
    OBVIOUS
<1>. HIDE DEF w, n, m
<1>2. /\ \A i \in 1..n : i \in 1..n + m
      /\ \A j \in 1..m : n + j \in 1..n + m
      /\ \A i \in 1..n + m : i \in 1..n \/ (i - n \in 1..m /\ n + (i - n) = i)
    BY <1>1
<1>3. /\ \A i \in DOMAIN u : i \in DOMAIN w /\ w[i] = u[i]
      /\ \A j \in DOMAIN v : \E i \in DOMAIN w : w[i] = v[j]
      /\ \A i \in DOMAIN w : (i \in DOMAIN u /\ w[i] = u[i]) \/ \E j \in DOMAIN v : v[j] = w[i]
    <2>1. \A i \in 1..n + m : i \in 1..n \/ \E j \in 1..m : v[j] = w[i]
        BY <1>1, <1>2
    <2>. QED  BY <1>1, <1>2, <2>1
<1>4. ToSet(w) = ToSet(u) \cup ToSet(v)
    BY <1>3 DEF ToSet
<1>. QED  BY <1>4 DEF w

(* What hosts stand for, without one of them.                              *)
LEMMA MeantWithout ==
    ASSUME NEW aliases, NEW u \in Seq(STRING), NEW v \in Seq(STRING), NEW i \in 1..Len(u),
           Len(v) = Len(u) - 1, \A j \in 1..Len(u) - 1 : v[j] = IF j < i THEN u[j] ELSE u[j + 1]
    PROVE  meant_by(aliases, v) \cup ToSet(stands_for(aliases, u[i])) = meant_by(aliases, u)
<1>. DEFINE n == Len(u)
<1>1. n \in Nat /\ DOMAIN u = 1..n /\ DOMAIN v = 1..n - 1 /\ i \in 1..n
    OBVIOUS
<1>2. \A j \in 1..n - 1 : v[j] = IF j < i THEN u[j] ELSE u[j + 1]
    OBVIOUS
<1>. HIDE DEF n
<1>3. \A j \in 1..n - 1 : \E k \in 1..n : v[j] = u[k]
    <2>1. \A j \in 1..n - 1 : j \in 1..n /\ j + 1 \in 1..n
        BY <1>1
    <2>. QED  BY <1>2, <2>1
<1>4. \A k \in 1..n : k = i \/ \E j \in 1..n - 1 : v[j] = u[k]
    <2>1. ASSUME NEW k \in 1..n, k < i PROVE \E j \in 1..n - 1 : v[j] = u[k]
        <3>1. k \in 1..n - 1
            BY <1>1, <2>1
        <3>. QED  BY <1>2, <2>1, <3>1
    <2>2. ASSUME NEW k \in 1..n, i < k PROVE \E j \in 1..n - 1 : v[j] = u[k]
        <3>1. k - 1 \in 1..n - 1 /\ ~(k - 1 < i) /\ (k - 1) + 1 = k
            BY <1>1, <2>2
        <3>. QED  BY <1>2, <3>1
    <2>3. \A k \in 1..n : k = i \/ k < i \/ i < k
        BY <1>1
    <2>. QED  BY <2>1, <2>2, <2>3
<1>5. \A x : x \in meant_by(aliases, v) => x \in meant_by(aliases, u)
    BY <1>1, <1>3 DEF meant_by
<1>6. \A x : x \in meant_by(aliases, u) => x \in meant_by(aliases, v) \/ x \in ToSet(stands_for(aliases, u[i]))
    BY <1>1, <1>4 DEF meant_by
<1>7. \A x : x \in ToSet(stands_for(aliases, u[i])) => x \in meant_by(aliases, u)
    BY <1>1 DEF meant_by
<1>. QED  BY <1>5, <1>6, <1>7

(* One alias is removed.                                                   *)
LEMMA WalkOne ==
    ASSUME NEW aliases, GoodAliases(aliases), NEW asked, NEW total, NEW r \in Walked,
           Covers(r, aliases, asked, total)
    PROVE  LET new == remove_alias(aliases, r)
           IN  /\ new \in Walked /\ Covers(new, aliases, asked, total)
               /\ Expanded(aliases, r.hl) => new = r
               /\ Expanded(aliases, r.hl) \/ Len(new.hl) = Len(r.hl) - 1
<1>. DEFINE u   == r.hl
            where  == { i \in DOMAIN u : u[i] \in DOMAIN aliases }
            new == remove_alias(aliases, r)
<1>1. CASE where = {}
    <2>1. new = r /\ Expanded(aliases, r.hl)
        BY <1>1 DEF remove_alias, Expanded
    <2>. QED  BY <2>1
<1>2. CASE where # {}
    <2>. DEFINE i == CHOOSE i \in where : \A j \in where : i <= j
                v == RemoveAt(u, i)
                a == aliases[u[i]]
    <2>1. u \in Seq(STRING) /\ DOMAIN u = 1..Len(u) /\ Len(u) \in Nat /\ r.newhosts \in Seq(STRING)
        BY DEF Walked
    <2>2. i \in where
        <3>1. where \in SUBSET (1..Len(u))
            BY <2>1
        <3>. HIDE DEF where
        <3>2. first_of(where) \in where
            BY <1>2, <2>1, <3>1, FirstOf
        <3>. QED  BY <3>2 DEF first_of
    <2>3. new = [ hl |-> v, newhosts |-> r.newhosts \o a ]
        BY <1>2 DEF remove_alias
    <2>. HIDE DEF i
    <2>4. i \in 1..Len(u) /\ u[i] \in DOMAIN aliases /\ u[i] \in STRING
        BY <2>1, <2>2
    <2>5. a \in Seq(STRING) /\ a = stands_for(aliases, u[i])
        BY <2>4 DEF GoodAliases, stands_for
    <2>. HIDE DEF u, v, a, new
    <2>6. v \in Seq(STRING) /\ Len(v) = Len(u) - 1 /\ \A j \in 1..Len(u) - 1 : v[j] = IF j < i THEN u[j] ELSE u[j + 1]
        <3>. DEFINE h == u[i]
                    w == weights(aliases, h)
        <3>1. w \in [STRING -> Int]
            BY StandsFor
        <3>2. h \in STRING
            BY <2>4
        <3>. HIDE DEF h
        <3>3. \E s : AddsUp(s, u, w)
            BY <3>2 DEF Covers, u
        <3>. HIDE DEF w
        <3>. QED  BY <2>1, <2>4, <3>1, <3>3, AddsWithout DEF v
    <2>7. new \in Walked /\ new.hl = v /\ new.newhosts = r.newhosts \o a
        <3>1. r.newhosts \o a \in Seq(STRING)
            BY <2>1, <2>5
        <3>. QED  BY <2>3, <2>6, <3>1 DEF Walked
    <2>8. ASSUME NEW h \in STRING
          PROVE  \E t : AddsUp(t, v, weights(aliases, h)) /\ t[Len(v)] + occurrences(r.newhosts \o a, h) = total[h]
        <3>. DEFINE w == weights(aliases, h)
        <3>1. PICK s : AddsUp(s, u, w) /\ s[Len(u)] + occurrences(r.newhosts, h) = total[h]
            BY DEF Covers, u
        <3>2. w \in [STRING -> Int] /\ w[u[i]] = occurrences(a, h)
            BY <2>4, <2>5, StandsFor
        <3>. HIDE DEF w
        <3>3. PICK t : AddsUp(t, v, w) /\ t[Len(u) - 1] = s[Len(u)] - w[u[i]]
            BY <2>1, <2>4, <3>1, <3>2, AddsWithout DEF v
        <3>4. /\ occurrences(r.newhosts, h) \in Int /\ occurrences(a, h) \in Int
              /\ occurrences(r.newhosts \o a, h) = occurrences(r.newhosts, h) + occurrences(a, h)
            BY <2>1, <2>5, OccursInBoth
        <3>5. s[Len(u)] \in Int
            BY <2>1, <3>1 DEF AddsUp
        <3>. DEFINE x == s[Len(u)]
                    b == occurrences(r.newhosts, h)
                    c == occurrences(a, h)
        <3>6. t[Len(v)] = x - c /\ occurrences(r.newhosts \o a, h) = b + c /\ x + b = total[h]
            BY <2>6, <3>1, <3>2, <3>3, <3>4
        <3>7. x \in Int /\ b \in Int /\ c \in Int
            BY <3>4, <3>5
        <3>. HIDE DEF x, b, c
        <3>8. (x - c) + (b + c) = x + b
            BY <3>7
        <3>. QED  BY <3>3, <3>6, <3>8 DEF w
    <2>9. meant_by(aliases, v) \cup ToSet(r.newhosts \o a) = meant_by(aliases, asked)
        <3>1. meant_by(aliases, v) \cup ToSet(a) = meant_by(aliases, u)
            BY <2>1, <2>4, <2>5, <2>6, MeantWithout
        <3>2. ToSet(r.newhosts \o a) = ToSet(r.newhosts) \cup ToSet(a)
            BY <2>1, <2>5, JoinedSet
        <3>. QED  BY <3>1, <3>2 DEF Covers, u
    <2>10. ~Expanded(aliases, r.hl)
        BY <2>1, <2>4 DEF Expanded, u
    <2>11. Covers(new, aliases, asked, total)
        BY <2>7, <2>8, <2>9 DEF Covers
    <2>. QED  BY <2>6, <2>7, <2>10, <2>11 DEF new, u
<1>. QED  BY <1>1, <1>2

(* A total for each host, of what the hosts asked for stand for.           *)
SumsTo(aliases, asked, total) ==
    \A h \in STRING : \E s : AddsUp(s, asked, weights(aliases, h)) /\ s[Len(asked)] = total[h]

(* The hosts of a request come to those they stand for, each as often.     *)
LEMMA ExpandsExactly ==
    ASSUME NEW aliases, GoodAliases(aliases), NEW asked \in Seq(STRING), NEW total, SumsTo(aliases, asked, total)
    PROVE  LET x == conf_exp_aliases(aliases, asked)
           IN  /\ x \in Seq(STRING) /\ \A h \in STRING : occurrences(x, h) = total[h]
               /\ ToSet(x) = meant_by(aliases, asked)
<1>. DEFINE n == Len(asked)
            base == [ hl |-> asked, newhosts |-> << >> ]
            Kept(k, r) == /\ Covers(r, aliases, asked, total)
                          /\ Expanded(aliases, r.hl) \/ Len(r.hl) <= n - k
            T == [ k \in 0..n |-> { r \in Walked : Kept(k, r) } ]
            body == [ k \in 1..n |-> [ r \in Walked |-> remove_alias(aliases, r) ] ]
            walk == CHOOSE g : g = [ k \in 0..n |-> IF k = 0 THEN base ELSE remove_alias(aliases, g[k - 1]) ]
<1>1. n \in Nat
    OBVIOUS
<1>2. base \in Walked /\ Kept(0, base)
    <2>1. << >> \in Seq(STRING)
        OBVIOUS
    <2>2. base \in Walked /\ base.hl = asked /\ base.newhosts = << >>
        BY <2>1 DEF Walked
    <2>3. \A h : occurrences(<< >>, h) = 0
        <3>1. \A h : { i \in DOMAIN << >> : << >>[i] = h } = {}
            OBVIOUS
        <3>. QED  BY <3>1, FS_EmptySet DEF occurrences
    <2>4. ToSet(<< >>) = {}
        BY DEF ToSet
    <2>. HIDE DEF base
    <2>5. \A h \in STRING : \E s : /\ AddsUp(s, base.hl, weights(aliases, h))
                                 /\ s[Len(base.hl)] + occurrences(base.newhosts, h) = total[h]
        <3>1. ASSUME NEW h \in STRING
              PROVE  \E s : /\ AddsUp(s, asked, weights(aliases, h))
                            /\ s[Len(asked)] + 0 = total[h]
            <4>1. PICK s : AddsUp(s, asked, weights(aliases, h)) /\ s[Len(asked)] = total[h]
                BY DEF SumsTo
            <4>2. s[Len(asked)] \in Int
                BY <4>1 DEF AddsUp
            <4>3. s[Len(asked)] + 0 = s[Len(asked)]
                <5>. DEFINE x == s[Len(asked)]
                <5>1. x \in Int
                    BY <4>2
                <5>. HIDE DEF x
                <5>2. x + 0 = x
                    BY <5>1
                <5>. QED  BY <5>2 DEF x
            <4>. QED  BY <4>1, <4>3
        <3>. QED  BY <2>2, <2>3, <3>1
    <2>6. Covers(base, aliases, asked, total)
        BY <2>2, <2>4, <2>5 DEF Covers
    <2>7. Len(base.hl) <= n - 0
        BY <1>1, <2>2
    <2>. QED  BY <2>2, <2>6, <2>7
<1>3. ASSUME NEW k \in 1..n, NEW r \in Walked, Kept(k - 1, r)
      PROVE  remove_alias(aliases, r) \in Walked /\ Kept(k, remove_alias(aliases, r))
    <2>. DEFINE new == remove_alias(aliases, r)
    <2>1. /\ new \in Walked /\ Covers(new, aliases, asked, total)
          /\ Expanded(aliases, r.hl) => new = r
          /\ Expanded(aliases, r.hl) \/ Len(new.hl) = Len(r.hl) - 1
        BY <1>3, WalkOne
    <2>. HIDE DEF new
    <2>2. CASE Expanded(aliases, r.hl)
        BY <2>1, <2>2 DEF new
    <2>3. CASE ~Expanded(aliases, r.hl)
        <3>1. Len(r.hl) <= n - (k - 1) /\ Len(new.hl) = Len(r.hl) - 1 /\ Len(r.hl) \in Nat
            BY <1>3, <2>1, <2>3 DEF Walked
        <3>2. Len(new.hl) <= n - k
            <4>. HIDE DEF n
            <4>. QED  BY <1>1, <3>1
        <3>. QED  BY <2>1, <3>2 DEF new
    <2>. QED  BY <2>2, <2>3
<1>. HIDE DEF Kept, base
<1>4. Stages(n, T, base, body)
    <2>1. base \in T[0]
        BY <1>1, <1>2
    <2>2. ASSUME NEW k \in 1..n, NEW r \in T[k - 1]
          PROVE  body[k][r] \in T[k]
        <3>1. k - 1 \in 0..n /\ k \in 0..n
            BY <1>1
        <3>2. r \in Walked /\ Kept(k - 1, r)
            BY <3>1
        <3>3. body[k][r] = remove_alias(aliases, r)
            BY <3>2
        <3>4. remove_alias(aliases, r) \in Walked /\ Kept(k, remove_alias(aliases, r))
            BY <1>3, <3>2
        <3>. HIDE DEF body
        <3>. QED  BY <3>1, <3>3, <3>4
    <2>. HIDE DEF T, body, n
    <2>. QED  BY <1>1, <2>1, <2>2 DEF Stages
<1>5. PICK g : /\ g = [ k \in 0..n |-> g[k] ] /\ g[0] = base
               /\ \A k \in 1..n : g[k] = body[k][g[k - 1]]
               /\ \A k \in 0..n : g[k] \in T[k]
    <2>. HIDE DEF n, T, body
    <2>. QED  BY <1>4, Recurs
<1>6. \A k \in 0..n : g[k] \in Walked /\ Kept(k, g[k])
    BY <1>5
<1>7. \A k \in 1..n : g[k] = remove_alias(aliases, g[k - 1])
    <2>1. \A k \in 1..n : k - 1 \in 0..n
        BY <1>1
    <2>. HIDE DEF n
    <2>. QED  BY <1>5, <1>6, <2>1
<1>. HIDE DEF n
<1>8. /\ 0 \in 0..n /\ n \in 0..n /\ \A k \in 0..n : k # 0 => k \in 1..n
      /\ \A k \in 1..n : k \in 0..n /\ k # 0 /\ k - 1 \in 0..n
    BY <1>1
<1>9. g = [ k \in 0..n |-> IF k = 0 THEN base ELSE remove_alias(aliases, g[k - 1]) ]
    BY <1>5, <1>7, <1>8
<1>10. conf_exp_aliases(aliases, asked) = walk[n].hl \o walk[n].newhosts
    BY DEF conf_exp_aliases, base, n
<1>11. walk = [ k \in 0..n |-> IF k = 0 THEN base ELSE remove_alias(aliases, walk[k - 1]) ]
    BY <1>9
<1>. HIDE DEF walk
<1>. DEFINE I == { k \in 0..n : walk[k] \in Walked /\ Kept(k, walk[k]) }
<1>12. I = 0..n
    <2>1. 0 \in I
        <3>1. walk[0] = base
            BY <1>8, <1>11
        <3>. QED  BY <1>2, <1>8, <3>1
    <2>2. ASSUME NEW k \in 0..n - 1, k \in I
          PROVE  k + 1 \in I
        <3>1. k + 1 \in 1..n /\ (k + 1) - 1 = k /\ k + 1 \in 0..n /\ k + 1 # 0
            BY <1>1
        <3>2. walk[k + 1] = remove_alias(aliases, walk[k])
            BY <1>11, <3>1
        <3>3. walk[k] \in Walked /\ Kept(k, walk[k])
            BY <2>2
        <3>. DEFINE r == walk[k]
                    j == k + 1
        <3>4. r \in Walked /\ Kept(j - 1, r) /\ j \in 1..n
            BY <3>1, <3>3
        <3>. HIDE DEF r, j
        <3>5. remove_alias(aliases, r) \in Walked /\ Kept(j, remove_alias(aliases, r))
            BY <1>3, <3>4
        <3>. QED  BY <3>1, <3>2, <3>5 DEF r, j
    <2>3. I \in SUBSET (0..n)
        OBVIOUS
    <2>. HIDE DEF I
    <2>. QED  BY <1>1, <2>1, <2>2, <2>3, UpTo
<1>. DEFINE r == walk[n]
<1>13. r \in Walked /\ Covers(r, aliases, asked, total) /\ (Expanded(aliases, r.hl) \/ Len(r.hl) <= n - n)
    <2>1. n \in I
        <3>. HIDE DEF I
        <3>. QED  BY <1>8, <1>12
    <2>. QED  BY <2>1 DEF Kept
<1>. HIDE DEF r
<1>14. r.hl \in Seq(STRING) /\ r.newhosts \in Seq(STRING)
    BY <1>13 DEF Walked
<1>15. Expanded(aliases, r.hl)
    <2>1. CASE Len(r.hl) <= n - n
        <3>1. DOMAIN r.hl = {}
            BY <1>1, <1>14, <2>1
        <3>. QED  BY <3>1 DEF Expanded
    <2>. QED  BY <1>13, <2>1
<1>16. \A i \in 1..Len(r.hl) : r.hl[i] \in STRING /\ stands_for(aliases, r.hl[i]) = << r.hl[i] >>
    BY <1>14, <1>15 DEF Expanded, stands_for
<1>17. ASSUME NEW h \in STRING
       PROVE  occurrences(r.hl \o r.newhosts, h) = total[h]
    <2>1. PICK s : AddsUp(s, r.hl, weights(aliases, h)) /\ s[Len(r.hl)] + occurrences(r.newhosts, h) = total[h]
        BY <1>13 DEF Covers
    <2>2. \A i \in 1..Len(r.hl) : weights(aliases, h)[r.hl[i]] = IF r.hl[i] = h THEN 1 ELSE 0
        <3>1. ASSUME NEW i \in 1..Len(r.hl)
              PROVE  weights(aliases, h)[r.hl[i]] = IF r.hl[i] = h THEN 1 ELSE 0
            <4>. DEFINE x == r.hl[i]
            <4>1. x \in STRING /\ stands_for(aliases, x) = << x >>
                BY <1>16
            <4>. HIDE DEF x
            <4>2. weights(aliases, h)[x] = occurrences(<< x >>, h)
                BY <4>1, StandsFor
            <4>3. occurrences(<< x >>, h) = IF x = h THEN 1 ELSE 0
                BY <4>1, OccursOnce
            <4>. QED  BY <4>2, <4>3 DEF x
        <3>. QED  BY <3>1
    <2>3. s[Len(r.hl)] = occurrences(r.hl, h)
        <3>. DEFINE u == r.hl
                    w == weights(aliases, h)
        <3>. HIDE DEF u, w
        <3>1. u \in Seq(STRING)
            BY <1>14 DEF u
        <3>2. AddsUp(s, u, w)
            BY <2>1 DEF u, w
        <3>3. CountsIt(w, u, h)
            BY <2>2 DEF u, w, CountsIt
        <3>4. s[Len(u)] = occurrences(u, h)
            BY <3>1, <3>2, <3>3, AddsOccurrences
        <3>. QED  BY <3>4 DEF u
    <2>4. occurrences(r.hl \o r.newhosts, h) = occurrences(r.hl, h) + occurrences(r.newhosts, h)
        BY <1>14, OccursInBoth
    <2>. QED  BY <2>1, <2>3, <2>4
<1>18. ToSet(r.hl \o r.newhosts) = meant_by(aliases, asked)
    <2>1. meant_by(aliases, r.hl) = ToSet(r.hl)
        <3>1. DOMAIN r.hl = 1..Len(r.hl)
            BY <1>14
        <3>2. \A x : ToSet(<< x >>) = {x}
            BY DEF ToSet
        <3>3. \A i \in DOMAIN r.hl : ToSet(stands_for(aliases, r.hl[i])) = {r.hl[i]}
            BY <1>16, <3>1, <3>2
        <3>4. \A x : x \in meant_by(aliases, r.hl) <=> \E i \in DOMAIN r.hl : x = r.hl[i]
            BY <3>3 DEF meant_by
        <3>5. \A x : x \in ToSet(r.hl) <=> \E i \in DOMAIN r.hl : x = r.hl[i]
            BY DEF ToSet
        <3>. QED  BY <3>4, <3>5
    <2>2. ToSet(r.hl \o r.newhosts) = ToSet(r.hl) \cup ToSet(r.newhosts)
        BY <1>14, JoinedSet
    <2>. QED  BY <1>13, <2>1, <2>2 DEF Covers
<1>19. r.hl \o r.newhosts \in Seq(STRING) /\ conf_exp_aliases(aliases, asked) = r.hl \o r.newhosts
    BY <1>10, <1>14 DEF r
<1>. QED  BY <1>17, <1>18, <1>19

(***************************************************************************)
(* The requests of clients                                                 *)
(***************************************************************************)
Hosts == STRING \ {NoNode}

(* What is granted is what the hosts asked for come to, in a configuration *)
(* that no longer changes.                                                 *)
RequestInv ==
    /\ \A a \in DOMAIN conf_aliases : conf_aliases[a] \in Seq(Hosts)
    /\ request # NoRequest =>
         /\ status = "valid" /\ request.asked \in Seq(Hosts)
         /\ request.hl = conf_exp_aliases(conf_aliases, request.asked)
         /\ request.bad = bad_hosts(conf_nodes, request.hl)

(* Nothing is asked of a configuration that is being read.                 *)
LEMMA RequestStarts == ConfigInit => RequestInv
<1>1. DOMAIN << >> = {}
    OBVIOUS
<1>. QED  BY <1>1 DEF ConfigInit, RequestInv

(* Every line of the file, its end and a request keep that.                *)
LEMMA RequestKept == RequestInv /\ [ConfigNext]_config_vars => RequestInv'
<1>. SUFFICES ASSUME RequestInv, [ConfigNext]_config_vars PROVE RequestInv'
    OBVIOUS
<1>1. ASSUME status # "valid" \/ UNCHANGED << status, conf_nodes >>, UNCHANGED << conf_aliases, request >>
      PROVE  RequestInv'
    BY <1>1 DEF RequestInv
<1>2. ASSUME NEW s \in SpecTexts, makeSpec(s) PROVE RequestInv'
    BY <1>1, <1>2 DEF makeSpec, Reads
<1>3. ASSUME NEW s \in DeviceLines, makeDevice(s) PROVE RequestInv'
    BY <1>1, <1>3 DEF makeDevice, Reads
<1>4. ASSUME NEW s \in NodeLines, makeNode(s) PROVE RequestInv'
    BY <1>1, <1>4 DEF makeNode, Reads
<1>5. ASSUME NEW s \in AliasLines, makeAlias(s) PROVE RequestInv'
    <2>1. status = "parsing" /\ request' = request
        BY <1>5 DEF makeAlias, Reads
    <2>2. request' = NoRequest
        BY <2>1 DEF RequestInv
    <2>3. s.hosts \in Seq(Hosts)
        BY ConfigAssumption DEF Hosts
    <2>4. \A a \in DOMAIN conf_aliases' : conf_aliases'[a] \in Seq(Hosts)
        BY <1>5, <2>3 DEF makeAlias, RequestInv
    <2>. QED  BY <2>2, <2>4 DEF RequestInv
<1>6. ASSUME NEW a \in ListenLines, conf_add_listen(a) PROVE RequestInv'
    BY <1>1, <1>6 DEF conf_add_listen, Reads
<1>7. CASE validate_config
    BY <1>1, <1>7 DEF validate_config
<1>8. ASSUME NEW hl \in Requests, hostlist_create_validated(hl) PROVE RequestInv'
    <2>1. hl \in Seq(Hosts)
        BY ConfigAssumption DEF Hosts
    <2>. DEFINE x == conf_exp_aliases(conf_aliases, hl)
    <2>2. /\ request' = [ asked |-> hl, hl |-> x, bad |-> bad_hosts(conf_nodes, x) ]
          /\ UNCHANGED << conf_aliases, conf_nodes, status >> /\ status = "valid"
        BY <1>8 DEF hostlist_create_validated
    <2>. HIDE DEF x
    <2>3. request'.asked = hl /\ request'.hl = x /\ request'.bad = bad_hosts(conf_nodes, x)
        BY <2>2
    <2>4. request'.hl = conf_exp_aliases(conf_aliases', request'.asked)
        BY <2>2, <2>3 DEF x
    <2>. QED  BY <2>1, <2>2, <2>3, <2>4 DEF RequestInv
<1>9. CASE UNCHANGED config_vars
    BY <1>1, <1>9 DEF config_vars
<1>. QED  BY <1>2, <1>3, <1>4, <1>5, <1>6, <1>7, <1>8, <1>9 DEF ConfigNext

(* Which hosts are bad.                                                    *)
LEMMA BadHosts ==
    ASSUME NEW nodes, NEW hl \in Seq(STRING)
    PROVE  /\ ToSet(bad_hosts(nodes, hl)) = ToSet(hl) \ ToSet(nodes)
           /\ bad_hosts(nodes, hl) = << >> => ToSet(hl) \subseteq ToSet(nodes)
<1>. DEFINE S == { k \in DOMAIN hl : ~ \E i \in DOMAIN nodes : nodes[i] = hl[k] }
            m == Cardinality(S)
            f == ranked(S)
            b == elements_at(hl, S)
<1>1. DOMAIN hl = 1..Len(hl) /\ Len(hl) \in Nat
    OBVIOUS
<1>2. S \in SUBSET Int /\ IsFiniteSet(S)
    <2>1. S \in SUBSET (1..Len(hl)) /\ IsFiniteSet(1..Len(hl)) /\ 1..Len(hl) \in SUBSET Int
        BY <1>1, FS_Interval
    <2>. HIDE DEF S
    <2>. QED  BY <2>1, FS_Subset
<1>3. m \in Nat /\ Ascends(f, m, S)
    <2>. HIDE DEF S
    <2>. QED  BY <1>2, RankedAscends
<1>4. DOMAIN b = 1..m /\ \A i \in 1..m : b[i] = hl[f[i]]
    BY DEF elements_at
<1>5. b = bad_hosts(nodes, hl)
    BY DEF bad_hosts
<1>. HIDE DEF m, f, b
<1>6. \A x : x \in ToSet(b) <=> \E p \in S : x = hl[p]
    <2>. HIDE DEF S
    <2>1. \A i \in 1..m : f[i] \in S
        BY <1>3 DEF Ascends
    <2>2. \A p \in S : \E i \in 1..m : f[i] = p
        BY <1>3, Zenon DEF Ascends
    <2>3. \A x : x \in ToSet(b) <=> \E i \in 1..m : x = hl[f[i]]
        BY <1>4 DEF ToSet
    <2>. QED  BY <2>1, <2>2, <2>3, Zenon
<1>7. ToSet(b) = ToSet(hl) \ ToSet(nodes)
    <2>1. ASSUME NEW x
          PROVE  x \in ToSet(b) <=> x \in ToSet(hl) /\ x \notin ToSet(nodes)
        <3>1. x \in ToSet(hl) <=> \E k \in DOMAIN hl : hl[k] = x
            BY DEF ToSet
        <3>2. x \in ToSet(nodes) <=> \E i \in DOMAIN nodes : nodes[i] = x
            BY DEF ToSet
        <3>3. (\E p \in S : x = hl[p]) <=> \E k \in DOMAIN hl : hl[k] = x /\ ~ \E i \in DOMAIN nodes : nodes[i] = hl[k]
            OBVIOUS
        <3>. QED  BY <1>6, <3>1, <3>2, <3>3
    <2>. HIDE DEF S
    <2>. QED  BY <2>1
<1>8. ToSet(<< >>) = {}
    BY DEF ToSet
<1>. QED  BY <1>5, <1>7, <1>8

(* A node is on one plug, and what is no node on none.                     *)
LEMMA PlugsOf ==
    ASSUME ConfigInv, status = "valid", NEW h, h # NoNode
    PROVE  /\ places(h) = {} <=> h \notin ToSet(conf_nodes)
           /\ h \in ToSet(conf_nodes) => Cardinality(places(h)) = 1
<1>1. Placed(devices, conf_nodes, read("node")) /\ devices \in Seq(Devs)
    BY DEF ConfigInv, ConfigTypeOK
<1>2. places(h) = {} <=> h \notin ToSet(conf_nodes)
    <2>1. \A d \in DOMAIN devices : h \in OnPlugs(devices[d].plugs) <=> \E i \in DOMAIN devices[d].plugs : devices[d].plugs[i].node = h
        BY DEF OnPlugs
    <2>2. h \in ToSet(conf_nodes) <=> \E d \in DOMAIN devices : h \in OnPlugs(devices[d].plugs)
        BY <1>1 DEF Placed
    <2>3. places(h) # {} => \E d \in DOMAIN devices : \E i \in DOMAIN devices[d].plugs : devices[d].plugs[i].node = h
        BY DEF places
    <2>4. ASSUME NEW d \in DOMAIN devices, NEW i \in DOMAIN devices[d].plugs, devices[d].plugs[i].node = h
          PROVE  << d, i >> \in places(h)
        BY <2>4 DEF places
    <2>. QED  BY <2>1, <2>2, <2>3, <2>4
<1>3. ASSUME NEW d \in DOMAIN devices, NEW i \in DOMAIN devices[d].plugs, devices[d].plugs[i].node = h,
             NEW e \in DOMAIN devices, NEW j \in DOMAIN devices[e].plugs, devices[e].plugs[j].node = h
      PROVE  e = d /\ j = i
    <2>1. h \in OnPlugs(devices[e].plugs) /\ h \in OnPlugs(devices[d].plugs)
        BY <1>3 DEF OnPlugs
    <2>2. e = d
        BY <1>1, <2>1 DEF Placed
    <2>3. OneEach(devices[d].plugs)
        BY <1>1 DEF Placed
    <2>. QED  BY <1>3, <2>2, <2>3 DEF OneEach
<1>4. \A x, y \in places(h) : x = y
    BY <1>3 DEF places
<1>5. places(h) # {} => \E x : places(h) = {x}
    <2>. DEFINE P == places(h)
    <2>1. \A x, y \in P : x = y
        BY <1>4
    <2>. HIDE DEF P
    <2>2. P # {} => \E x : P = {x}
        BY <2>1
    <2>. QED  BY <2>2 DEF P
<1>. QED  BY <1>2, <1>5, FS_Singleton

(* The invariants make requests exact.                                     *)
LEMMA GrantsExactly == ConfigInv /\ RequestInv => RequestsAreExact
<1>. SUFFICES ASSUME ConfigInv, RequestInv, request # NoRequest PROVE RequestsAreExact
    BY DEF RequestsAreExact
<1>. DEFINE asked == request.asked
            hl    == request.hl
            meant(i) == IF asked[i] \in DOMAIN conf_aliases THEN conf_aliases[asked[i]] ELSE << asked[i] >>
            times(h) == LET add(n, i) == n + occurrences(meant(i), h)
                        IN  FoldLeft(add, 0, [ i \in DOMAIN asked |-> i ])
            hosts == ToSet(hl) \cup UNION { ToSet(meant(i)) : i \in DOMAIN asked }
            total == [ h \in STRING |-> times(h) ]
<1>1. /\ status = "valid" /\ asked \in Seq(Hosts) /\ hl = conf_exp_aliases(conf_aliases, asked)
      /\ request.bad = bad_hosts(conf_nodes, hl)
      /\ \A a \in DOMAIN conf_aliases : conf_aliases[a] \in Seq(Hosts)
    BY DEF RequestInv
<1>2. asked \in Seq(STRING) /\ GoodAliases(conf_aliases) /\ \A i \in DOMAIN asked : asked[i] \in Hosts
    <2>1. \A q : q \in Seq(Hosts) => q \in Seq(STRING)
        BY DEF Hosts
    <2>. QED  BY <1>1, <2>1 DEF GoodAliases
<1>3. \A i \in DOMAIN asked : meant(i) = stands_for(conf_aliases, asked[i])
    BY DEF stands_for
<1>4. SumsTo(conf_aliases, asked, total)
    <2>1. ASSUME NEW h \in STRING
          PROVE  \E s : AddsUp(s, asked, weights(conf_aliases, h)) /\ s[Len(asked)] = times(h)
        <3>. HIDE DEF asked
        <3>1. \E s : AddsUp(s, asked, weights(conf_aliases, h)) /\ s[Len(asked)] = counted(conf_aliases, asked, h)
            BY <1>2, SumsUp
        <3>2. times(h) = counted(conf_aliases, asked, h)
            BY Zenon DEF counted, stands_for
        <3>. HIDE DEF times
        <3>. QED  BY <3>1, <3>2
    <2>. HIDE DEF times, asked
    <2>2. \A h \in STRING : total[h] = times(h)
        OBVIOUS
    <2>. HIDE DEF total
    <2>. QED  BY Zenon, <2>1, <2>2 DEF SumsTo
<1>5. /\ hl \in Seq(STRING) /\ \A h \in STRING : occurrences(hl, h) = total[h]
      /\ ToSet(hl) = meant_by(conf_aliases, asked)
    <2>. HIDE DEF asked, total
    <2>. QED  BY <1>1, <1>2, <1>4, ExpandsExactly
<1>6. hosts = ToSet(hl)
    <2>1. UNION { ToSet(meant(i)) : i \in DOMAIN asked } = meant_by(conf_aliases, asked)
        <3>. HIDE DEF meant, asked
        <3>. QED  BY <1>3 DEF meant_by
    <2>. QED  BY <1>5, <2>1
<1>7. \A h \in hosts : h \in Hosts
    <2>1. ASSUME NEW i \in DOMAIN asked, NEW h \in ToSet(stands_for(conf_aliases, asked[i]))
          PROVE  h \in Hosts
        <3>1. CASE asked[i] \in DOMAIN conf_aliases
            <4>1. stands_for(conf_aliases, asked[i]) \in Seq(Hosts)
                BY <1>1, <3>1 DEF stands_for
            <4>. QED  BY <4>1 DEF ToSet
        <3>2. CASE asked[i] \notin DOMAIN conf_aliases
            <4>1. ToSet(<< asked[i] >>) = {asked[i]}
                BY DEF ToSet
            <4>. QED  BY <1>2, <3>2, <4>1 DEF stands_for
        <3>. QED  BY <3>1, <3>2
    <2>. HIDE DEF asked
    <2>2. \A h \in meant_by(conf_aliases, asked) : h \in Hosts
        BY <2>1 DEF meant_by
    <2>. QED  BY <1>5, <1>6, <2>2
<1>. HIDE DEF hosts
<1>8. \A h \in hosts : occurrences(hl, h) = times(h)
    <2>1. \A h \in STRING : occurrences(hl, h) = times(h)
        <3>. HIDE DEF times, hl
        <3>. QED  BY <1>5
    <2>. HIDE DEF times, hl
    <2>. QED  BY <1>7, <2>1 DEF Hosts
<1>9. /\ \A h \in hosts : h \in ToSet(request.bad) <=> h \notin ToSet(conf_nodes)
      /\ request.bad = << >> => \A h \in hosts : h \in ToSet(conf_nodes)
    <2>. HIDE DEF hl, asked
    <2>1. /\ ToSet(request.bad) = ToSet(hl) \ ToSet(conf_nodes)
          /\ request.bad = << >> => ToSet(hl) \subseteq ToSet(conf_nodes)
        BY <1>1, <1>5, BadHosts
    <2>. QED  BY <1>6, <2>1
<1>10. \A h \in hosts : /\ places(h) = {} <=> h \notin ToSet(conf_nodes)
                        /\ h \in ToSet(conf_nodes) => Cardinality(places(h)) = 1
    BY <1>1, <1>7, PlugsOf DEF Hosts
<1>11. /\ \A h \in hosts : occurrences(hl, h) = times(h)
       /\ request.bad = << >> => \A h \in hosts : Cardinality(places(h)) = 1
       /\ \A h \in hosts : h \in ToSet(request.bad) <=> places(h) = {}
    <2>1. request.bad = << >> => \A h \in hosts : Cardinality(places(h)) = 1
        BY <1>9, <1>10
    <2>2. \A h \in hosts : h \in ToSet(request.bad) <=> places(h) = {}
        BY <1>9, <1>10
    <2>. HIDE DEF times, hl
    <2>. QED  BY <1>8, <2>1, <2>2
<1>. QED  BY Zenon, <1>11 DEF RequestsAreExact, hosts

(* Whatever the configuration and whatever a client asks for: the command  *)
(* is for each host as often as the request and its aliases name it, and   *)
(* is refused if and only if one of them is on no plug (conf_exp_aliases   *)
(* of parse_util.c and _hostlist_create_validated of client.c).            *)
THEOREM RequestsAreGrantedExactly == ConfigSpec => []RequestsAreExact
BY GrantsExactly, ConfigStarts, ConfigKeeps, RequestStarts, RequestKept, PTL DEF ConfigSpec


(***************************************************************************)
(* Sequences of whatever elements                                          *)
(***************************************************************************)
IsSeq(s) == s \in Seq(ToSet(s))

(* A sequence is one.                                                      *)
LEMMA SeqIs ==
    ASSUME NEW T, NEW s \in Seq(T)
    PROVE  IsSeq(s) /\ Len(s) \in Nat /\ DOMAIN s = 1..Len(s)
<1>1. s = [ i \in 1..Len(s) |-> s[i] ] /\ Len(s) \in Nat /\ DOMAIN s = 1..Len(s)
    OBVIOUS
<1>2. \A i \in 1..Len(s) : s[i] \in ToSet(s)
    BY <1>1 DEF ToSet
<1>. QED  BY <1>1, <1>2 DEF IsSeq

(* So is one that is given element by element.                             *)
LEMMA ListIs ==
    ASSUME NEW s, NEW n \in Nat, s = [ i \in 1..n |-> s[i] ]
    PROVE  IsSeq(s) /\ Len(s) = n
<1>1. \A i \in 1..n : s[i] \in ToSet(s)
    BY DEF ToSet
<1>2. s \in Seq(ToSet(s))
    BY <1>1
<1>3. Len(s) = n
    BY <1>2
<1>. QED  BY <1>2, <1>3 DEF IsSeq

(* Its elements.                                                           *)
LEMMA SeqHas ==
    ASSUME NEW s, IsSeq(s)
    PROVE  Len(s) \in Nat /\ DOMAIN s = 1..Len(s) /\ s = [ i \in 1..Len(s) |-> s[i] ] /\ (Len(s) = 0 <=> s = << >>)
BY DEF IsSeq

(* None, and one.                                                          *)
LEMMA ShortSeqs ==
    /\ IsSeq(<< >>) /\ Len(<< >>) = 0
    /\ \A x : IsSeq(<< x >>) /\ Len(<< x >>) = 1 /\ << x >>[1] = x
<1>1. << >> \in Seq(ToSet(<< >>)) /\ Len(<< >>) = 0
    OBVIOUS
<1>2. ASSUME NEW x
      PROVE  IsSeq(<< x >>) /\ Len(<< x >>) = 1 /\ << x >>[1] = x
    <2>1. << x >> \in Seq({x})
        OBVIOUS
    <2>2. Len(<< x >>) = 1 /\ << x >>[1] = x
        OBVIOUS
    <2>. QED  BY <2>1, <2>2, SeqIs
<1>. QED  BY <1>1, <1>2 DEF IsSeq

(* Two of them in a row.                                                   *)
LEMMA Joins ==
    ASSUME NEW u, NEW v, IsSeq(u), IsSeq(v)
    PROVE  /\ IsSeq(u \o v) /\ Len(u) \in Nat /\ Len(v) \in Nat /\ Len(u \o v) = Len(u) + Len(v)
           /\ \A i \in 1..Len(u) : (u \o v)[i] = u[i]
           /\ \A j \in 1..Len(v) : (u \o v)[Len(u) + j] = v[j]
<1>. DEFINE T == ToSet(u) \cup ToSet(v)
<1>1. u \in Seq(T) /\ v \in Seq(T)
    <2>1. \A x : x \in ToSet(u) => x \in T
        OBVIOUS
    <2>2. \A x : x \in ToSet(v) => x \in T
        OBVIOUS
    <2>. HIDE DEF T
    <2>3. u \in Seq(T)
        BY <2>1 DEF IsSeq
    <2>4. v \in Seq(T)
        BY <2>2 DEF IsSeq
    <2>. QED  BY <2>3, <2>4
<1>. HIDE DEF T
<1>2. u \o v \in Seq(T)
    BY <1>1
<1>3. /\ Len(u) \in Nat /\ Len(v) \in Nat /\ Len(u \o v) = Len(u) + Len(v)
      /\ \A i \in 1..Len(u) : (u \o v)[i] = u[i]
      /\ \A j \in 1..Len(v) : (u \o v)[Len(u) + j] = v[j]
    BY <1>1
<1>. QED  BY <1>2, <1>3, SeqIs

(* Two that have the same elements are the same.                           *)
LEMMA SameSeq ==
    ASSUME NEW u, NEW v, IsSeq(u), IsSeq(v), Len(u) = Len(v), \A i \in 1..Len(u) : u[i] = v[i]
    PROVE  u = v
<1>1. u = [ i \in 1..Len(u) |-> u[i] ] /\ v = [ i \in 1..Len(u) |-> v[i] ]
    BY SeqHas
<1>. QED  BY <1>1

(* Nothing before or behind.                                               *)
LEMMA JoinsNone == ASSUME NEW u, IsSeq(u) PROVE u \o << >> = u /\ << >> \o u = u
<1>1. u \in Seq(ToSet(u))
    BY DEF IsSeq
<1>. QED  BY <1>1

(* Three in a row.                                                         *)
LEMMA Regroup ==
    ASSUME NEW u, NEW v, NEW w, IsSeq(u), IsSeq(v), IsSeq(w)
    PROVE  u \o (v \o w) = (u \o v) \o w
<1>. DEFINE T == ToSet(u) \cup ToSet(v) \cup ToSet(w)
<1>1. u \in Seq(T) /\ v \in Seq(T) /\ w \in Seq(T)
    <2>1. /\ \A x : x \in ToSet(u) => x \in T
          /\ \A x : x \in ToSet(v) => x \in T
          /\ \A x : x \in ToSet(w) => x \in T
        OBVIOUS
    <2>. HIDE DEF T
    <2>2. u \in Seq(T)
        BY <2>1 DEF IsSeq
    <2>3. v \in Seq(T)
        BY <2>1 DEF IsSeq
    <2>4. w \in Seq(T)
        BY <2>1 DEF IsSeq
    <2>. QED  BY <2>2, <2>3, <2>4
<1>. HIDE DEF T
<1>. QED  BY <1>1

(* A sequence without its first element.                                   *)
LEMMA Shortens ==
    ASSUME NEW s, IsSeq(s), s # << >>
    PROVE  LET r == SubSeq(s, 2, Len(s))
           IN  IsSeq(r) /\ Len(r) = Len(s) - 1 /\ \A i \in 1..Len(r) : r[i] = s[i + 1]
<1>. DEFINE n == Len(s)
            r == SubSeq(s, 2, n)
            m == (n - 2) + 1
<1>1. s \in Seq(ToSet(s)) /\ n \in Nat /\ n # 0
    BY SeqHas DEF IsSeq
<1>2. m \in Nat /\ m = n - 1 /\ \A i \in 1..m : (2 + i) - 1 = i + 1
    <2>. HIDE DEF n
    <2>. QED  BY <1>1
<1>3. r = [ i \in 1..m |-> s[(2 + i) - 1] ]
    <2>. DEFINE T == ToSet(s)
    <2>1. s \in Seq(T)
        BY <1>1
    <2>. HIDE DEF T
    <2>2. r = [ i \in 1..(n - 2) + 1 |-> s[(2 + i) - 1] ]
        BY <1>1, <2>1
    <2>. QED  BY <2>2
<1>. HIDE DEF n, m, r
<1>4. r = [ i \in 1..m |-> r[i] ] /\ \A i \in 1..m : r[i] = s[i + 1]
    BY <1>2, <1>3
<1>5. IsSeq(r) /\ Len(r) = m
    BY <1>2, <1>4, ListIs
<1>. QED  BY <1>2, <1>4, <1>5 DEF n, r

(* A sequence with one more element.                                       *)
LEMMA Lengthens ==
    ASSUME NEW s, IsSeq(s), NEW e
    PROVE  /\ IsSeq(Append(s, e)) /\ Len(s) \in Nat /\ Len(Append(s, e)) = Len(s) + 1
           /\ Append(s, e)[Len(s) + 1] = e /\ \A i \in 1..Len(s) : Append(s, e)[i] = s[i]
<1>. DEFINE T == ToSet(s) \cup {e}
<1>1. s \in Seq(T) /\ e \in T
    <2>1. e \in T /\ \A x : x \in ToSet(s) => x \in T
        OBVIOUS
    <2>. HIDE DEF T
    <2>. QED  BY <2>1 DEF IsSeq
<1>. HIDE DEF T
<1>2. /\ Append(s, e) \in Seq(T) /\ Len(s) \in Nat /\ Len(Append(s, e)) = Len(s) + 1
      /\ Append(s, e)[Len(s) + 1] = e /\ \A i \in 1..Len(s) : Append(s, e)[i] = s[i]
    BY <1>1
<1>. QED  BY <1>2, SeqIs

(***************************************************************************)
(* The list of commands                                                    *)
(***************************************************************************)
CommandLists == Seq(OptionLines)

(* One option more.                                                        *)
LEMMA CreateType ==
    ASSUME NEW list \in CommandLists, NEW opt \in OptionLines
    PROVE  cmd_create(list, opt) \in CommandLists
<1>1. << opt >> \o list \in Seq(OptionLines) /\ Append(list, opt) \in Seq(OptionLines)
    <2>. DEFINE T == OptionLines
    <2>1. list \in Seq(T) /\ opt \in T
        BY DEF CommandLists
    <2>. HIDE DEF T
    <2>2. << opt >> \in Seq(T)
        BY <2>1
    <2>3. << opt >> \o list \in Seq(T) /\ Append(list, opt) \in Seq(T)
        BY <2>1, <2>2
    <2>. QED  BY <2>3 DEF T
<1>. QED  BY <1>1 DEF cmd_create, CommandLists

(* More targets for the last command.                                      *)
LEMMA AppendType ==
    ASSUME NEW list \in CommandLists, NEW hosts \in Seq(STRING)
    PROVE  cmd_append(list, hosts) \in CommandLists
<1>. DEFINE n == Len(list)
<1>1. list \in Seq(OptionLines) /\ n \in Nat /\ DOMAIN list = 1..n
    BY DEF CommandLists
<1>2. CASE n = 0
    <2>1. cmd_append(list, hosts) = list
        BY <1>1, <1>2 DEF cmd_append
    <2>. QED  BY <2>1
<1>3. CASE n # 0
    <2>. DEFINE last == list[n]
                line == [ last EXCEPT !.hosts = @ \o hosts ]
    <2>1. n \in 1..n /\ last \in OptionLines
        BY <1>1, <1>3
    <2>2. last.hosts \o hosts \in Seq(STRING)
        <3>1. last.hosts \in Seq(STRING)
            BY <2>1 DEF OptionLines
        <3>. QED  BY <3>1
    <2>3. line \in OptionLines
        <3>. DEFINE h == last.hosts \o hosts
        <3>. HIDE DEF last, h
        <3>1. [ last EXCEPT !.hosts = h ] \in OptionLines
            BY <2>1, <2>2 DEF OptionLines, h
        <3>. QED  BY <3>1 DEF h
    <2>4. cmd_append(list, hosts) = [ list EXCEPT ![n] = line ]
        BY <1>1, <2>1 DEF cmd_append
    <2>. HIDE DEF line, n
    <2>. QED  BY <1>1, <2>1, <2>3, <2>4 DEF CommandLists
<1>. QED  BY <1>2, <1>3

(* The commands of the options.                                            *)
LEMMA CreatedType ==
    ASSUME NEW opts \in CommandLists
    PROVE  created(opts) \in CommandLists
<1>. DEFINE n    == Len(opts)
            step == [ i \in 1..n |-> [ x \in CommandLists |-> cmd_create(x, opts[i]) ] ]
            it   == CHOOSE g : g = [ e \in SUBSET DOMAIN opts |->
                       IF e = {} THEN << >> ELSE cmd_create(g[e \ {Max(e)}], opts[Max(e)]) ]
<1>1. n \in Nat /\ DOMAIN opts = 1..n /\ \A i \in 1..n : opts[i] \in OptionLines
    BY DEF CommandLists
<1>2. << >> \in CommandLists
    BY DEF CommandLists
<1>3. step \in [1..n -> [CommandLists -> CommandLists]]
    <2>1. \A i \in 1..n : \A x \in CommandLists : cmd_create(x, opts[i]) \in CommandLists
        BY <1>1, CreateType
    <2>. HIDE DEF n
    <2>. QED  BY <2>1
<1>4. created(opts) = it[DOMAIN opts]
    BY Zenon DEF created, FoldLeft, MapThenFoldSet
<1>. HIDE DEF n
<1>5. \E g : g = [ e \in SUBSET DOMAIN opts |->
                 IF e = {} THEN << >> ELSE cmd_create(g[e \ {Max(e)}], opts[Max(e)]) ]
    <2>. HIDE DEF step
    <2>1. PICK iter : TakesLast(iter, CommandLists, << >>, n, step)
        BY <1>1, <1>2, <1>3, FoldRuns
    <2>2. /\ iter \in [SUBSET (1..n) -> CommandLists]
          /\ \A e \in SUBSET (1..n) : iter[e] = IF e = {} THEN << >> ELSE step[Max(e)][iter[e \ {Max(e)}]]
        BY <2>1 DEF TakesLast
    <2>3. ASSUME NEW e \in SUBSET (1..n), e # {}
          PROVE  iter[e] = cmd_create(iter[e \ {Max(e)}], opts[Max(e)])
        <3>1. Max(e) \in 1..n
            BY <1>1, <2>3, MaxIn
        <3>2. e \ {Max(e)} \in SUBSET (1..n)
            OBVIOUS
        <3>. HIDE DEF Max
        <3>3. iter[e \ {Max(e)}] \in CommandLists
            BY <2>2, <3>2
        <3>4. iter[e] = step[Max(e)][iter[e \ {Max(e)}]]
            BY <2>2, <2>3
        <3>. QED  BY <3>1, <3>3, <3>4 DEF step
    <2>4. iter = [ e \in SUBSET DOMAIN opts |->
                     IF e = {} THEN << >> ELSE cmd_create(iter[e \ {Max(e)}], opts[Max(e)]) ]
        BY <1>1, <2>2, <2>3
    <2>. QED  BY <2>4
<1>6. it = [ e \in SUBSET DOMAIN opts |->
               IF e = {} THEN << >> ELSE cmd_create(it[e \ {Max(e)}], opts[Max(e)]) ]
    BY <1>5
<1>. HIDE DEF it
<1>7. IsReached(it[1..n], CommandLists, << >>, n, step)
    <2>1. it[{}] = << >>
        BY <1>6
    <2>2. ASSUME NEW i \in 1..n, it[1..i - 1] \in CommandLists
          PROVE  it[1..i] = step[i][it[1..i - 1]]
        <3>1. Max(1..i) = i /\ (1..i) \ {i} = 1..i - 1 /\ 1..i # {}
            BY MaxUpTo
        <3>2. 1..i \in SUBSET DOMAIN opts
            BY <1>1
        <3>. HIDE DEF Max
        <3>3. it[1..i] = cmd_create(it[1..i - 1], opts[i])
            BY <1>1, <1>6, <3>1, <3>2
        <3>. QED  BY <2>2, <3>3
    <2>. HIDE DEF step
    <2>3. GoesOn(it, CommandLists, << >>, n, step)
        BY <2>1, <2>2 DEF GoesOn
    <2>. QED  BY <1>1, <1>2, <1>3, <2>3, FoldValues
<1>. HIDE DEF step
<1>8. it[1..n] \in CommandLists
    <2>1. n \in 0..n
        BY <1>1
    <2>. QED  BY <1>7, <2>1 DEF IsReached, GoesUp
<1>. QED  BY <1>1, <1>4, <1>8

(* The commands of a command line.                                         *)
LEMMA PreparedType ==
    ASSUME NEW c \in [ opts : Seq(OptionLines), more : Seq(Seq(STRING)), ignore : BOOLEAN ]
    PROVE  prepared(c) \in CommandLists
<1>. DEFINE more == c.more
            base == created(c.opts)
            n    == Len(more)
            step == [ i \in 1..n |-> [ x \in CommandLists |-> cmd_append(x, more[i]) ] ]
            it   == CHOOSE g : g = [ e \in SUBSET DOMAIN more |->
                       IF e = {} THEN base ELSE cmd_append(g[e \ {Max(e)}], more[Max(e)]) ]
<1>1. n \in Nat /\ DOMAIN more = 1..n /\ \A i \in 1..n : more[i] \in Seq(STRING)
    OBVIOUS
<1>2. base \in CommandLists
    BY CreatedType DEF CommandLists
<1>3. step \in [1..n -> [CommandLists -> CommandLists]]
    <2>1. \A i \in 1..n : \A x \in CommandLists : cmd_append(x, more[i]) \in CommandLists
        BY <1>1, AppendType
    <2>. HIDE DEF n
    <2>. QED  BY <2>1
<1>4. prepared(c) = it[DOMAIN more]
    BY Zenon DEF prepared, FoldLeft, MapThenFoldSet
<1>. HIDE DEF n, more, base
<1>5. \E g : g = [ e \in SUBSET DOMAIN more |->
                 IF e = {} THEN base ELSE cmd_append(g[e \ {Max(e)}], more[Max(e)]) ]
    <2>. HIDE DEF step
    <2>1. PICK iter : TakesLast(iter, CommandLists, base, n, step)
        BY <1>1, <1>2, <1>3, FoldRuns
    <2>2. /\ iter \in [SUBSET (1..n) -> CommandLists]
          /\ \A e \in SUBSET (1..n) : iter[e] = IF e = {} THEN base ELSE step[Max(e)][iter[e \ {Max(e)}]]
        BY <2>1 DEF TakesLast
    <2>3. ASSUME NEW e \in SUBSET (1..n), e # {}
          PROVE  iter[e] = cmd_append(iter[e \ {Max(e)}], more[Max(e)])
        <3>1. Max(e) \in 1..n
            BY <1>1, <2>3, MaxIn
        <3>2. e \ {Max(e)} \in SUBSET (1..n)
            OBVIOUS
        <3>. HIDE DEF Max
        <3>3. iter[e \ {Max(e)}] \in CommandLists
            BY <2>2, <3>2
        <3>4. iter[e] = step[Max(e)][iter[e \ {Max(e)}]]
            BY <2>2, <2>3
        <3>. QED  BY <3>1, <3>3, <3>4 DEF step
    <2>4. iter = [ e \in SUBSET DOMAIN more |->
                     IF e = {} THEN base ELSE cmd_append(iter[e \ {Max(e)}], more[Max(e)]) ]
        BY <1>1, <2>2, <2>3
    <2>. QED  BY <2>4
<1>6. it = [ e \in SUBSET DOMAIN more |->
               IF e = {} THEN base ELSE cmd_append(it[e \ {Max(e)}], more[Max(e)]) ]
    BY <1>5
<1>. HIDE DEF it
<1>7. IsReached(it[1..n], CommandLists, base, n, step)
    <2>1. it[{}] = base
        BY <1>6
    <2>2. ASSUME NEW i \in 1..n, it[1..i - 1] \in CommandLists
          PROVE  it[1..i] = step[i][it[1..i - 1]]
        <3>1. Max(1..i) = i /\ (1..i) \ {i} = 1..i - 1 /\ 1..i # {}
            BY MaxUpTo
        <3>2. 1..i \in SUBSET DOMAIN more
            BY <1>1
        <3>. HIDE DEF Max
        <3>3. it[1..i] = cmd_append(it[1..i - 1], more[i])
            BY <1>1, <1>6, <3>1, <3>2
        <3>. QED  BY <2>2, <3>3
    <2>. HIDE DEF step
    <2>3. GoesOn(it, CommandLists, base, n, step)
        BY <2>1, <2>2 DEF GoesOn
    <2>. QED  BY <1>1, <1>2, <1>3, <2>3, FoldValues
<1>. HIDE DEF step
<1>8. it[1..n] \in CommandLists
    <2>1. n \in 0..n
        BY <1>1
    <2>. QED  BY <1>7, <2>1 DEF IsReached, GoesUp
<1>. QED  BY <1>1, <1>4, <1>8

(***************************************************************************)
(* What is on its way to the command                                       *)
(***************************************************************************)
Talk(r) == r.code # 0 /\ ~is_alldone(r.code)
AllTalk(s) == \A i \in 1..Len(s) : Talk(s[i])

(* The beginning of a response, of its end and the prompt, of the greeting *)
(* and of the goodbye.                                                     *)
Begins(s, m, code) ==
    /\ Len(s) <= m + 2
    /\ \A i \in 1..Len(s) : /\ i <= m => Talk(s[i])
                            /\ i = m + 1 => s[i].code = code
                            /\ i = m + 2 => s[i] = Prompt
Responds(s, code) == \E m \in Nat : Begins(s, m, code)
OnlyPrompt(s) == Len(s) <= 1 /\ \A i \in 1..Len(s) : s[i] = Prompt
Greets(s) == Len(s) <= 2 /\ \A i \in 1..Len(s) : s[i] = IF i = 1 THEN Version ELSE Prompt
Bye(s) == Len(s) <= 1 /\ \A i \in 1..Len(s) : s[i].code = 101

(* u is the beginning of s, or s without the first.                        *)
StartsAs(u, s) == Len(u) <= Len(s) /\ \A i \in 1..Len(u) : u[i] = s[i]
Rest(u, s) == s # << >> /\ Len(u) = Len(s) - 1 /\ \A i \in 1..Len(u) : u[i] = s[i + 1]

(* Nothing is on its way.                                                  *)
LEMMA NothingBegins ==
    Greets(<< >>) /\ OnlyPrompt(<< >>) /\ AllTalk(<< >>)
<1>1. Len(<< >>) = 0
    OBVIOUS
<1>. QED  BY <1>1 DEF Greets, OnlyPrompt, AllTalk

(* What begins so still does when the rest is lost.                        *)
LEMMA FrontKeeps ==
    ASSUME NEW u, NEW s, IsSeq(u), IsSeq(s), StartsAs(u, s)
    PROVE  /\ Greets(s) => Greets(u)
           /\ OnlyPrompt(s) => OnlyPrompt(u)
           /\ Bye(s) => Bye(u)
           /\ AllTalk(s) => AllTalk(u)
           /\ \A code : Responds(s, code) => Responds(u, code)
           /\ s = << >> => u = << >>
<1>1. /\ Len(u) \in Nat /\ Len(s) \in Nat /\ (Len(u) = 0 <=> u = << >>) /\ (Len(s) = 0 <=> s = << >>)
      /\ Len(u) <= Len(s)
    BY SeqHas DEF StartsAs
<1>2. \A i \in 1..Len(u) : i \in 1..Len(s) /\ u[i] = s[i]
    BY <1>1 DEF StartsAs
<1>3. Greets(s) => Greets(u)
    BY <1>1, <1>2 DEF Greets
<1>4. OnlyPrompt(s) => OnlyPrompt(u)
    BY <1>1, <1>2 DEF OnlyPrompt
<1>5. Bye(s) => Bye(u)
    BY <1>1, <1>2 DEF Bye
<1>6. AllTalk(s) => AllTalk(u)
    BY <1>1, <1>2 DEF AllTalk
<1>7. ASSUME NEW code, Responds(s, code)
      PROVE  Responds(u, code)
    <2>1. PICK m \in Nat : Begins(s, m, code)
        BY <1>7 DEF Responds
    <2>2. Begins(u, m, code)
        BY <1>1, <1>2, <2>1 DEF Begins
    <2>. QED  BY <2>2 DEF Responds
<1>8. s = << >> => u = << >>
    BY <1>1
<1>. QED  BY <1>3, <1>4, <1>5, <1>6, <1>7, <1>8

(* What the first is, and the rest.                                        *)
LEMMA RestIs ==
    ASSUME NEW u, NEW s, IsSeq(u), IsSeq(s), Rest(u, s)
    PROVE  /\ Greets(s) => s[1] = Version /\ OnlyPrompt(u)
           /\ OnlyPrompt(s) => s[1] = Prompt /\ u = << >>
           /\ Bye(s) => s[1].code = 101
           /\ AllTalk(s) => Talk(s[1]) /\ AllTalk(u)
           /\ \A code : Responds(s, code) => \/ Talk(s[1]) /\ Responds(u, code)
                                             \/ s[1].code = code /\ OnlyPrompt(u)
<1>1. /\ Len(u) \in Nat /\ Len(s) \in Nat /\ (Len(u) = 0 <=> u = << >>) /\ Len(s) # 0
      /\ Len(u) = Len(s) - 1 /\ 1 \in 1..Len(s)
    BY SeqHas DEF Rest
<1>2. \A i \in 1..Len(u) : i + 1 \in 1..Len(s) /\ i + 1 # 1 /\ u[i] = s[i + 1]
    BY <1>1 DEF Rest
<1>3. Greets(s) => s[1] = Version /\ OnlyPrompt(u)
    BY <1>1, <1>2 DEF Greets, OnlyPrompt
<1>4. OnlyPrompt(s) => s[1] = Prompt /\ u = << >>
    BY <1>1, <1>2 DEF OnlyPrompt
<1>5. Bye(s) => s[1].code = 101
    BY <1>1 DEF Bye
<1>6. AllTalk(s) => Talk(s[1]) /\ AllTalk(u)
    BY <1>1, <1>2 DEF AllTalk
<1>7. ASSUME NEW code, Responds(s, code)
      PROVE  \/ Talk(s[1]) /\ Responds(u, code)
             \/ s[1].code = code /\ OnlyPrompt(u)
    <2>1. PICK m \in Nat : Begins(s, m, code)
        BY <1>7 DEF Responds
    <2>2. CASE m = 0
        <3>1. Len(u) <= 1 /\ \A i \in 1..Len(u) : i + 1 = m + 2
            BY <1>1, <2>1, <2>2 DEF Begins
        <3>2. OnlyPrompt(u)
            BY <1>2, <2>1, <3>1 DEF Begins, OnlyPrompt
        <3>3. s[1].code = code
            BY <1>1, <2>1, <2>2 DEF Begins
        <3>. QED  BY <3>2, <3>3
    <2>3. CASE m # 0
        <3>1. /\ m - 1 \in Nat /\ 1 <= m /\ Len(u) <= (m - 1) + 2
              /\ \A i \in 1..Len(u) : /\ i <= m - 1 => i + 1 <= m
                                      /\ i = (m - 1) + 1 => i + 1 = m + 1
                                      /\ i = (m - 1) + 2 => i + 1 = m + 2
            BY <1>1, <2>1, <2>3 DEF Begins
        <3>2. Begins(u, m - 1, code)
            BY <1>2, <2>1, <3>1 DEF Begins
        <3>3. Talk(s[1])
            BY <1>1, <2>1, <3>1 DEF Begins
        <3>. QED  BY <3>1, <3>2, <3>3 DEF Responds
    <2>. QED  BY <2>2, <2>3
<1>. QED  BY <1>3, <1>4, <1>5, <1>6, <1>7

(* Responses that end with a code.                                         *)
EndsTalk(s, code) ==
    \E m \in Nat : /\ Len(s) = m + 1 /\ s[m + 1].code = code
                  /\ \A i \in 1..m : Talk(s[i])

(* The last is the code.                                                   *)
LEMMA PlainEnds ==
    ASSUME NEW s, IsSeq(s), AllTalk(s), NEW code
    PROVE  /\ IsSeq(s \o Plain(code)) /\ EndsTalk(s \o Plain(code), code)
           /\ (s \o Plain(code))[Len(s \o Plain(code))].code = code
<1>. DEFINE p == Resp(code, << >>, "")
            w == s \o << p >>
            n == Len(s)
<1>1. IsSeq(<< p >>) /\ Len(<< p >>) = 1 /\ << p >>[1] = p /\ p.code = code
    <2>1. p.code = code
        BY DEF Resp
    <2>. HIDE DEF p
    <2>. QED  BY <2>1, ShortSeqs
<1>2. Plain(code) = << p >>
    BY DEF Plain
<1>. HIDE DEF p
<1>3. /\ IsSeq(w) /\ n \in Nat /\ Len(w) = n + 1 /\ \A i \in 1..n : w[i] = s[i]
      /\ w[n + 1] = p
    <2>1. /\ IsSeq(w) /\ n \in Nat /\ Len(w) = n + Len(<< p >>) /\ \A i \in 1..n : w[i] = s[i]
          /\ \A j \in 1..Len(<< p >>) : w[n + j] = << p >>[j]
        BY <1>1, Joins
    <2>2. 1 \in 1..Len(<< p >>)
        BY <1>1
    <2>. HIDE DEF w, n
    <2>. QED  BY <1>1, <2>1, <2>2
<1>4. \A i \in 1..n : Talk(w[i])
    BY <1>3 DEF AllTalk
<1>. HIDE DEF w, n
<1>5. EndsTalk(w, code)
    BY <1>1, <1>3, <1>4 DEF EndsTalk
<1>. QED  BY <1>1, <1>2, <1>3, <1>5 DEF w

(* A code alone.                                                           *)
LEMMA PlainAlone ==
    ASSUME NEW code
    PROVE  IsSeq(Plain(code)) /\ EndsTalk(Plain(code), code) /\ Plain(code)[Len(Plain(code))].code = code
<1>1. IsSeq(<< >>) /\ AllTalk(<< >>) /\ IsSeq(Plain(code))
    BY ShortSeqs, NothingBegins DEF Plain
<1>2. << >> \o Plain(code) = Plain(code)
    BY <1>1, JoinsNone
<1>. QED  BY <1>1, <1>2, PlainEnds

(* Talk, responses with their end, and the prompt.                         *)
LEMMA RespondsSo ==
    ASSUME NEW u, NEW s, NEW code, IsSeq(u), IsSeq(s), AllTalk(u), EndsTalk(s, code)
    PROVE  IsSeq((u \o s) \o << Prompt >>) /\ Responds((u \o s) \o << Prompt >>, code)
<1>. DEFINE x == u \o s
            n == Len(u)
<1>1. PICK m \in Nat : Len(s) = m + 1 /\ s[m + 1].code = code /\ \A i \in 1..m : Talk(s[i])
    BY DEF EndsTalk
<1>2. /\ IsSeq(x) /\ n \in Nat /\ Len(x) = n + (m + 1)
      /\ \A i \in 1..n : x[i] = u[i]
      /\ \A j \in 1..m + 1 : x[n + j] = s[j]
    BY <1>1, Joins
<1>3. IsSeq(<< Prompt >>) /\ Len(<< Prompt >>) = 1 /\ << Prompt >>[1] = Prompt
    BY ShortSeqs
<1>. HIDE DEF x, n
<1>. DEFINE y == x \o << Prompt >>
            k == n + m
<1>4. /\ IsSeq(y) /\ Len(y) = Len(x) + Len(<< Prompt >>)
      /\ \A i \in 1..Len(x) : y[i] = x[i]
      /\ \A j \in 1..Len(<< Prompt >>) : y[Len(x) + j] = << Prompt >>[j]
    BY <1>2, <1>3, Joins
<1>5. y[Len(x) + 1] = Prompt
    <2>1. 1 \in 1..Len(<< Prompt >>)
        BY <1>3
    <2>. HIDE DEF y
    <2>. QED  BY <1>3, <1>4, <2>1
<1>. HIDE DEF y
<1>6. k \in Nat /\ Len(x) = k + 1 /\ Len(y) = k + 2
    BY <1>2, <1>3, <1>4
<1>7. ASSUME NEW i \in 1..Len(y), i <= k
      PROVE  Talk(y[i])
    <2>1. y[i] = x[i]
        BY <1>2, <1>4, <1>6, <1>7
    <2>2. CASE i \in 1..n
        BY <1>2, <2>1, <2>2 DEF AllTalk, n
    <2>3. CASE i \notin 1..n
        <3>1. i - n \in 1..m /\ i - n \in 1..m + 1 /\ n + (i - n) = i
            BY <1>2, <1>6, <1>7, <2>3
        <3>2. x[n + (i - n)] = s[i - n]
            BY <1>2, <3>1
        <3>. QED  BY <1>1, <2>1, <3>1, <3>2
    <2>. QED  BY <2>2, <2>3
<1>8. y[k + 1].code = code
    <2>1. m + 1 \in 1..m + 1 /\ n + (m + 1) = k + 1 /\ k + 1 \in 1..Len(x)
        BY <1>2, <1>6
    <2>2. x[n + (m + 1)] = s[m + 1]
        BY <1>2, <2>1
    <2>3. y[k + 1] = x[n + (m + 1)]
        BY <1>4, <2>1
    <2>. QED  BY <1>1, <2>2, <2>3
<1>9. y[k + 2] = Prompt
    <2>1. Len(x) + 1 = k + 2
        BY <1>6
    <2>. QED  BY <1>5, <2>1
<1>. HIDE DEF k
<1>10. Begins(y, k, code)
    BY <1>6, <1>7, <1>8, <1>9 DEF Begins
<1>. QED  BY <1>4, <1>6, <1>10 DEF Responds, y, x

(***************************************************************************)
(* The inductive invariant of the command                                  *)
(***************************************************************************)
Typing == [ opts : Seq(OptionLines), more : Seq(Seq(STRING)), ignore : BOOLEAN ]

(* What it means to send, how much of it has been sent, what is to come.   *)
Meant == prepared(cl)
Sent == Len(Meant) - Len(commands)
Stream == down \o to

Quiet == up = << >> /\ cmd = NoCmd
Linked == conn \in { "open", "closed" }

(* The first k commands were answered, all but the last without a failure  *)
(* that counts; the result is that of the last.                            *)
CarriedOut(k) == k <= Len(served) /\ \A i \in 1..k : served[i].line = Meant[i]
Tolerated(k) == \A i \in 1..k : is_failure(served[i].code) => cl.ignore
Settled(k) ==
    /\ Tolerated(k - 1)
    /\ res = 0 => Tolerated(k)
    /\ res # 0 => k >= 1 /\ ~cl.ignore /\ is_failure(res) /\ served[k].code = res

ToolTypes ==
    /\ cl \in Typing /\ commands \in CommandLists /\ Len(commands) <= Len(Meant)
    /\ \A i \in 1..Len(commands) : commands[i] = Meant[Sent + i]
    /\ IsSeq(down) /\ IsSeq(to) /\ IsSeq(served)
    /\ cmd # NoCmd => /\ cmd.line.word \in DeviceWords /\ cmd.args \in Seq(STRING)
                      /\ cmd = [ line |-> cmd.line, args |-> cmd.args, pending |-> cmd.pending, error |-> cmd.error ]

AtStart == at = "start" /\ conn = "none" /\ Quiet /\ Stream = << >> /\ served = << >> /\ res = 0

Greeted ==
    /\ at = "version" /\ conn \in { "connecting", "open", "closed" } /\ Quiet
    /\ conn = "connecting" => Stream = << >>
    /\ Greets(Stream) /\ served = << >> /\ res = 0 /\ Sent = 0

AtPrompt == at = "prompt" /\ Linked /\ Quiet /\ OnlyPrompt(Stream) /\ served = << >> /\ res = 0 /\ Sent = 0

AtNext ==
    /\ at = "next" /\ Linked /\ Quiet /\ Stream = << >>
    /\ Len(served) = Sent /\ CarriedOut(Sent) /\ Settled(Sent)

(* A line is on its way, its actions are under way, it is answered.        *)
Awaiting == at = "response" /\ Linked /\ Sent >= 1 /\ CarriedOut(Sent - 1) /\ Tolerated(Sent - 1)
Requested == Awaiting /\ up = << Meant[Sent] >> /\ cmd = NoCmd /\ Stream = << >> /\ Len(served) = Sent - 1
Working ==
    /\ Awaiting /\ up = << >> /\ AllTalk(Stream) /\ Len(served) = Sent - 1
    /\ IF cmd = NoCmd THEN conn = "closed" ELSE cmd.line = Meant[Sent]
Answered ==
    /\ Awaiting /\ Quiet /\ Len(served) = Sent /\ served[Sent].line = Meant[Sent]
    /\ is_alldone(served[Sent].code) /\ Responds(Stream, served[Sent].code)

AtPrompted ==
    /\ at = "prompted" /\ Linked /\ Quiet /\ OnlyPrompt(Stream)
    /\ Sent >= 1 /\ Len(served) = Sent /\ CarriedOut(Sent) /\ Tolerated(Sent - 1)
    /\ res = IF is_failure(served[Sent].code) THEN served[Sent].code ELSE 0

Over == Linked /\ cmd = NoCmd /\ CarriedOut(Sent) /\ Settled(Sent) /\ (commands = << >> \/ res # 0)
Leaving == at = "goodbye" /\ Over /\ up = << Line("quit", << >>) >> /\ Stream = << >> /\ Len(served) = Sent
HasQuit == conn = "closed" /\ Len(served) = Sent + 1 /\ served[Sent + 1].line.word = "quit"
Parting == at = "goodbye" /\ Over /\ HasQuit /\ Bye(Stream)
AtEnd == at = "end" /\ exit = res /\ Over /\ HasQuit

ToolRuns ==
    \/ AtStart \/ Greeted \/ AtPrompt \/ AtNext \/ Requested \/ Working \/ Answered
    \/ AtPrompted \/ Leaving \/ Parting

ToolInv ==
    \/ at = "end" /\ exit = 1
    \/ ToolTypes /\ AtEnd
    \/ ToolTypes /\ exit = -1 /\ ToolRuns

(* The numbers behind it.                                                  *)
LEMMA ToolNumbers ==
    ASSUME ToolTypes
    PROVE  /\ Meant \in CommandLists /\ Len(Meant) \in Nat /\ Len(commands) \in Nat /\ Sent \in Nat
           /\ DOMAIN commands = 1..Len(commands) /\ (Len(commands) = 0 <=> commands = << >>)
           /\ Len(served) \in Nat /\ DOMAIN served = 1..Len(served) /\ (Len(served) = 0 <=> served = << >>)
           /\ IsSeq(Stream)
<1>1. Meant \in CommandLists
    BY PreparedType DEF ToolTypes, Typing, Meant
<1>2. Len(Meant) \in Nat /\ Len(commands) \in Nat /\ DOMAIN commands = 1..Len(commands)
      /\ (Len(commands) = 0 <=> commands = << >>)
    BY <1>1 DEF ToolTypes, CommandLists
<1>3. Sent \in Nat
    BY <1>2 DEF ToolTypes, Sent
<1>4. Len(served) \in Nat /\ DOMAIN served = 1..Len(served) /\ (Len(served) = 0 <=> served = << >>)
    BY SeqHas DEF ToolTypes
<1>5. IsSeq(Stream)
    BY Joins DEF ToolTypes, Stream
<1>. QED  BY <1>1, <1>2, <1>3, <1>4, <1>5

(* What depends on the commands and their answers alone.                   *)
LEMMA SameCommands ==
    ASSUME UNCHANGED << cl, commands >>
    PROVE  /\ Meant' = Meant /\ Sent' = Sent
           /\ served' = served => \A k : /\ CarriedOut(k)' <=> CarriedOut(k)
                                         /\ Tolerated(k)' <=> Tolerated(k)
                                         /\ res' = res => (Settled(k)' <=> Settled(k))
BY DEF Meant, Sent, CarriedOut, Tolerated, Settled

(* One answer more.                                                        *)
LEMMA OneMoreAnswer ==
    ASSUME ToolTypes, UNCHANGED << cl, commands >>, NEW e, served' = Append(served, e)
    PROVE  /\ IsSeq(served') /\ Len(served') = Len(served) + 1 /\ served'[Len(served) + 1] = e
           /\ \A k \in Int : k <= Len(served) => /\ CarriedOut(k) => CarriedOut(k)'
                                                 /\ Tolerated(k) => Tolerated(k)'
                                                 /\ res' = res /\ Settled(k) => Settled(k)'
<1>1. Meant' = Meant /\ cl' = cl /\ Len(served) \in Nat
    BY ToolNumbers, SameCommands
<1>2. /\ IsSeq(served') /\ Len(served') = Len(served) + 1 /\ served'[Len(served) + 1] = e
      /\ \A i \in 1..Len(served) : served'[i] = served[i]
    BY Lengthens DEF ToolTypes
<1>3. ASSUME NEW k \in Int, k <= Len(served)
      PROVE  /\ CarriedOut(k) => CarriedOut(k)'
             /\ Tolerated(k) => Tolerated(k)'
             /\ res' = res /\ Settled(k) => Settled(k)'
    <2>1. \A i \in 1..k : i \in 1..Len(served)
        BY <1>1, <1>3
    <2>2. \A i \in 1..k - 1 : i \in 1..Len(served)
        BY <1>1, <1>3
    <2>3. CarriedOut(k) => CarriedOut(k)'
        BY <1>1, <1>2, <1>3, <2>1 DEF CarriedOut
    <2>4. Tolerated(k) => Tolerated(k)'
        BY <1>1, <1>2, <2>1 DEF Tolerated
    <2>5. Tolerated(k - 1) => Tolerated(k - 1)'
        BY <1>1, <1>2, <2>2 DEF Tolerated
    <2>6. k >= 1 => served'[k] = served[k]
        BY <1>1, <1>2, <1>3
    <2>7. res' = res /\ Settled(k) => Settled(k)'
        BY <1>1, <2>4, <2>5, <2>6 DEF Settled
    <2>. QED  BY <2>3, <2>4, <2>7
<1>. QED  BY <1>2, <1>3

(* A response is taken.                                                    *)
LEMMA TakesOne ==
    ASSUME IsSeq(down), IsSeq(to), down # << >>, Takes(1)
    PROVE  IsSeq(down') /\ IsSeq(to') /\ IsSeq(Stream') /\ Rest(Stream', Stream) /\ Stream[1] = down[1]
<1>. DEFINE n == Len(down)
            m == Len(to)
<1>1. IsSeq(down') /\ Len(down') = n - 1 /\ n \in Nat /\ n # 0 /\ \A i \in 1..n - 1 : down'[i] = down[i + 1]
    BY Shortens, SeqHas DEF Takes
<1>2. to' = to
    BY DEF Takes
<1>3. /\ IsSeq(Stream) /\ m \in Nat /\ Len(Stream) = n + m
      /\ \A i \in 1..n : Stream[i] = down[i]
      /\ \A j \in 1..m : Stream[n + j] = to[j]
    BY Joins DEF Stream
<1>4. /\ IsSeq(Stream') /\ Len(Stream') = (n - 1) + m
      /\ \A i \in 1..n - 1 : Stream'[i] = down'[i]
      /\ \A j \in 1..m : Stream'[(n - 1) + j] = to[j]
    <2>1. Stream' = down' \o to
        BY <1>2 DEF Stream
    <2>. HIDE DEF n, m
    <2>2. /\ IsSeq(down' \o to) /\ Len(down' \o to) = Len(down') + Len(to)
          /\ \A i \in 1..Len(down') : (down' \o to)[i] = down'[i]
          /\ \A j \in 1..Len(to) : (down' \o to)[Len(down') + j] = to[j]
        BY <1>1, Joins
    <2>. QED  BY <1>1, <2>1, <2>2 DEF m
<1>. HIDE DEF n, m
<1>5. Stream # << >> /\ Stream[1] = down[1] /\ Len(Stream') = Len(Stream) - 1
    <2>1. Len(Stream) # 0 /\ 1 \in 1..n /\ (n - 1) + m = (n + m) - 1
        BY <1>1, <1>3
    <2>2. Stream # << >>
        BY <1>3, <2>1, SeqHas
    <2>3. Len(Stream') = Len(Stream) - 1
        BY <1>3, <1>4, <2>1
    <2>. QED  BY <1>3, <2>1, <2>2, <2>3
<1>6. ASSUME NEW i \in 1..Len(Stream')
      PROVE  Stream'[i] = Stream[i + 1]
    <2>1. CASE i <= n - 1
        <3>1. i \in 1..n - 1 /\ i + 1 \in 1..n
            BY <1>1, <1>4, <2>1
        <3>. QED  BY <1>1, <1>3, <1>4, <3>1
    <2>2. CASE i > n - 1
        <3>. DEFINE j == i - (n - 1)
        <3>1. j \in 1..m /\ (n - 1) + j = i /\ n + j = i + 1
            BY <1>1, <1>3, <1>4, <2>2
        <3>. HIDE DEF j
        <3>2. Stream'[(n - 1) + j] = to[j] /\ Stream[n + j] = to[j]
            BY <1>3, <1>4, <3>1
        <3>. QED  BY <3>1, <3>2
    <2>. QED  BY <1>1, <1>4, <2>1, <2>2
<1>. QED  BY <1>1, <1>2, <1>4, <1>5, <1>6 DEF Rest

(* The first on its way is the first there is to read.                     *)
LEMMA FirstToRead ==
    ASSUME ToolTypes, HasLine
    PROVE  IsSeq(down) /\ IsSeq(to) /\ down # << >> /\ Stream[1] = down[1] /\ 1 \in 1..Len(Stream)
<1>. DEFINE n == Len(down)
            m == Len(to)
<1>1. down # << >> /\ IsSeq(down) /\ IsSeq(to)
    BY DEF HasLine, ToolTypes
<1>2. n \in Nat /\ m \in Nat /\ n # 0 /\ Len(Stream) = n + m /\ \A i \in 1..n : Stream[i] = down[i]
    BY <1>1, SeqHas, Joins DEF Stream
<1>. HIDE DEF n, m
<1>3. 1 \in 1..n /\ 1 \in 1..n + m
    BY <1>2
<1>. QED  BY <1>1, <1>2, <1>3

(* When it is no prompt, it is a line of its own.                          *)
LEMMA ReadsOne ==
    ASSUME ToolTypes, HasLine, Stream[1].code # 0, Takes(line_length)
    PROVE  Takes(1) /\ line_code = Stream[1].code
<1>1. Prompt.code = 0
    BY DEF Prompt, Resp
<1>2. down[1] # Prompt /\ Stream[1] = down[1]
    BY <1>1, FirstToRead
<1>. QED  BY <1>2 DEF line_length, line_code

(* Nothing is on its way: nothing can be read.                             *)
LEMMA NothingToRead ==
    ASSUME ToolTypes, Stream = << >>
    PROVE  down = << >> /\ to = << >> /\ ~HasLine
<1>1. IsSeq(down) /\ IsSeq(to)
    BY DEF ToolTypes
<1>2. Len(down) \in Nat /\ Len(to) \in Nat /\ Len(Stream) = Len(down) + Len(to)
    BY <1>1, Joins DEF Stream
<1>3. Len(Stream) = 0
    BY ShortSeqs
<1>4. Len(down) = 0 /\ Len(to) = 0
    BY <1>2, <1>3
<1>. QED  BY <1>1, <1>4, SeqHas DEF HasLine

(* Where the command is tells which part of the invariant holds.           *)
LEMMA WhereItIs ==
    ASSUME ToolRuns
    PROVE  /\ at = "start" => AtStart
           /\ at = "version" => Greeted
           /\ at = "prompt" => AtPrompt
           /\ at = "next" => AtNext
           /\ at = "response" => Requested \/ Working \/ Answered
           /\ at = "prompted" => AtPrompted
           /\ at = "goodbye" => Leaving \/ Parting
           /\ at # "end"
BY DEF ToolRuns, AtStart, Greeted, AtPrompt, AtNext, Requested, Working, Answered, Awaiting,
       AtPrompted, Leaving, Parting

(* It starts so.                                                           *)
LEMMA ToolBegins ==
    ASSUME SessionInit, ToolInit
    PROVE  ToolInv
<1>1. cl \in Typing
    <2>1. << >> \in Seq(OptionLines) /\ << >> \in Seq(Seq(STRING))
        OBVIOUS
    <2>. QED  BY <2>1 DEF ToolInit, NoCommandLine, Typing
<1>2. commands \in CommandLists /\ Len(commands) = 0
    BY DEF ToolInit, CommandLists
<1>3. Len(Meant) \in Nat
    BY <1>1, PreparedType DEF Typing, Meant, CommandLists
<1>4. IsSeq(down) /\ IsSeq(to) /\ IsSeq(served)
    BY ShortSeqs DEF SessionInit
<1>5. ToolTypes
    BY <1>1, <1>2, <1>3, <1>4 DEF ToolTypes, SessionInit
<1>6. Stream = << >>
    BY <1>4, JoinsNone DEF Stream, SessionInit
<1>7. AtStart /\ exit = -1
    BY <1>6 DEF AtStart, Quiet, SessionInit, ToolInit
<1>. QED  BY <1>5, <1>7 DEF ToolInv, ToolRuns

(* It reads its command line.                                              *)
LEMMA StartKeeps ==
    ASSUME ToolTypes, exit = -1, ToolRuns, Start
    PROVE  ToolInv'
<1>1. AtStart
    BY WhereItIs DEF Start
<1>2. PICK c \in CommandLines :
         /\ cl' = c
         /\ \/ usage(c) /\ Exits(1) /\ UNCHANGED << commands, session_vars >>
            \/ /\ ~usage(c) /\ listen_fds = {} /\ Exits(1) /\ UNCHANGED << commands, session_vars >>
            \/ /\ ~usage(c) /\ Connects /\ commands' = prepared(c)
               /\ at' = "version" /\ UNCHANGED exit
    BY DEF Start
<1>3. CASE Exits(1)
    BY <1>3 DEF Exits, ToolInv
<1>4. CASE Connects /\ commands' = prepared(c) /\ at' = "version" /\ UNCHANGED exit
    <2>1. c \in Typing /\ cl' = c /\ res' = res
        BY <1>2, ToolAssumption DEF Typing, Start
    <2>2. commands' \in CommandLists
        BY <1>4, <2>1, PreparedType DEF Typing
    <2>3. Meant' = commands' /\ Len(commands') \in Nat
        BY <1>4, <2>1, <2>2 DEF Meant, CommandLists
    <2>4. Sent' = 0
        BY <2>3 DEF Sent
    <2>5. /\ conn' = "connecting"
          /\ UNCHANGED << up, to, down, cmd, served >>
        BY <1>4 DEF Connects
    <2>6. \A i \in 1..Len(commands') : commands'[i] = Meant'[Sent' + i]
        BY <2>3, <2>4
    <2>7. ToolTypes'
        BY <2>1, <2>2, <2>3, <2>5, <2>6 DEF ToolTypes
    <2>8. Stream' = << >> /\ Greets(Stream')
        BY <1>1, <2>5, NothingBegins DEF AtStart, Stream
    <2>9. Greeted'
        BY <1>1, <1>4, <2>1, <2>4, <2>5, <2>8 DEF Greeted, AtStart, Quiet
    <2>10. exit' = -1
        BY <1>4
    <2>. QED  BY <2>7, <2>9, <2>10 DEF ToolInv, ToolRuns
<1>. QED  BY <1>2, <1>3, <1>4

(* A response is taken, and the rest is left alone.                        *)
LEMMA TakesKeepsTypes ==
    ASSUME ToolTypes, down # << >>, Takes(1), UNCHANGED << cl, commands >>
    PROVE  ToolTypes'
<1>1. IsSeq(down') /\ IsSeq(to')
    BY TakesOne DEF ToolTypes
<1>2. Meant' = Meant /\ Sent' = Sent
    BY SameCommands
<1>3. UNCHANGED << cl, commands, served, cmd >>
    BY DEF Takes
<1>. QED  BY <1>1, <1>2, <1>3 DEF ToolTypes

(* The greeting.                                                           *)
LEMMA VersionKeeps ==
    ASSUME ToolTypes, exit = -1, ToolRuns, process_version
    PROVE  ToolInv'
<1>1. Greeted
    BY WhereItIs DEF process_version
<1>2. CASE Exits(1)
    BY <1>2 DEF Exits, ToolInv
<1>3. CASE HasLine /\ Takes(line_length)
    <2>1. IsSeq(down) /\ IsSeq(to) /\ down # << >>
        BY <1>3 DEF ToolTypes, HasLine
    <2>2. Version.code = 1
        BY DEF Version, Resp
    <2>3. Stream[1] = Version
        BY <1>1, <1>3, FirstToRead DEF Greeted, Greets
    <2>4. Takes(1) /\ line_code = 1
        BY <1>3, <2>2, <2>3, ReadsOne
    <2>5. at' = "prompt" /\ exit' = exit /\ UNCHANGED << cl, commands, res >>
        BY <1>3, <2>4 DEF process_version, Eof
    <2>6. IsSeq(Stream') /\ IsSeq(Stream) /\ Rest(Stream', Stream)
        BY <2>1, <2>4, TakesOne, ToolNumbers
    <2>7. OnlyPrompt(Stream')
        BY <1>1, <2>6, RestIs DEF Greeted
    <2>8. conn # "connecting"
        <3>1. Stream # << >>
            BY <2>6 DEF Rest
        <3>. QED  BY <1>1, <3>1 DEF Greeted
    <2>9. UNCHANGED << conn, up, cmd, served >> /\ Sent' = Sent
        BY <2>4, <2>5, SameCommands DEF Takes
    <2>10. AtPrompt'
        BY <1>1, <2>5, <2>7, <2>8, <2>9 DEF AtPrompt, Greeted, Linked, Quiet
    <2>11. ToolTypes'
        BY <2>1, <2>4, <2>5, TakesKeepsTypes
    <2>. QED  BY <2>5, <2>10, <2>11 DEF ToolInv, ToolRuns
<1>. QED  BY <1>2, <1>3 DEF process_version

(* A prompt is taken.                                                      *)
LEMMA PromptIsTaken ==
    ASSUME ToolTypes, OnlyPrompt(Stream), expect_prompt
    PROVE  /\ at' = "next" /\ UNCHANGED << exit, cl, commands, conn, up, cmd, served >>
           /\ res' = (IF cl.ignore THEN 0 ELSE res)
           /\ Stream' = << >> /\ ToolTypes'
<1>1. IsSeq(down) /\ IsSeq(to) /\ down # << >> /\ Takes(1) /\ UNCHANGED << cl, commands >>
    BY DEF ToolTypes, expect_prompt, expect
<1>2. IsSeq(Stream') /\ IsSeq(Stream) /\ Rest(Stream', Stream) /\ Stream[1] = down[1]
    BY <1>1, TakesOne, ToolNumbers
<1>3. Stream[1] = Prompt /\ Stream' = << >>
    BY <1>2, RestIs
<1>4. at' = "next" /\ UNCHANGED exit
    BY <1>2, <1>3 DEF expect_prompt, expect
<1>5. ToolTypes'
    BY <1>1, TakesKeepsTypes
<1>6. UNCHANGED << conn, up, cmd, served >>
    BY <1>1 DEF Takes
<1>. QED  BY <1>1, <1>3, <1>4, <1>5, <1>6 DEF expect_prompt

(* The prompts.                                                            *)
LEMMA PromptKeeps ==
    ASSUME ToolTypes, exit = -1, ToolRuns, expect_prompt
    PROVE  ToolInv'
<1>1. CASE at = "prompt"
    <2>1. AtPrompt
        BY <1>1, WhereItIs
    <2>2. /\ at' = "next" /\ UNCHANGED << exit, cl, commands, conn, up, cmd, served >>
          /\ res' = 0 /\ Stream' = << >> /\ ToolTypes'
        BY <2>1, PromptIsTaken DEF AtPrompt
    <2>3. Sent' = 0 /\ served' = << >> /\ Len(served') = 0
        BY <2>1, <2>2, SameCommands, ShortSeqs DEF AtPrompt
    <2>4. CarriedOut(Sent)' /\ Settled(Sent)'
        BY <2>2, <2>3 DEF CarriedOut, Settled, Tolerated
    <2>5. AtNext'
        BY <2>1, <2>2, <2>3, <2>4 DEF AtPrompt, AtNext, Linked, Quiet
    <2>. QED  BY <2>2, <2>5 DEF ToolInv, ToolRuns
<1>2. CASE at = "prompted"
    <2>1. AtPrompted
        BY <1>2, WhereItIs
    <2>2. /\ at' = "next" /\ UNCHANGED << exit, cl, commands, conn, up, cmd, served >>
          /\ res' = (IF cl.ignore THEN 0 ELSE res)
          /\ Stream' = << >> /\ ToolTypes'
        BY <2>1, PromptIsTaken DEF AtPrompted
    <2>3. /\ Sent' = Sent /\ Sent \in Nat /\ (CarriedOut(Sent)' <=> CarriedOut(Sent))
          /\ (Tolerated(Sent)' <=> Tolerated(Sent))
          /\ (Tolerated(Sent - 1)' <=> Tolerated(Sent - 1))
        BY <2>2, ToolNumbers, SameCommands
    <2>4. Settled(Sent)'
        <3>1. Tolerated(Sent - 1)
            BY <2>1 DEF AtPrompted
        <3>2. ASSUME res' = 0
              PROVE  Tolerated(Sent)
            <4>1. ASSUME is_failure(served[Sent].code), ~cl.ignore
                  PROVE  FALSE
                <5>1. res = 0
                    BY <2>2, <3>2, <4>1
                <5>2. res = served[Sent].code
                    BY <2>1, <4>1 DEF AtPrompted
                <5>3. ~is_failure(0)
                    BY DEF is_failure
                <5>. QED  BY <4>1, <5>1, <5>2, <5>3
            <4>2. ASSUME NEW i \in 1..Sent, is_failure(served[i].code)
                  PROVE  cl.ignore
                <5>1. i \in 1..Sent - 1 \/ i = Sent
                    BY <2>3
                <5>. QED  BY <3>1, <4>1, <4>2, <5>1 DEF Tolerated
            <4>. QED  BY <4>2 DEF Tolerated
        <3>3. ASSUME res' # 0
              PROVE  Sent >= 1 /\ ~cl.ignore /\ is_failure(res') /\ served[Sent].code = res'
            BY <2>1, <2>2, <3>3 DEF AtPrompted
        <3>. QED  BY <2>2, <2>3, <3>1, <3>2, <3>3 DEF Settled
    <2>5. AtNext'
        BY <2>1, <2>2, <2>3, <2>4 DEF AtPrompted, AtNext, Linked, Quiet
    <2>. QED  BY <2>2, <2>5 DEF ToolInv, ToolRuns
<1>. QED  BY <1>1, <1>2 DEF expect_prompt

(* The next command is sent, or quit.                                      *)
LEMMA ExecuteKeeps ==
    ASSUME ToolTypes, exit = -1, ToolRuns, cmd_execute
    PROVE  ToolInv'
<1>1. AtNext
    BY WhereItIs DEF cmd_execute
<1>2. CASE Exits(1)
    BY <1>2 DEF Exits, ToolInv
<1>3. ASSUME NEW line, Sends(line)
      PROVE  up' = << line >> /\ UNCHANGED << conn, to, down, cmd, served, Stream >>
    <2>1. up' = Append(<< >>, line)
        BY <1>1, <1>3 DEF Sends, AtNext, Quiet
    <2>2. UNCHANGED << conn, to, down, cmd, served >>
        BY <1>3 DEF Sends
    <2>. QED  BY <2>1, <2>2 DEF Stream
<1>4. UNCHANGED << cl, res >>
    BY DEF cmd_execute
<1>5. CASE /\ commands # << >> /\ ~stopped(res)
           /\ Sends(Head(commands)) /\ commands' = Tail(commands)
           /\ at' = "response" /\ UNCHANGED exit
    <2>. DEFINE n == Len(commands)
    <2>1. /\ commands \in Seq(OptionLines) /\ commands # << >> /\ n \in Nat /\ n # 0
          /\ Sent \in Nat /\ Len(Meant) \in Nat /\ Sent = Len(Meant) - n
          /\ \A i \in 1..n : commands[i] = Meant[Sent + i]
        BY <1>5, ToolNumbers DEF ToolTypes, CommandLists, Sent
    <2>2. /\ commands' \in Seq(OptionLines) /\ Len(commands') = n - 1 /\ Head(commands) = commands[1]
          /\ \A i \in 1..n - 1 : commands'[i] = commands[i + 1]
        <3>. DEFINE T == OptionLines
        <3>1. commands \in Seq(T) /\ commands' = Tail(commands)
            BY <1>5, <2>1
        <3>. HIDE DEF T
        <3>2. /\ Tail(commands) \in Seq(T) /\ Len(Tail(commands)) = Len(commands) - 1
              /\ Head(commands) = commands[1]
              /\ \A i \in 1..Len(commands) - 1 : Tail(commands)[i] = commands[i + 1]
            BY <2>1, <3>1
        <3>. QED  BY <3>1, <3>2 DEF T
    <2>. HIDE DEF n
    <2>3. Meant' = Meant
        BY <1>4 DEF Meant
    <2>4. Sent' = Sent + 1
        <3>. DEFINE m == Len(Meant)
        <3>1. Sent' = m - (n - 1) /\ Sent = m - n /\ m \in Nat
            BY <2>1, <2>2, <2>3 DEF Sent
        <3>. HIDE DEF m
        <3>. QED  BY <2>1, <3>1
    <2>5. ASSUME NEW i \in 1..n - 1
          PROVE  commands'[i] = Meant'[Sent' + i]
        <3>1. i + 1 \in 1..n /\ Sent + (i + 1) = (Sent + 1) + i
            BY <2>1
        <3>. QED  BY <2>1, <2>2, <2>3, <2>4, <3>1
    <2>6. up' = << Head(commands) >> /\ UNCHANGED << conn, to, down, cmd, served, Stream >>
        BY <1>3, <1>5
    <2>7. ToolTypes'
        <3>1. Len(commands') <= Len(Meant')
            BY <2>1, <2>2, <2>3
        <3>. QED  BY <1>4, <2>2, <2>5, <2>6, <3>1 DEF ToolTypes, CommandLists
    <2>8. Head(commands) = Meant'[Sent']
        <3>1. 1 \in 1..n
            BY <2>1
        <3>. QED  BY <2>1, <2>2, <2>3, <2>4, <3>1
    <2>9. Sent' - 1 = Sent /\ Sent' >= 1
        BY <2>1, <2>4
    <2>10. CarriedOut(Sent - 1)'
        BY <1>1, <2>3, <2>6, <2>9 DEF AtNext, CarriedOut
    <2>11. Tolerated(Sent - 1)'
        <3>1. Tolerated(Sent)
            BY <1>1, <1>5 DEF AtNext, Settled, stopped
        <3>. QED  BY <1>4, <2>6, <2>9, <3>1 DEF Tolerated
    <2>12. Len(served') = Sent' - 1
        BY <1>1, <2>6, <2>9 DEF AtNext
    <2>13. Requested'
        BY <1>1, <1>5, <2>6, <2>8, <2>9, <2>10, <2>11, <2>12 DEF Requested, Awaiting, AtNext, Linked, Quiet
    <2>. QED  BY <1>5, <2>7, <2>13 DEF ToolInv, ToolRuns
<1>6. CASE /\ commands = << >> \/ stopped(res)
           /\ Sends(Line("quit", << >>))
           /\ at' = "goodbye" /\ UNCHANGED << commands, exit >>
    <2>1. up' = << Line("quit", << >>) >> /\ UNCHANGED << conn, to, down, cmd, served, Stream >>
        BY <1>3, <1>6
    <2>2. /\ Meant' = Meant /\ Sent' = Sent /\ (CarriedOut(Sent)' <=> CarriedOut(Sent))
          /\ (Settled(Sent)' <=> Settled(Sent))
        BY <1>4, <1>6, <2>1, SameCommands
    <2>3. ToolTypes'
        BY <1>4, <1>6, <2>1, <2>2 DEF ToolTypes
    <2>4. Over'
        BY <1>1, <1>4, <1>6, <2>1, <2>2 DEF Over, AtNext, Linked, Quiet, stopped
    <2>5. Leaving'
        BY <1>1, <1>6, <2>1, <2>2, <2>4 DEF Leaving, AtNext
    <2>. QED  BY <1>6, <2>3, <2>5 DEF ToolInv, ToolRuns
<1>. QED  BY <1>2, <1>5, <1>6 DEF cmd_execute

(* What comes first of a response.                                         *)
LEMMA FirstOfResponse ==
    ASSUME NEW s, NEW code, Responds(s, code), 1 \in 1..Len(s)
    PROVE  Talk(s[1]) \/ s[1].code = code
<1>1. PICK m \in Nat : Begins(s, m, code)
    BY DEF Responds
<1>2. 1 <= m \/ 1 = m + 1
    OBVIOUS
<1>. QED  BY <1>1, <1>2 DEF Begins

(* A response is read.                                                     *)
LEMMA ResponseKeeps ==
    ASSUME ToolTypes, exit = -1, ToolRuns, process_response
    PROVE  ToolInv'
<1>1. UNCHANGED << cl, commands >> /\ IsSeq(Stream)
    BY ToolNumbers DEF process_response
<1>2. CASE Eof /\ Exits(1) /\ UNCHANGED << session_vars, res >>
    BY <1>2 DEF Exits, ToolInv
<1>3. CASE /\ HasLine /\ Takes(line_length) /\ UNCHANGED exit
           /\ IF is_alldone(line_code)
              THEN at' = "prompted" /\ res' = IF is_failure(line_code) THEN line_code ELSE 0
              ELSE UNCHANGED << at, res >>
    <2>1. ASSUME Takes(1), down # << >>
          PROVE  /\ IsSeq(Stream') /\ Rest(Stream', Stream) /\ ToolTypes'
                 /\ UNCHANGED << conn, up, cmd, served >> /\ Sent' = Sent /\ Sent \in Nat
                 /\ \A k : (CarriedOut(k)' <=> CarriedOut(k)) /\ (Tolerated(k)' <=> Tolerated(k))
        <3>1. ToolTypes' /\ IsSeq(Stream') /\ Rest(Stream', Stream)
            BY <1>1, <2>1, TakesKeepsTypes, TakesOne DEF ToolTypes
        <3>2. UNCHANGED << conn, up, cmd, served >>
            BY <2>1 DEF Takes
        <3>. QED  BY <1>1, <3>1, <3>2, SameCommands, ToolNumbers
    <2>2. CASE Requested
        BY <1>3, <2>2, NothingToRead DEF Requested
    <2>3. CASE Working
        <3>1. Talk(Stream[1])
            BY <1>3, <2>3, FirstToRead DEF Working, AllTalk
        <3>2. Takes(1) /\ down # << >> /\ ~is_alldone(line_code)
            BY <1>3, <3>1, ReadsOne, FirstToRead DEF Talk
        <3>3. AllTalk(Stream')
            BY <1>1, <2>1, <2>3, <3>2, RestIs DEF Working
        <3>4. UNCHANGED << at, res, exit >>
            BY <1>3, <3>2
        <3>5. Meant' = Meant
            BY <1>1, SameCommands
        <3>6. Working'
            BY <2>1, <2>3, <3>2, <3>3, <3>4, <3>5 DEF Working, Awaiting, Linked
        <3>. QED  BY <2>1, <3>2, <3>4, <3>6 DEF ToolInv, ToolRuns
    <2>4. CASE Answered
        <3>. DEFINE code == served[Sent].code
        <3>1. Responds(Stream, code) /\ is_alldone(code) /\ ~is_alldone(0)
            BY <2>4 DEF Answered, is_alldone
        <3>2. Stream[1].code # 0
            <4>1. Stream # << >>
                BY <1>3, FirstToRead, SeqHas, <1>1
            <4>2. Talk(Stream[1]) \/ Stream[1].code = code
                BY <1>3, <3>1, FirstToRead, FirstOfResponse
            <4>. QED  BY <3>1, <4>2 DEF Talk
        <3>3. Takes(1) /\ down # << >> /\ line_code = Stream[1].code
            BY <1>3, <3>2, ReadsOne, FirstToRead
        <3>4. \/ Talk(Stream[1]) /\ Responds(Stream', code)
              \/ Stream[1].code = code /\ OnlyPrompt(Stream')
            BY <1>1, <2>1, <3>1, <3>3, RestIs
        <3>5. Meant' = Meant
            BY <1>1, SameCommands
        <3>6. CASE Talk(Stream[1]) /\ Responds(Stream', code)
            <4>1. UNCHANGED << at, res, exit >>
                BY <1>3, <3>3, <3>6 DEF Talk
            <4>2. Answered'
                BY <2>1, <2>4, <3>3, <3>5, <3>6, <4>1 DEF Answered, Awaiting, Linked, Quiet
            <4>. QED  BY <2>1, <3>3, <4>1, <4>2 DEF ToolInv, ToolRuns
        <3>7. CASE Stream[1].code = code /\ OnlyPrompt(Stream')
            <4>1. /\ at' = "prompted" /\ UNCHANGED exit
                  /\ res' = IF is_failure(code) THEN code ELSE 0
                BY <1>3, <3>1, <3>3, <3>7
            <4>2. CarriedOut(Sent)
                <5>1. \A i \in 1..Sent : i \in 1..Sent - 1 \/ i = Sent
                    BY <2>1, <3>3
                <5>. QED  BY <2>1, <2>4, <3>3, <5>1 DEF Answered, Awaiting, CarriedOut
            <4>3. AtPrompted'
                BY <2>1, <2>4, <3>3, <3>7, <4>1, <4>2 DEF Answered, Awaiting, AtPrompted, Linked, Quiet
            <4>. QED  BY <2>1, <3>3, <4>1, <4>3 DEF ToolInv, ToolRuns
        <3>. QED  BY <3>4, <3>6, <3>7
    <2>. QED  BY <2>2, <2>3, <2>4, WhereItIs DEF process_response
<1>. QED  BY <1>2, <1>3 DEF process_response

(* The goodbye.                                                            *)
LEMMA GoodbyeKeeps ==
    ASSUME ToolTypes, exit = -1, ToolRuns, expect_goodbye
    PROVE  ToolInv'
<1>1. UNCHANGED << cl, commands, res >> /\ down # << >> /\ Takes(1)
    BY DEF expect_goodbye, expect
<1>2. Parting
    BY <1>1, WhereItIs, NothingToRead DEF expect_goodbye, Leaving
<1>3. CASE Exits(1)
    BY <1>3 DEF Exits, ToolInv
<1>4. CASE Exits(res)
    <2>1. ToolTypes' /\ UNCHANGED << conn, cmd, served >> /\ Meant' = Meant /\ Sent' = Sent
        BY <1>1, TakesKeepsTypes, SameCommands DEF Takes
    <2>2. (CarriedOut(Sent)' <=> CarriedOut(Sent)) /\ (Settled(Sent)' <=> Settled(Sent))
        BY <1>1, <2>1, SameCommands
    <2>3. AtEnd'
        BY <1>1, <1>2, <1>4, <2>1, <2>2 DEF Parting, AtEnd, Over, HasQuit, Exits, Linked
    <2>. QED  BY <2>1, <2>3 DEF ToolInv
<1>. QED  BY <1>3, <1>4 DEF expect_goodbye, expect

(* Nothing but the end of what is on its way is lost, and the connection.  *)
Shrinks ==
    /\ StartsAs(Stream', Stream) /\ IsSeq(down') /\ IsSeq(to')
    /\ UNCHANGED << tool_vars, up, served >>
    /\ \/ UNCHANGED << conn, cmd >>
       \/ conn \in { "connecting", "open" } /\ conn' = "closed" /\ cmd' = NoCmd

(* Then the invariant still holds.                                         *)
LEMMA ShrinksKeeps ==
    ASSUME ToolTypes, Shrinks
    PROVE  /\ ToolTypes'
           /\ AtEnd => AtEnd'
           /\ ToolRuns => ToolRuns'
<1>1. /\ UNCHANGED << at, cl, commands, res, exit, up, served >> /\ Meant' = Meant /\ Sent' = Sent /\ Sent \in Nat
      /\ \A k : /\ CarriedOut(k)' <=> CarriedOut(k)
                /\ Tolerated(k)' <=> Tolerated(k)
                /\ Settled(k)' <=> Settled(k)
    BY ToolNumbers, SameCommands DEF Shrinks, tool_vars
<1>2. ToolTypes'
    BY <1>1 DEF ToolTypes, Shrinks
<1>3. /\ Greets(Stream) => Greets(Stream')
      /\ OnlyPrompt(Stream) => OnlyPrompt(Stream')
      /\ Bye(Stream) => Bye(Stream')
      /\ AllTalk(Stream) => AllTalk(Stream')
      /\ \A code : Responds(Stream, code) => Responds(Stream', code)
      /\ Stream = << >> => Stream' = << >>
    <2>1. IsSeq(Stream) /\ IsSeq(Stream')
        BY ToolNumbers, Joins DEF Stream, Shrinks
    <2>. QED  BY <2>1, FrontKeeps DEF Shrinks
<1>4. /\ Linked => Linked'
      /\ cmd = NoCmd => cmd' = NoCmd
      /\ conn = "closed" => conn' = "closed"
      /\ \/ conn' = conn /\ cmd' = cmd
         \/ conn' = "closed" /\ cmd' = NoCmd
    BY DEF Shrinks, Linked
<1>5. Quiet => Quiet'
    BY <1>1, <1>4 DEF Quiet
<1>6. Awaiting => Awaiting'
    BY <1>1, <1>4 DEF Awaiting
<1>7. Over => Over'
    BY <1>1, <1>4 DEF Over
<1>8. HasQuit => HasQuit'
    BY <1>1, <1>4 DEF HasQuit
<1>9. AtStart => AtStart'
    BY <1>1, <1>3, <1>5 DEF AtStart, Shrinks
<1>10. Greeted => Greeted'
    BY <1>1, <1>3, <1>4, <1>5 DEF Greeted
<1>11. AtPrompt => AtPrompt'
    BY <1>1, <1>3, <1>4, <1>5 DEF AtPrompt
<1>12. AtNext => AtNext'
    BY <1>1, <1>3, <1>4, <1>5 DEF AtNext
<1>13. Requested => Requested'
    BY <1>1, <1>3, <1>4, <1>6 DEF Requested
<1>14. Working => Working'
    BY <1>1, <1>3, <1>4, <1>6 DEF Working
<1>15. Answered => Answered'
    BY <1>1, <1>3, <1>5, <1>6 DEF Answered
<1>16. AtPrompted => AtPrompted'
    BY <1>1, <1>3, <1>4, <1>5 DEF AtPrompted
<1>17. Leaving => Leaving'
    BY <1>1, <1>3, <1>7 DEF Leaving
<1>18. Parting => Parting'
    BY <1>1, <1>3, <1>7, <1>8 DEF Parting
<1>19. AtEnd => AtEnd'
    BY <1>1, <1>7, <1>8 DEF AtEnd
<1>20. ToolRuns => ToolRuns'
    BY <1>9, <1>10, <1>11, <1>12, <1>13, <1>14, <1>15, <1>16, <1>17, <1>18 DEF ToolRuns
<1>. QED  BY <1>2, <1>19, <1>20

(* The daemon writes, listens or ends.                                     *)
LEMMA LinkShrinks ==
    ASSUME ToolTypes, UNCHANGED tool_vars,
           handle_write \/ listen_client \/ DaemonExits \/ UNCHANGED session_vars
    PROVE  Shrinks
<1>1. IsSeq(down) /\ IsSeq(to) /\ IsSeq(Stream) /\ IsSeq(<< >>)
    BY ToolNumbers, ShortSeqs DEF ToolTypes
<1>2. StartsAs(Stream, Stream)
    BY <1>1, SeqHas DEF StartsAs
<1>3. CASE handle_write
    <2>1. down' = Stream /\ to' = << >>
        BY <1>3 DEF handle_write, Stream
    <2>2. Stream' = Stream
        <3>1. Stream' = down' \o to'
            BY DEF Stream
        <3>2. down' \o to' = Stream \o << >>
            BY <2>1
        <3>. QED  BY <1>1, <3>1, <3>2, JoinsNone
    <2>. QED  BY <1>1, <1>2, <1>3, <2>1, <2>2 DEF Shrinks, handle_write
<1>4. CASE listen_client
    <2>1. UNCHANGED << down, to, up, served, conn, cmd, Stream >>
        BY <1>4 DEF listen_client, Stream
    <2>. QED  BY <1>1, <1>2, <2>1 DEF Shrinks
<1>5. CASE DaemonExits
    <2>1. UNCHANGED << down, up, served >> /\ to' = << >> /\ cmd' = NoCmd
          /\ conn \in { "connecting", "open" } /\ conn' = "closed"
        BY <1>5 DEF DaemonExits, Ended
    <2>2. Stream' = down
        <3>1. Stream' = down \o << >>
            BY <2>1 DEF Stream
        <3>. QED  BY <1>1, <3>1, JoinsNone
    <2>3. StartsAs(down, Stream)
        <3>1. Len(down) \in Nat /\ Len(to) \in Nat /\ Len(Stream) = Len(down) + Len(to)
              /\ \A i \in 1..Len(down) : Stream[i] = down[i]
            BY <1>1, Joins DEF Stream
        <3>2. Len(down) <= Len(Stream)
            BY <3>1
        <3>. QED  BY <3>1, <3>2 DEF StartsAs
    <2>. QED  BY <1>1, <2>1, <2>2, <2>3 DEF Shrinks
<1>6. CASE UNCHANGED session_vars
    <2>1. UNCHANGED << down, to, up, served, conn, cmd, Stream >>
        BY <1>6 DEF session_vars, Stream
    <2>. QED  BY <1>1, <1>2, <2>1 DEF Shrinks
<1>. QED  BY <1>3, <1>4, <1>5, <1>6

(* The connection is accepted, or not.                                     *)
LEMMA ClientKeeps ==
    ASSUME ToolTypes, ToolRuns, create_client, UNCHANGED tool_vars
    PROVE  ToolTypes' /\ ToolRuns'
<1>1. Greeted /\ conn = "connecting"
    BY DEF ToolRuns, create_client, AtStart, AtPrompt, AtNext, Requested, Working, Answered, Awaiting,
           AtPrompted, Leaving, Parting, Over, Linked
<1>2. down = << >> /\ to = << >> /\ UNCHANGED << down, up, cmd, served >>
    BY <1>1, NothingToRead DEF Greeted, create_client
<1>3. CASE conn' = "closed" /\ UNCHANGED to
    <2>1. IsSeq(down') /\ IsSeq(to') /\ Stream' = Stream /\ StartsAs(Stream', Stream)
        <3>1. Stream' = Stream
            BY <1>2, <1>3 DEF Stream
        <3>2. StartsAs(Stream, Stream)
            BY ToolNumbers, SeqHas DEF StartsAs
        <3>. QED  BY <1>2, <1>3, <3>1, <3>2 DEF ToolTypes
    <2>2. Shrinks
        BY <1>1, <1>2, <1>3, <2>1 DEF Shrinks, Greeted, Quiet
    <2>. QED  BY <2>2, ShrinksKeeps
<1>4. CASE conn' = "open" /\ to' = << Version, Prompt >>
    <2>. DEFINE g == << Version, Prompt >>
    <2>1. IsSeq(g) /\ Len(g) = 2 /\ g[1] = Version /\ g[2] = Prompt
        <3>1. g \in Seq({ Version, Prompt }) /\ Len(g) = 2 /\ g[1] = Version /\ g[2] = Prompt
            OBVIOUS
        <3>. QED  BY <3>1, SeqIs
    <2>. HIDE DEF g
    <2>2. to' = g
        BY <1>4 DEF g
    <2>3. Stream' = g
        <3>1. Stream' = << >> \o g
            BY <1>2, <2>2 DEF Stream
        <3>. QED  BY <2>1, <3>1, JoinsNone
    <2>4. Greets(Stream')
        <3>1. \A i \in 1..Len(g) : i = 1 \/ i = 2
            BY <2>1
        <3>2. \A i \in 1..Len(g) : g[i] = IF i = 1 THEN Version ELSE Prompt
            BY <2>1, <3>1
        <3>3. Greets(g)
            BY <2>1, <3>2 DEF Greets
        <3>. QED  BY <2>3, <3>3
    <2>5. UNCHANGED << at, cl, commands, res, exit >> /\ Meant' = Meant /\ Sent' = Sent
        BY SameCommands DEF tool_vars
    <2>6. ToolTypes'
        BY <1>2, <2>1, <2>2, <2>5 DEF ToolTypes
    <2>7. Greeted'
        BY <1>1, <1>2, <1>4, <2>4, <2>5 DEF Greeted, Quiet
    <2>. QED  BY <2>6, <2>7 DEF ToolRuns
<1>. QED  BY <1>3, <1>4 DEF create_client

(* Talk after talk is talk.                                                *)
LEMMA TalkGoesOn ==
    ASSUME NEW u, NEW s, IsSeq(u), IsSeq(s), AllTalk(u), AllTalk(s)
    PROVE  IsSeq(u \o s) /\ AllTalk(u \o s)
<1>. DEFINE n == Len(u)
            m == Len(s)
            x == u \o s
<1>1. /\ IsSeq(x) /\ n \in Nat /\ m \in Nat /\ Len(x) = n + m
      /\ \A i \in 1..n : x[i] = u[i]
      /\ \A j \in 1..m : x[n + j] = s[j]
    BY Joins
<1>2. (\A i \in 1..n : Talk(u[i])) /\ (\A j \in 1..m : Talk(s[j]))
    BY DEF AllTalk
<1>. HIDE DEF n, m, x
<1>3. ASSUME NEW i \in 1..n + m
      PROVE  Talk(x[i])
    <2>1. CASE i \in 1..n
        BY <1>1, <1>2, <2>1
    <2>2. CASE i \notin 1..n
        <3>. DEFINE j == i - n
        <3>1. j \in 1..m /\ n + j = i
            BY <1>1, <2>2
        <3>. HIDE DEF j
        <3>2. x[n + j] = s[j] /\ Talk(s[j])
            BY <1>1, <1>2, <3>1
        <3>. QED  BY <3>1, <3>2
    <2>. QED  BY <2>1, <2>2
<1>4. AllTalk(x)
    BY <1>1, <1>3 DEF AllTalk
<1>. QED  BY <1>1, <1>4 DEF x

(* The codes that end no response.                                         *)
LEMMA NotTheEnd == ASSUME NEW code \in Int, code > 299 PROVE code # 0 /\ ~is_alldone(code)
BY DEF is_alldone

(* The responses all have one code, one that ends none.                    *)
AllOfCode(s, n, code) ==
    /\ n \in Nat /\ s = [ i \in 1..n |-> s[i] ]
    /\ code \in Int /\ code > 299 /\ \A i \in 1..n : s[i].code = code

(* They are talk.                                                          *)
LEMMA TalkOfCode ==
    ASSUME NEW s, NEW n, NEW code, AllOfCode(s, n, code)
    PROVE  IsSeq(s) /\ AllTalk(s)
<1>1. IsSeq(s) /\ Len(s) = n
    BY ListIs DEF AllOfCode
<1>2. code # 0 /\ ~is_alldone(code)
    BY NotTheEnd DEF AllOfCode
<1>. QED  BY <1>1, <1>2 DEF AllTalk, Talk, AllOfCode

(* So is one alone.                                                        *)
LEMMA TalkOfOne ==
    ASSUME NEW code \in Int, code > 299, NEW hosts, NEW state
    PROVE  IsSeq(<< Resp(code, hosts, state) >>) /\ AllTalk(<< Resp(code, hosts, state) >>)
<1>. DEFINE r == Resp(code, hosts, state)
<1>1. r.code = code
    BY DEF Resp
<1>. HIDE DEF r
<1>2. IsSeq(<< r >>) /\ Len(<< r >>) = 1 /\ << r >>[1] = r
    BY ShortSeqs
<1>3. Talk(r)
    BY <1>1 DEF Talk, is_alldone
<1>4. AllTalk(<< r >>)
    BY <1>2, <1>3 DEF AllTalk
<1>. QED  BY <1>2, <1>4 DEF r

(* And one with nothing but its code.                                      *)
LEMMA TalkIs ==
    ASSUME NEW code \in Int, code > 299
    PROVE  IsSeq(Plain(code)) /\ AllTalk(Plain(code))
<1>1. IsSeq(<< Resp(code, << >>, "") >>) /\ AllTalk(<< Resp(code, << >>, "") >>)
    BY TalkOfOne, Zenon
<1>. QED  BY <1>1, Zenon DEF Plain

(* A line of telemetry.                                                    *)
LEMMA TelemetryKeeps ==
    ASSUME ToolTypes, ToolRuns, Telemetry, UNCHANGED tool_vars
    PROVE  ToolTypes' /\ ToolRuns'
<1>1. Working /\ cmd # NoCmd
    BY DEF ToolRuns, Telemetry, AtStart, Greeted, AtPrompt, AtNext, Requested, Answered,
           AtPrompted, Leaving, Parting, Over, Quiet
<1>2. UNCHANGED << conn, up, down, cmd, served >> /\ to' = to \o Plain(305)
    BY DEF Telemetry
<1>3. IsSeq(Plain(305)) /\ AllTalk(Plain(305)) /\ IsSeq(down) /\ IsSeq(to) /\ IsSeq(Stream)
    <2>1. IsSeq(Plain(305)) /\ AllTalk(Plain(305))
        BY TalkIs
    <2>. QED  BY <2>1, ToolNumbers DEF ToolTypes
<1>4. IsSeq(to') /\ IsSeq(down')
    BY <1>2, <1>3, Joins
<1>5. Stream' = Stream \o Plain(305)
    <2>1. Stream' = down \o (to \o Plain(305))
        BY <1>2 DEF Stream
    <2>. QED  BY <1>3, <2>1, Regroup DEF Stream
<1>6. AllTalk(Stream')
    BY <1>1, <1>3, <1>5, TalkGoesOn DEF Working
<1>7. UNCHANGED << at, cl, commands, res, exit >> /\ Meant' = Meant /\ Sent' = Sent
      /\ \A k : (CarriedOut(k)' <=> CarriedOut(k)) /\ (Tolerated(k)' <=> Tolerated(k))
    BY <1>2, SameCommands DEF tool_vars
<1>8. ToolTypes'
    BY <1>2, <1>4, <1>7 DEF ToolTypes
<1>9. Working'
    BY <1>1, <1>2, <1>6, <1>7 DEF Working, Awaiting, Linked
<1>. QED  BY <1>8, <1>9 DEF ToolRuns

(* A command is answered.                                                  *)
LEMMA IsAnswered ==
    ASSUME ToolTypes, Awaiting, Len(served) = Sent - 1, UNCHANGED << tool_vars, conn >>,
           up' = << >>, cmd' = NoCmd, IsSeq(down'), IsSeq(to'),
           NEW code, is_alldone(code), Responds(Stream', code),
           NEW e, e.line = Meant[Sent], e.code = code, served' = Append(served, e)
    PROVE  ToolTypes' /\ ToolRuns'
<1>1. UNCHANGED << at, cl, commands, res, exit >> /\ Meant' = Meant /\ Sent' = Sent /\ Sent \in Nat
    BY SameCommands, ToolNumbers DEF tool_vars
<1>2. /\ IsSeq(served') /\ Len(served') = Len(served) + 1 /\ served'[Len(served) + 1] = e
      /\ CarriedOut(Sent - 1) => CarriedOut(Sent - 1)'
      /\ Tolerated(Sent - 1) => Tolerated(Sent - 1)'
    <2>1. Sent - 1 \in Int /\ Sent - 1 <= Len(served) /\ (Sent - 1)' = Sent - 1
        BY <1>1
    <2>2. /\ IsSeq(served') /\ Len(served') = Len(served) + 1 /\ served'[Len(served) + 1] = e
          /\ \A k \in Int : k <= Len(served) => /\ CarriedOut(k) => CarriedOut(k)'
                                                /\ Tolerated(k) => Tolerated(k)'
        BY <1>1, OneMoreAnswer
    <2>3. CarriedOut(Sent - 1) => CarriedOut(Sent - 1)'
        BY <2>1, <2>2 DEF CarriedOut
    <2>4. Tolerated(Sent - 1) => Tolerated(Sent - 1)'
        BY <2>1, <2>2 DEF Tolerated
    <2>. QED  BY <2>2, <2>3, <2>4
<1>3. Len(served') = Sent' /\ served'[Sent'] = e
    BY <1>1, <1>2
<1>4. ToolTypes'
    BY <1>1, <1>2 DEF ToolTypes
<1>5. Awaiting'
    BY <1>1, <1>2 DEF Awaiting, Linked
<1>6. Answered'
    BY <1>1, <1>3, <1>5 DEF Answered, Quiet
<1>. QED  BY <1>4, <1>6 DEF ToolRuns

(* What a status command shows is talk.                                    *)
LEMMA StatusIsTalk ==
    ASSUME NEW args \in Seq(STRING), NEW on, NEW off
    PROVE  IsSeq(status_reply(args, on, off)) /\ AllTalk(status_reply(args, on, off))
<1>. DEFINE n == Len(args)
            state(i) == IF args[i] \in on THEN "on" ELSE IF args[i] \in off THEN "off" ELSE "unknown"
            each == [ i \in DOMAIN args |-> Resp(303, << args[i] >>, state(i)) ]
            list(S, what) == Resp(302, S, what)
            a == SelectSeq(args, LAMBDA h : h \in on)
            b == SelectSeq(args, LAMBDA h : h \in off)
            c == SelectSeq(args, LAMBDA h : h \notin on \cup off)
            three == << list(a, "on"), list(b, "off"), list(c, "unknown") >>
<1>1. n \in Nat /\ DOMAIN args = 1..n
    OBVIOUS
<1>2. IsSeq(each) /\ AllTalk(each)
    <2>. HIDE DEF n
    <2>1. each = [ i \in 1..n |-> each[i] ]
        BY <1>1
    <2>2. \A i \in 1..n : each[i].code = 303
        BY <1>1 DEF Resp
    <2>. HIDE DEF each
    <2>3. AllOfCode(each, n, 303)
        BY <1>1, <2>1, <2>2 DEF AllOfCode
    <2>. QED  BY <2>3, TalkOfCode
<1>3. IsSeq(three) /\ AllTalk(three)
    <2>. HIDE DEF a, b, c
    <2>1. list(a, "on").code = 302 /\ list(b, "off").code = 302 /\ list(c, "unknown").code = 302
        BY DEF Resp
    <2>2. ASSUME NEW x, NEW y, NEW z, x.code = 302, y.code = 302, z.code = 302
          PROVE  IsSeq(<< x, y, z >>) /\ AllTalk(<< x, y, z >>)
        <3>. DEFINE t == << x, y, z >>
        <3>1. t \in Seq({ x, y, z }) /\ Len(t) = 3 /\ t[1] = x /\ t[2] = y /\ t[3] = z
            OBVIOUS
        <3>. HIDE DEF t
        <3>2. IsSeq(t)
            BY <3>1, SeqIs
        <3>3. t = [ i \in 1..3 |-> t[i] ] /\ \A i \in 1..3 : i = 1 \/ i = 2 \/ i = 3
            BY <3>1
        <3>4. \A i \in 1..3 : t[i].code = 302
            BY <2>2, <3>1, <3>3
        <3>5. AllOfCode(t, 3, 302)
            BY <3>3, <3>4 DEF AllOfCode
        <3>6. AllTalk(t)
            BY <3>5, TalkOfCode
        <3>. QED  BY <3>2, <3>6 DEF t
    <2>. HIDE DEF list
    <2>. QED  BY <2>1, <2>2
<1>. HIDE DEF n
<1>4. status_reply(args, on, off) = IF "exprange" \in toggles THEN each ELSE three
    BY Zenon DEF status_reply
<1>. HIDE DEF each, three
<1>. QED  BY <1>2, <1>3, <1>4

(* So is what a temperature command shows.                                 *)
LEMMA TemperaturesAreTalk ==
    ASSUME NEW args \in Seq(STRING), NEW on
    PROVE  IsSeq(status_reply_nointerp(args, on)) /\ AllTalk(status_reply_nointerp(args, on))
<1>. DEFINE n == Len(args)
            none == SelectSeq(args, LAMBDA h : h \notin on)
            each == [ i \in DOMAIN args |-> Resp(303, << args[i] >>, IF args[i] \in on THEN "value" ELSE "(null)") ]
            rest == IF none = << >> THEN << >> ELSE << Resp(303, none, "unknown") >>
<1>1. n \in Nat /\ DOMAIN args = 1..n
    OBVIOUS
<1>2. IsSeq(each) /\ AllTalk(each)
    <2>. HIDE DEF n
    <2>1. each = [ i \in 1..n |-> each[i] ]
        BY <1>1
    <2>2. \A i \in 1..n : each[i].code = 303
        BY <1>1 DEF Resp
    <2>. HIDE DEF each
    <2>3. AllOfCode(each, n, 303)
        BY <1>1, <2>1, <2>2 DEF AllOfCode
    <2>. QED  BY <2>3, TalkOfCode
<1>3. IsSeq(rest) /\ AllTalk(rest)
    <2>. HIDE DEF none
    <2>1. IsSeq(<< Resp(303, none, "unknown") >>) /\ AllTalk(<< Resp(303, none, "unknown") >>)
        BY TalkOfOne
    <2>2. IsSeq(<< >>) /\ AllTalk(<< >>)
        BY ShortSeqs, NothingBegins
    <2>. QED  BY <2>1, <2>2
<1>4. status_reply_nointerp(args, on) = each \o rest
    BY Zenon DEF status_reply_nointerp
<1>. HIDE DEF each, rest
<1>. QED  BY <1>2, <1>3, <1>4, TalkGoesOn

(* The code of a command that is done.                                     *)
code_of(c) == IF c.error THEN IF c.line.word \in AllWords THEN 211 ELSE 210
              ELSE IF c.line.word \in AllWords THEN 103 ELSE 102

(* Its responses end with it.                                              *)
LEMMA RepliesEnd ==
    ASSUME NEW c, c.args \in Seq(STRING), c.line.word \in DeviceWords, NEW on, NEW off
    PROVE  /\ IsSeq(replied(c, on, off)) /\ EndsTalk(replied(c, on, off), code_of(c))
           /\ is_alldone(code_of(c))
<1>1. is_alldone(code_of(c))
    BY DEF code_of, is_alldone
<1>2. CASE c.line.word \in { "status", "beacon" }
    <2>. DEFINE talk == status_reply(c.args, on, off)
                code == IF c.error THEN 211 ELSE 103
    <2>1. replied(c, on, off) = talk \o Plain(code)
        BY <1>2, Zenon DEF replied
    <2>2. code_of(c) = code
        BY <1>2 DEF code_of, AllWords
    <2>3. IsSeq(talk) /\ AllTalk(talk)
        BY StatusIsTalk
    <2>. HIDE DEF talk, code
    <2>. QED  BY <1>1, <2>1, <2>2, <2>3, PlainEnds
<1>3. CASE c.line.word = "temp"
    <2>. DEFINE talk == status_reply_nointerp(c.args, on)
                code == IF c.error THEN 211 ELSE 103
    <2>1. replied(c, on, off) = talk \o Plain(code)
        BY <1>3 DEF replied
    <2>2. code_of(c) = code
        BY <1>3 DEF code_of, AllWords
    <2>3. IsSeq(talk) /\ AllTalk(talk)
        BY TemperaturesAreTalk
    <2>. HIDE DEF talk, code
    <2>. QED  BY <1>1, <2>1, <2>2, <2>3, PlainEnds
<1>4. CASE c.line.word \notin { "status", "beacon", "temp" }
    <2>. DEFINE code == IF c.error THEN 210 ELSE 102
    <2>1. replied(c, on, off) = Plain(code)
        BY <1>4, Zenon DEF replied
    <2>2. code_of(c) = code
        BY <1>4 DEF code_of, AllWords, DeviceWords
    <2>. HIDE DEF code
    <2>. QED  BY <1>1, <2>1, <2>2, PlainAlone
<1>. QED  BY <1>1, <1>2, <1>3, <1>4

(* An action of the command ends.                                          *)
LEMMA FinishKeeps ==
    ASSUME ToolTypes, ToolRuns, act_finish, UNCHANGED tool_vars
    PROVE  ToolTypes' /\ ToolRuns'
<1>1. Working /\ cmd # NoCmd
    BY DEF ToolRuns, act_finish, AtStart, Greeted, AtPrompt, AtNext, Requested, Answered,
           AtPrompted, Leaving, Parting, Over, Quiet
<1>2. UNCHANGED << conn, up, down >>
    BY DEF act_finish
<1>3. PICK failed \in BOOLEAN :
         LET c     == [ cmd EXCEPT !.pending = @ - 1, !.error = @ \/ failed ]
             error == IF failed THEN Plain(308) ELSE << >>
         IN  \/ /\ c.pending > 0 /\ cmd' = c /\ to' = to \o error
                /\ UNCHANGED served
             \/ /\ c.pending = 0 /\ cmd' = NoCmd
                /\ \E on \in SUBSET ToSet(c.args) : \E off \in SUBSET (ToSet(c.args) \ on) :
                     /\ c.line.word \notin AllWords => on = {}
                     /\ c.line.word \notin { "status", "beacon" } => off = {}
                     /\ to' = ((to \o error) \o replied(c, on, off)) \o << Prompt >>
                     /\ served' = Served(c.line, IF c.error THEN (IF c.line.word \in AllWords THEN 211 ELSE 210)
                                                 ELSE IF c.line.word \in AllWords THEN 103 ELSE 102,
                                         [ i \in DOMAIN c.args |-> << c.args[i],
                                             IF c.args[i] \in on THEN "on" ELSE IF c.args[i] \in off THEN "off"
                                             ELSE "unknown" >> ])
    BY DEF act_finish
<1>. DEFINE c     == [ cmd EXCEPT !.pending = @ - 1, !.error = @ \/ failed ]
            error == IF failed THEN Plain(308) ELSE << >>
            told_ == Stream \o error
<1>4. /\ c.line = cmd.line /\ c.args = cmd.args
      /\ c = [ line |-> c.line, args |-> c.args, pending |-> c.pending, error |-> c.error ]
    <2>0. \E l, a, p, e : cmd = [ line |-> l, args |-> a, pending |-> p, error |-> e ]
        BY <1>1 DEF ToolTypes
    <2>1. PICK l, a, p, e : cmd = [ line |-> l, args |-> a, pending |-> p, error |-> e ]
        BY <2>0
    <2>2. ASSUME NEW y, NEW x
          PROVE  /\ [ [ line |-> l, args |-> a, pending |-> y, error |-> e ] EXCEPT !.pending = x ]
                      = [ line |-> l, args |-> a, pending |-> x, error |-> e ]
                 /\ [ [ line |-> l, args |-> a, pending |-> y, error |-> e ] EXCEPT !.error = x ]
                      = [ line |-> l, args |-> a, pending |-> y, error |-> x ]
        OBVIOUS
    <2>. DEFINE q == cmd.pending - 1
                f == cmd.error \/ failed
    <2>3. c = [ cmd EXCEPT !.pending = q, !.error = f ]
        BY Zenon
    <2>. HIDE DEF c, q, f
    <2>4. c = [ [ cmd EXCEPT !.pending = q ] EXCEPT !.error = f ]
        BY <2>3, Zenon
    <2>5. [ cmd EXCEPT !.pending = q ] = [ line |-> l, args |-> a, pending |-> q, error |-> e ]
        BY <2>1, <2>2, Zenon
    <2>6. c = [ line |-> l, args |-> a, pending |-> q, error |-> f ]
        BY <2>2, <2>4, <2>5, Zenon
    <2>. QED  BY <2>1, <2>6
<1>. HIDE DEF c
<1>5. cmd.line.word \in DeviceWords /\ cmd.args \in Seq(STRING)
    BY <1>1 DEF ToolTypes
<1>6. IsSeq(error) /\ AllTalk(error)
    BY TalkIs, ShortSeqs, NothingBegins
<1>. HIDE DEF error
<1>7. IsSeq(down) /\ IsSeq(to) /\ IsSeq(Stream) /\ AllTalk(Stream)
    BY <1>1, ToolNumbers DEF ToolTypes, Working
<1>8. IsSeq(told_) /\ AllTalk(told_)
    BY <1>6, <1>7, TalkGoesOn
<1>9. told_ = down \o (to \o error) /\ IsSeq(to \o error)
    BY <1>6, <1>7, Regroup, Joins DEF Stream
<1>10. CASE cmd' = c /\ to' = to \o error /\ UNCHANGED served
    <2>1. Stream' = told_ /\ IsSeq(to') /\ IsSeq(down')
        BY <1>2, <1>7, <1>9, <1>10 DEF Stream
    <2>2. UNCHANGED << at, cl, commands, res, exit >> /\ Meant' = Meant /\ Sent' = Sent
          /\ \A k : (CarriedOut(k)' <=> CarriedOut(k)) /\ (Tolerated(k)' <=> Tolerated(k))
        BY <1>10, SameCommands DEF tool_vars
    <2>. HIDE DEF told_
    <2>3. ToolTypes'
        BY <1>4, <1>5, <1>10, <2>1, <2>2 DEF ToolTypes
    <2>4. cmd' # NoCmd /\ cmd'.line = Meant'[Sent']
        <3>1. NoCmd.line.word = ""
            BY DEF NoCmd, Line
        <3>2. cmd'.line.word # ""
            BY <1>4, <1>5, <1>10 DEF DeviceWords
        <3>. QED  BY <1>1, <1>4, <1>10, <2>2, <3>1, <3>2 DEF Working
    <2>5. Working'
        BY <1>1, <1>2, <1>8, <1>10, <2>1, <2>2, <2>4 DEF Working, Awaiting, Linked
    <2>. QED  BY <2>3, <2>5 DEF ToolRuns
<1>11. ASSUME NEW on, NEW off, NEW args, cmd' = NoCmd,
              to' = ((to \o error) \o replied(c, on, off)) \o << Prompt >>,
              served' = Served(c.line, code_of(c), args)
       PROVE  ToolTypes' /\ ToolRuns'
    <2>. DEFINE code == code_of(c)
                r == replied(c, on, off)
                e == [ line |-> c.line, code |-> code, args |-> args ]
    <2>1. IsSeq(r) /\ EndsTalk(r, code) /\ is_alldone(code)
        BY <1>4, <1>5, RepliesEnd
    <2>2. served' = Append(served, e) /\ e.line = c.line /\ e.code = code
        BY <1>11 DEF Served
    <2>. HIDE DEF code, r, e, told_
    <2>3. IsSeq((told_ \o r) \o << Prompt >>) /\ Responds((told_ \o r) \o << Prompt >>, code)
        BY <1>8, <2>1, RespondsSo
    <2>4. IsSeq((to \o error) \o r) /\ IsSeq(<< Prompt >>) /\ IsSeq(((to \o error) \o r) \o << Prompt >>)
        BY <1>9, <2>1, ShortSeqs, Joins
    <2>5. Stream' = (told_ \o r) \o << Prompt >>
        <3>. DEFINE x == to \o error
        <3>1. IsSeq(x) /\ IsSeq(x \o r) /\ told_ = down \o x
            BY <1>9, <2>4
        <3>2. Stream' = down \o ((x \o r) \o << Prompt >>)
            BY <1>2, <1>11 DEF Stream, r
        <3>. HIDE DEF x
        <3>3. down \o ((x \o r) \o << Prompt >>) = (down \o (x \o r)) \o << Prompt >>
            BY <1>7, <2>4, <3>1, Regroup
        <3>4. down \o (x \o r) = (down \o x) \o r
            BY <1>7, <2>1, <3>1, Regroup
        <3>. QED  BY <3>1, <3>2, <3>3, <3>4
    <2>6. IsSeq(down') /\ IsSeq(to') /\ Responds(Stream', code)
        BY <1>2, <1>7, <1>11, <2>3, <2>4, <2>5 DEF r
    <2>7. Awaiting /\ Len(served) = Sent - 1 /\ up' = << >> /\ c.line = Meant[Sent]
        BY <1>1, <1>2, <1>4 DEF Working
    <2>. QED  BY <1>2, <1>11, <2>1, <2>2, <2>6, <2>7, IsAnswered
<1>12. CASE /\ cmd' = NoCmd
            /\ \E on \in SUBSET ToSet(c.args) : \E off \in SUBSET (ToSet(c.args) \ on) :
                     /\ to' = ((to \o error) \o replied(c, on, off)) \o << Prompt >>
                     /\ \E args : served' = Served(c.line, code_of(c), args)
    BY <1>11, <1>12
<1>. QED  BY <1>3, <1>10, <1>12, Zenon DEF c, error, code_of

(* The hosts of a line come to hosts.                                      *)
LEMMA HostsAreValid ==
    ASSUME NEW line, line.hosts \in Seq(STRING)
    PROVE  validated(line) \in Seq(STRING)
<1>. DEFINE asked == line.hosts
            total == [ h \in STRING |-> counted(ConfAliases, asked, h) ]
<1>1. GoodAliases(ConfAliases) /\ ConfNodes \in Seq(STRING)
    BY SessionAssumption DEF GoodAliases
<1>2. asked \in Seq(STRING)
    OBVIOUS
<1>. HIDE DEF asked
<1>3. SumsTo(ConfAliases, asked, total)
    <2>1. \A h \in STRING : \E s : AddsUp(s, asked, weights(ConfAliases, h)) /\ s[Len(asked)] = counted(ConfAliases, asked, h)
        BY <1>1, <1>2, SumsUp
    <2>. QED  BY <2>1 DEF SumsTo
<1>. HIDE DEF total
<1>4. conf_exp_aliases(ConfAliases, asked) \in Seq(STRING)
    BY <1>1, <1>2, <1>3, ExpandsExactly
<1>. QED  BY <1>1, <1>4 DEF validated, asked

(* A response that is all there is ends it.                                *)
LEMMA EndsAlone == ASSUME NEW r, NEW code, r.code = code PROVE EndsTalk(<< r >>, code)
<1>. DEFINE t == << r >>
<1>1. Len(t) = 0 + 1 /\ t[0 + 1] = r
    BY ShortSeqs
<1>. HIDE DEF t
<1>2. \A i \in 1..0 : Talk(t[i])
    OBVIOUS
<1>3. 0 \in Nat
    OBVIOUS
<1>4. EndsTalk(t, code)
    BY <1>1, <1>2, <1>3 DEF EndsTalk
<1>. QED  BY <1>4 DEF t

(* The line is answered on the spot.                                       *)
LEMMA AnswersAtOnce ==
    ASSUME ToolTypes, Requested, UNCHANGED << tool_vars, conn, down, cmd >>, up' = << >>,
           NEW responses, NEW code, IsSeq(responses), EndsTalk(responses, code), is_alldone(code),
           to' = (to \o responses) \o << Prompt >>,
           NEW args, served' = Served(Meant[Sent], code, args)
    PROVE  ToolTypes' /\ ToolRuns'
<1>. DEFINE e == [ line |-> Meant[Sent], code |-> code, args |-> args ]
<1>1. served' = Append(served, e) /\ e.line = Meant[Sent] /\ e.code = code
    BY DEF Served
<1>. HIDE DEF e
<1>2. down = << >> /\ to = << >> /\ IsSeq(<< >>) /\ AllTalk(<< >>)
    BY NothingToRead, NothingBegins, ShortSeqs DEF Requested
<1>3. /\ IsSeq((<< >> \o responses) \o << Prompt >>)
      /\ Responds((<< >> \o responses) \o << Prompt >>, code)
    BY <1>2, RespondsSo
<1>4. IsSeq(to') /\ Responds(to', code)
    BY <1>2, <1>3
<1>5. Stream' = to' /\ IsSeq(down')
    <2>1. Stream' = << >> \o to'
        BY <1>2 DEF Stream
    <2>. QED  BY <1>2, <1>4, <2>1, JoinsNone
<1>6. Awaiting /\ Len(served) = Sent - 1 /\ cmd' = NoCmd
    BY DEF Requested
<1>. QED  BY <1>1, <1>4, <1>5, <1>6, IsAnswered

(* The command is refused, or its actions begin.                           *)
LEMMA CommandKeeps ==
    ASSUME ToolTypes, Requested, UNCHANGED << tool_vars, conn, down >>, up' = << >>,
           create_command(Meant[Sent]), Meant[Sent].word \in DeviceWords, Meant[Sent].hosts \in Seq(STRING)
    PROVE  ToolTypes' /\ ToolRuns'
<1>. DEFINE line    == Meant[Sent]
            hl      == validated(line)
            bad     == bad_hosts(ConfNodes, hl)
            r       == IF bad # << >> THEN Resp(209, bad, "") ELSE Resp(213, << >>, "")
            code    == IF bad # << >> THEN 209 ELSE 213
            Queued  ==
                /\ \E n \in 1..MaxActions :
                      cmd' = [ line |-> line, args |-> hl, pending |-> n, error |-> FALSE ]
                /\ to' = to \o prompts(TRUE) /\ UNCHANGED served
            Refuses ==
                /\ to' = (to \o << r >>) \o prompts(FALSE)
                /\ served' = Served(line, r.code, << >>)
                /\ UNCHANGED cmd
<1>1. Queued \/ Refuses
    BY Zenon DEF create_command
<1>2. hl \in Seq(STRING)
    BY HostsAreValid
<1>. HIDE DEF hl, bad
<1>3. CASE Queued
    <2>1. prompts(TRUE) = << >>
        BY DEF prompts
    <2>2. PICK n \in 1..MaxActions : cmd' = [ line |-> line, args |-> hl, pending |-> n, error |-> FALSE ]
        BY <1>3
    <2>. HIDE DEF line
    <2>3. down = << >> /\ to = << >> /\ IsSeq(<< >>) /\ AllTalk(<< >>) /\ << >> \o << >> = << >>
        BY NothingToRead, NothingBegins, ShortSeqs, JoinsNone DEF Requested
    <2>4. to' = << >> /\ down' = << >> /\ served' = served
        BY <1>3, <2>1, <2>3
    <2>5. Stream' = << >>
        BY <2>3, <2>4 DEF Stream
    <2>6. UNCHANGED << at, cl, commands, res, exit >> /\ Meant' = Meant /\ Sent' = Sent
          /\ \A k : (CarriedOut(k)' <=> CarriedOut(k)) /\ (Tolerated(k)' <=> Tolerated(k))
        BY <2>4, SameCommands DEF tool_vars
    <2>7. cmd'.line = line /\ cmd'.args = hl /\ cmd'.pending = n /\ cmd'.error = FALSE
        BY <2>2
    <2>8. ToolTypes'
        BY <1>2, <2>2, <2>3, <2>4, <2>6, <2>7 DEF ToolTypes, line
    <2>9. cmd' # NoCmd
        <3>1. NoCmd.line.word = ""
            BY DEF NoCmd, Line
        <3>2. cmd'.line.word # ""
            BY <2>7 DEF DeviceWords, line
        <3>. QED  BY <3>1, <3>2
    <2>10. Working'
        BY <2>3, <2>4, <2>5, <2>6, <2>7, <2>9 DEF Requested, Working, Awaiting, Linked, line
    <2>. QED  BY <2>8, <2>10 DEF ToolRuns
<1>4. CASE Refuses
    <2>1. r.code = code /\ is_alldone(code)
        BY DEF Resp, is_alldone
    <2>2. prompts(FALSE) = << Prompt >>
        BY DEF prompts
    <2>. HIDE DEF r, code
    <2>3. IsSeq(<< r >>) /\ Len(<< r >>) = 1 /\ << r >>[1] = r /\ << r >> # << >>
        BY ShortSeqs
    <2>4. EndsTalk(<< r >>, code)
        BY <2>1, EndsAlone
    <2>5. served' = Served(line, code, << >>)
        BY <1>4, <2>1
    <2>6. to' = (to \o << r >>) \o << Prompt >>
        BY <1>4, <2>2
    <2>. QED  BY <1>4, <2>1, <2>3, <2>4, <2>5, <2>6, AnswersAtOnce
<1>. QED  BY <1>1, <1>3, <1>4

(* The daemon takes a line.                                                *)
LEMMA InputKeeps ==
    ASSUME ToolTypes, ToolRuns, parse_input, UNCHANGED tool_vars
    PROVE  ToolTypes' /\ ToolRuns'
<1>. DEFINE line == Head(up)
            word == line.word
<1>1. /\ conn = "open" /\ up # << >> /\ up' = Tail(up)
      /\ \/ /\ cmd # NoCmd /\ to' = to \o Plain(208)
            /\ UNCHANGED << conn, down, toggles, cmd, served >>
         \/ cmd = NoCmd /\ word = "nodes" /\ query_nodes_reply(line) /\ UNCHANGED toggles
         \/ cmd = NoCmd /\ word = "telemetry" /\ toggle(line, 104)
         \/ cmd = NoCmd /\ word = "exprange" /\ toggle(line, 105)
         \/ cmd = NoCmd /\ word = "quit" /\ quit(line)
         \/ /\ cmd = NoCmd /\ word \in DeviceWords /\ (line.hosts # << >> \/ word \in AllWords)
            /\ create_command(line) /\ UNCHANGED toggles
         \/ cmd = NoCmd /\ word = "device" /\ query_device_reply(line) /\ UNCHANGED toggles
         \/ /\ cmd = NoCmd /\ word \in DeviceWords \ AllWords /\ line.hosts = << >>
            /\ Answers(line, Plain(201)) /\ UNCHANGED toggles
    BY Zenon DEF parse_input
<1>2. cmd = NoCmd /\ (Requested \/ Leaving)
    BY <1>1 DEF ToolRuns, AtStart, Greeted, AtPrompt, AtNext, Requested, Working, Answered,
           AtPrompted, Leaving, Parting, Over, Quiet, HasQuit
<1>. HIDE DEF line
<1>3. UNCHANGED << at, cl, commands, res, exit >> /\ Meant' = Meant /\ Sent' = Sent /\ Sent \in Nat
    BY SameCommands, ToolNumbers DEF tool_vars
<1>4. CASE Requested
    <2>1. line = Meant[Sent] /\ up' = << >>
        <3>1. up = << Meant[Sent] >>
            BY <1>4 DEF Requested
        <3>2. ASSUME NEW x
              PROVE  Head(<< x >>) = x /\ Tail(<< x >>) = << >>
            OBVIOUS
        <3>. QED  BY <1>1, <3>1, <3>2 DEF line
    <2>2. line \in OptionLines
        <3>1. Meant \in Seq(OptionLines) /\ Sent \in 1..Len(Meant)
            <4>1. Meant \in Seq(OptionLines) /\ Len(Meant) \in Nat /\ Len(commands) \in Nat /\ Sent = Len(Meant) - Len(commands)
                BY ToolNumbers DEF CommandLists, Sent
            <4>2. Sent >= 1
                BY <1>4 DEF Requested, Awaiting
            <4>. DEFINE m == Len(Meant)
                        n == Len(commands)
            <4>. HIDE DEF m, n
            <4>3. m \in Nat /\ n \in Nat /\ Sent = m - n
                BY <4>1 DEF m, n
            <4>4. Sent \in 1..m
                BY <4>2, <4>3
            <4>. QED  BY <4>1, <4>4 DEF m
        <3>. DEFINE T == OptionLines
        <3>. HIDE DEF T
        <3>2. Meant \in Seq(T) /\ Sent \in 1..Len(Meant)
            BY <3>1 DEF T
        <3>3. Meant[Sent] \in T
            BY <3>2
        <3>. QED  BY <2>1, <3>3 DEF T
    <2>3. word # "quit" /\ line.hosts \in Seq(STRING)
        BY <2>2 DEF OptionLines, DeviceWords
    <2>4. ASSUME NEW responses, NEW code, IsSeq(responses), EndsTalk(responses, code), is_alldone(code),
                 responses[Len(responses)].code = code, Answers(line, responses)
          PROVE  ToolTypes' /\ ToolRuns'
        <3>1. /\ to' = (to \o responses) \o << Prompt >> /\ UNCHANGED << conn, down, cmd >>
              /\ served' = Served(line, code, << >>)
            BY <2>4 DEF Answers
        <3>. HIDE DEF word
        <3>. QED  BY <1>4, <2>1, <2>4, <3>1, AnswersAtOnce
    <2>5. ASSUME NEW code, is_alldone(code), NEW talk, IsSeq(talk), AllTalk(talk), Answers(line, talk \o Plain(code))
          PROVE  ToolTypes' /\ ToolRuns'
        BY <2>4, <2>5, PlainEnds
    <2>6. ASSUME NEW code, is_alldone(code), Answers(line, Plain(code))
          PROVE  ToolTypes' /\ ToolRuns'
        BY <2>4, <2>6, PlainAlone
    <2>7. is_alldone(103) /\ is_alldone(104) /\ is_alldone(105) /\ is_alldone(201)
        BY DEF is_alldone
    <2>8. CASE query_nodes_reply(line)
        <3>. DEFINE talk == IF "exprange" \in toggles THEN names(ConfNodes) ELSE << Resp(306, ConfNodes, "") >>
        <3>1. Answers(line, talk \o Plain(103))
            BY <2>8 DEF query_nodes_reply
        <3>2. IsSeq(names(ConfNodes)) /\ AllTalk(names(ConfNodes))
            <4>. DEFINE n == Len(ConfNodes)
                        each == names(ConfNodes)
            <4>1. n \in Nat /\ DOMAIN ConfNodes = 1..n
                BY SessionAssumption
            <4>2. each = [ i \in 1..n |-> each[i] ] /\ \A i \in 1..n : each[i].code = 307
                <5>. HIDE DEF n
                <5>. QED  BY <4>1 DEF names, Resp
            <4>. HIDE DEF n, each
            <4>3. AllOfCode(each, n, 307)
                BY <4>1, <4>2 DEF AllOfCode
            <4>4. IsSeq(each) /\ AllTalk(each)
                BY <4>3, TalkOfCode
            <4>. QED  BY <4>4 DEF each
        <3>3. IsSeq(<< Resp(306, ConfNodes, "") >>) /\ AllTalk(<< Resp(306, ConfNodes, "") >>)
            <4>1. 306 \in Int /\ 306 > 299
                OBVIOUS
            <4>. QED  BY <4>1, TalkOfOne, Zenon
        <3>4. IsSeq(talk) /\ AllTalk(talk)
            BY <3>2, <3>3
        <3>. HIDE DEF talk
        <3>. QED  BY <2>5, <2>7, <3>1, <3>4
    <2>9. CASE toggle(line, 104) \/ toggle(line, 105) \/ Answers(line, Plain(201))
        BY <2>6, <2>7, <2>9 DEF toggle
    <2>10. CASE query_device_reply(line)
        <3>. DEFINE hosts == IF line.hosts = << >> THEN ConfNodes ELSE line.hosts
                    talk  == << Resp(304, hosts, "") >>
        <3>1. Answers(line, talk \o Plain(103))
            BY <2>10 DEF query_device_reply
        <3>. HIDE DEF hosts
        <3>2. IsSeq(talk) /\ AllTalk(talk)
            <4>1. 304 \in Int /\ 304 > 299
                OBVIOUS
            <4>. QED  BY <4>1, TalkOfOne, Zenon
        <3>. HIDE DEF talk
        <3>. QED  BY <2>5, <2>7, <3>1, <3>2
    <2>11. CASE word \in DeviceWords /\ create_command(line)
        <3>1. UNCHANGED << conn, down >>
            BY <2>11 DEF create_command
        <3>. QED  BY <1>4, <2>1, <2>3, <2>11, <3>1, CommandKeeps
    <2>. QED  BY <1>1, <1>2, <2>3, <2>8, <2>9, <2>10, <2>11
<1>5. CASE Leaving
    <2>1. line.word = "quit" /\ up' = << >>
        <3>1. up = << Line("quit", << >>) >>
            BY <1>5 DEF Leaving
        <3>2. Head(up) = Line("quit", << >>) /\ Tail(up) = << >>
            <4>1. ASSUME NEW x
                  PROVE  Head(<< x >>) = x /\ Tail(<< x >>) = << >>
                OBVIOUS
            <4>. QED  BY <3>1, <4>1
        <3>. QED  BY <1>1, <3>2 DEF line, Line
    <2>2. quit(line)
        BY <1>1, <1>2, <2>1 DEF DeviceWords
    <2>3. down = << >> /\ to = << >> /\ IsSeq(<< >>) /\ << >> \o << >> = << >>
        BY <1>5, NothingToRead, ShortSeqs, JoinsNone DEF Leaving
    <2>. DEFINE e == [ line |-> line, code |-> 101, args |-> << >> ]
                r == Resp(101, << >>, "")
    <2>4. /\ to' = << >> /\ down' = << >> \o << r >> /\ conn' = "closed" /\ cmd' = cmd
          /\ served' = Append(served, e) /\ e.line = line /\ r.code = 101
        BY <2>2, <2>3 DEF quit, Plain, Served, Resp
    <2>. HIDE DEF e, r
    <2>5. IsSeq(<< r >>) /\ Len(<< r >>) = 1 /\ << r >>[1] = r
        BY ShortSeqs
    <2>6. down' = << r >> /\ Stream' = << r >>
        BY <2>3, <2>4, <2>5, JoinsNone DEF Stream
    <2>7. Bye(Stream')
        <3>1. \A i \in 1..Len(<< r >>) : i = 1
            BY <2>5
        <3>. DEFINE t == << r >>
        <3>2. Len(t) = 1 /\ \A i \in 1..Len(t) : t[i] = r
            BY <2>5, <3>1
        <3>. HIDE DEF t
        <3>3. Bye(t)
            BY <2>4, <3>2 DEF Bye
        <3>. QED  BY <2>6, <3>3 DEF t
    <2>8. /\ IsSeq(served') /\ Len(served') = Len(served) + 1 /\ served'[Len(served) + 1] = e
          /\ \A k \in Int : k <= Len(served) => /\ CarriedOut(k) => CarriedOut(k)'
                                                /\ res' = res /\ Settled(k) => Settled(k)'
        BY <1>3, <2>4, OneMoreAnswer
    <2>9. Len(served) = Sent /\ Over
        BY <1>5 DEF Leaving
    <2>10. CarriedOut(Sent)' /\ Settled(Sent)'
        <3>1. CarriedOut(Sent) /\ Settled(Sent)
            BY <2>9 DEF Over
        <3>2. \A k \in Int : k <= Len(served) /\ k = Sent => (CarriedOut(k)' => CarriedOut(Sent)') /\ (Settled(k)' => Settled(Sent)')
            BY <1>3 DEF CarriedOut, Settled, Tolerated
        <3>. QED  BY <1>3, <2>8, <2>9, <3>1, <3>2
    <2>11. Over'
        BY <1>2, <1>3, <2>4, <2>9, <2>10 DEF Over, Linked
    <2>12. HasQuit'
        BY <1>3, <2>1, <2>4, <2>8, <2>9 DEF HasQuit
    <2>13. ToolTypes'
        BY <1>2, <1>3, <2>3, <2>4, <2>5, <2>6, <2>8 DEF ToolTypes
    <2>14. Parting'
        BY <1>3, <1>5, <2>7, <2>11, <2>12 DEF Parting, Leaving
    <2>. QED  BY <2>13, <2>14 DEF ToolRuns
<1>. QED  BY <1>2, <1>4, <1>5

(* The daemon ends at a line, which is not answered.                       *)
LEMMA FatalKeeps ==
    ASSUME ToolTypes, ToolRuns, lsd_fatal_error, UNCHANGED tool_vars
    PROVE  ToolTypes' /\ ToolRuns'
<1>1. /\ conn = "open" /\ cmd = NoCmd /\ up # << >> /\ Head(up).word \in DeviceWords \cup {"device"}
      /\ up' = Tail(up) /\ conn' = "closed" /\ to' = << >> /\ cmd' = NoCmd
      /\ UNCHANGED << down, served >>
    BY DEF lsd_fatal_error, Ended
<1>2. Requested \/ Leaving
    BY <1>1 DEF ToolRuns, AtStart, Greeted, AtPrompt, AtNext, Requested, Working, Answered,
           AtPrompted, Leaving, Parting, Over, Quiet, HasQuit
<1>3. ASSUME NEW x
      PROVE  Head(<< x >>) = x /\ Tail(<< x >>) = << >>
    OBVIOUS
<1>4. CASE Requested
    <2>1. down = << >> /\ to = << >> /\ IsSeq(<< >>) /\ AllTalk(<< >>) /\ << >> \o << >> = << >>
        BY <1>4, NothingToRead, NothingBegins, ShortSeqs, JoinsNone DEF Requested
    <2>2. Stream' = << >> /\ up' = << >>
        <3>1. Stream' = << >>
            BY <1>1, <2>1 DEF Stream
        <3>2. up = << Meant[Sent] >>
            BY <1>4 DEF Requested
        <3>. QED  BY <1>1, <1>3, <3>1, <3>2
    <2>3. UNCHANGED << at, cl, commands, res, exit >> /\ Meant' = Meant /\ Sent' = Sent
          /\ \A k : (CarriedOut(k)' <=> CarriedOut(k)) /\ (Tolerated(k)' <=> Tolerated(k))
        BY <1>1, SameCommands DEF tool_vars
    <2>4. ToolTypes'
        BY <1>1, <2>1, <2>3 DEF ToolTypes
    <2>5. Working'
        BY <1>1, <1>4, <2>1, <2>2, <2>3 DEF Requested, Working, Awaiting, Linked
    <2>. QED  BY <2>4, <2>5 DEF ToolRuns
<1>5. CASE Leaving
    <2>1. up = << Line("quit", << >>) >>
        BY <1>5 DEF Leaving
    <2>2. Head(up).word = "quit"
        BY <1>3, <2>1 DEF Line
    <2>. QED  BY <1>1, <2>2 DEF DeviceWords
<1>. QED  BY <1>2, <1>4, <1>5

(* Every step keeps the invariant.                                         *)
LEMMA ToolKeeps ==
    ASSUME ToolInv, [ToolNext]_<< session_vars, tool_vars >>
    PROVE  ToolInv'
<1>1. CASE at = "end" /\ exit = 1
    <2>1. ~ToolStep
        BY <1>1 DEF ToolStep, Start, process_version, expect_prompt, cmd_execute, process_response, expect_goodbye
    <2>2. UNCHANGED tool_vars
        BY <2>1 DEF ToolNext
    <2>. QED  BY <1>1, <2>2 DEF tool_vars, ToolInv
<1>2. CASE ToolTypes /\ AtEnd
    <2>1. ~ToolStep
        BY <1>2 DEF AtEnd, ToolStep, Start, process_version, expect_prompt, cmd_execute, process_response, expect_goodbye
    <2>2. UNCHANGED tool_vars /\ (DaemonNext \/ UNCHANGED session_vars)
        BY <2>1 DEF ToolNext
    <2>3. conn = "closed" /\ cmd = NoCmd
        BY <1>2 DEF AtEnd, Over, HasQuit
    <2>4. handle_write \/ listen_client \/ DaemonExits \/ UNCHANGED session_vars
        BY <2>2, <2>3 DEF DaemonNext, create_client, parse_input, Telemetry, act_finish, lsd_fatal_error
    <2>5. Shrinks
        BY <1>2, <2>2, <2>4, LinkShrinks
    <2>. QED  BY <1>2, <2>5, ShrinksKeeps DEF ToolInv
<1>3. CASE ToolTypes /\ exit = -1 /\ ToolRuns
    <2>1. CASE ToolStep
        BY <1>3, <2>1, StartKeeps, VersionKeeps, PromptKeeps, ExecuteKeeps, ResponseKeeps, GoodbyeKeeps DEF ToolStep
    <2>2. CASE UNCHANGED tool_vars /\ (DaemonNext \/ UNCHANGED session_vars)
        <3>1. ToolTypes' /\ ToolRuns'
            <4>1. CASE create_client
                BY <1>3, <2>2, <4>1, ClientKeeps
            <4>2. CASE parse_input
                BY <1>3, <2>2, <4>2, InputKeeps
            <4>3. CASE Telemetry
                BY <1>3, <2>2, <4>3, TelemetryKeeps
            <4>4. CASE act_finish
                BY <1>3, <2>2, <4>4, FinishKeeps
            <4>5. CASE handle_write \/ listen_client \/ DaemonExits \/ UNCHANGED session_vars
                <5>1. Shrinks
                    BY <1>3, <2>2, <4>5, LinkShrinks
                <5>. QED  BY <1>3, <5>1, ShrinksKeeps
            <4>6. CASE lsd_fatal_error
                BY <1>3, <2>2, <4>6, FatalKeeps
            <4>. QED  BY <2>2, <4>1, <4>2, <4>3, <4>4, <4>5, <4>6 DEF DaemonNext
        <3>2. exit' = -1
            BY <1>3, <2>2 DEF tool_vars
        <3>. QED  BY <3>1, <3>2 DEF ToolInv
    <2>. QED  BY <2>1, <2>2 DEF ToolNext
<1>. QED  BY <1>1, <1>2, <1>3 DEF ToolInv

(* At the end, what was served is the commands, and quit.                  *)
LEMMA ServedAtEnd ==
    ASSUME ToolTypes, AtEnd
    PROVE  LET did == elements_at(served, { i \in DOMAIN served : served[i].line.word # "quit" })
           IN  did = [ i \in 1..Sent |-> served[i] ] /\ IsSeq(did) /\ Len(did) = Sent /\ DOMAIN did = 1..Sent
<1>. DEFINE n == Sent
            S == { i \in DOMAIN served : served[i].line.word # "quit" }
            f == [ i \in 1..n |-> i ]
            did == elements_at(served, S)
<1>1. /\ n \in Nat /\ Len(Meant) \in Nat /\ n <= Len(Meant) /\ Len(served) = n + 1 /\ DOMAIN served = 1..n + 1
      /\ \A i \in 1..n : served[i].line = Meant[i]
      /\ served[n + 1].line.word = "quit" /\ Meant \in Seq(OptionLines)
    <2>1. Len(Meant) \in Nat /\ Len(commands) \in Nat /\ n \in Nat /\ n = Len(Meant) - Len(commands) /\ Meant \in Seq(OptionLines)
        BY ToolNumbers DEF Sent, CommandLists
    <2>2. n <= Len(Meant)
        BY <2>1
    <2>. QED  BY <2>1, <2>2, ToolNumbers DEF AtEnd, Over, HasQuit, CarriedOut
<1>. HIDE DEF n
<1>2. \A i \in 1..n : served[i].line.word # "quit"
    <2>. DEFINE T == OptionLines
    <2>1. \A x \in T : x.word # "quit"
        BY DEF OptionLines, DeviceWords
    <2>. HIDE DEF T
    <2>2. Meant \in Seq(T)
        BY <1>1 DEF T
    <2>3. \A i \in 1..n : Meant[i] \in T
        BY <1>1, <2>2
    <2>. QED  BY <1>1, <2>1, <2>3
<1>3. S = 1..n
    <2>1. \A i \in 1..n + 1 : i \in 1..n \/ i = n + 1
        BY <1>1
    <2>2. \A i \in 1..n : i \in 1..n + 1
        BY <1>1
    <2>. QED  BY <1>1, <1>2, <2>1, <2>2
<1>4. ranked(S) = f /\ Cardinality(S) = n
    <2>1. Ascends(f, n, 1..n)
        BY <1>1 DEF Ascends
    <2>2. 1..n \in SUBSET Int
        BY <1>1
    <2>. HIDE DEF f
    <2>3. Cardinality(1..n) = n /\ ranked(1..n) = f
        BY <1>1, <2>1, <2>2, RankedIs
    <2>. QED  BY <1>3, <2>3
<1>5. did = [ i \in 1..n |-> served[i] ]
    <2>. HIDE DEF S
    <2>1. did = [ i \in 1..n |-> served[f[i]] ]
        BY <1>4 DEF elements_at
    <2>. QED  BY <2>1
<1>. HIDE DEF did
<1>6. did = [ i \in 1..n |-> did[i] ] /\ DOMAIN did = 1..n
    BY <1>5
<1>7. IsSeq(did) /\ Len(did) = n
    BY <1>1, <1>6, ListIs
<1>. QED  BY <1>5, <1>6, <1>7 DEF n, did

(* Then the exit status tells what was done.                               *)
LEMMA EndTellsTheTruth ==
    ASSUME ToolTypes, AtEnd
    PROVE  StatusIsTrue
<1>. DEFINE n == Sent
            did == elements_at(served, { i \in DOMAIN served : served[i].line.word # "quit" })
<1>1. did = [ i \in 1..n |-> served[i] ] /\ IsSeq(did) /\ Len(did) = n /\ DOMAIN did = 1..n
    BY ServedAtEnd
<1>2. /\ n \in Nat /\ Len(Meant) \in Nat /\ Len(commands) \in Nat /\ n = Len(Meant) - Len(commands)
      /\ Meant \in Seq(OptionLines) /\ (Len(commands) = 0 <=> commands = << >>)
    BY ToolNumbers DEF Sent, CommandLists
<1>3. /\ \A i \in 1..n : served[i].line = Meant[i]
      /\ \A i \in 1..n - 1 : is_failure(served[i].code) => cl.ignore
      /\ exit = 0 => \A i \in 1..n : is_failure(served[i].code) => cl.ignore
      /\ exit # 0 => n >= 1 /\ ~cl.ignore /\ served[n].code = exit
      /\ commands = << >> \/ exit # 0
    BY DEF AtEnd, Over, CarriedOut, Settled, Tolerated
<1>. HIDE DEF n, did
<1>4. \A i \in 1..n : did[i] = served[i]
    BY <1>1
<1>5. [ i \in DOMAIN did |-> did[i].line ] = SubSeq(Meant, 1, Len(did))
    <2>. DEFINE T == OptionLines
    <2>1. Meant \in Seq(T) /\ n <= Len(Meant)
        BY <1>2
    <2>. HIDE DEF T
    <2>2. SubSeq(Meant, 1, n) = [ i \in 1..n |-> Meant[i] ]
        <3>1. SubSeq(Meant, 1, n) = [ i \in 1..(n - 1) + 1 |-> Meant[(1 + i) - 1] ]
            BY <1>2, <2>1
        <3>2. 1..(n - 1) + 1 = 1..n /\ \A i \in 1..n : (1 + i) - 1 = i
            BY <1>2
        <3>. QED  BY <3>1, <3>2
    <2>3. [ i \in DOMAIN did |-> did[i].line ] = [ i \in 1..n |-> Meant[i] ]
        BY <1>1, <1>3, <1>4
    <2>. QED  BY <1>1, <2>2, <2>3
<1>6. exit = 0 => Len(did) = Len(Meant)
    BY <1>1, <1>2, <1>3
<1>7. exit = 0 /\ ~cl.ignore => \A i \in DOMAIN did : ~is_failure(did[i].code)
    BY <1>1, <1>3, <1>4
<1>8. ASSUME exit # 0
      PROVE  /\ did # << >> /\ Last(did).code = exit
             /\ \A i \in 1..Len(did) - 1 : ~is_failure(did[i].code)
    <2>1. did # << >>
        BY <1>1, <1>3, <1>8, SeqHas
    <2>2. Last(did).code = exit
        BY <1>1, <1>2, <1>3, <1>4, <1>8 DEF Last
    <2>3. \A i \in 1..n - 1 : i \in 1..n
        BY <1>2
    <2>4. \A i \in 1..Len(did) - 1 : ~is_failure(did[i].code)
        BY <1>1, <1>3, <1>4, <1>8, <2>3
    <2>. QED  BY <2>1, <2>2, <2>4
<1>. QED  BY <1>5, <1>6, <1>7, <1>8, Zenon DEF StatusIsTrue, did, Meant

(* The exit status of powerman tells what the server did: every command    *)
(* in order and none failed, or those up to the one whose code it is.      *)
THEOREM StatusTellsTheTruth == ToolSpec => []StatusIsTrue
<1>1. SessionInit /\ ToolInit => ToolInv
    BY ToolBegins
<1>2. ToolInv /\ [ToolNext]_<< session_vars, tool_vars >> => ToolInv'
    BY ToolKeeps
<1>3. ToolInv => StatusIsTrue
    <2>1. CASE at = "end" /\ exit = 1
        <3>1. exit \notin {0} \cup 200..299
            BY <2>1
        <3>. QED  BY <3>1, Zenon DEF StatusIsTrue
    <2>2. CASE ToolTypes /\ AtEnd
        BY <2>2, EndTellsTheTruth
    <2>3. CASE exit = -1
        <3>1. exit \notin {0} \cup 200..299
            BY <2>3
        <3>. QED  BY <3>1, Zenon DEF StatusIsTrue
    <2>. QED  BY <2>1, <2>2, <2>3 DEF ToolInv
<1>. QED  BY <1>1, <1>2, <1>3, PTL DEF ToolSpec

(***************************************************************************)
(* What a call returns                                                     *)
(***************************************************************************)

(* All the elements are the sequence.                                      *)
LEMMA AllElements ==
    ASSUME NEW s, NEW n \in Nat
    PROVE  elements_at(s, 1..n) = [ i \in 1..n |-> s[i] ]
<1>. DEFINE f == [ i \in 1..n |-> i ]
<1>1. 1..n \in SUBSET Int /\ Ascends(f, n, 1..n)
    BY DEF Ascends
<1>2. \A i \in 1..n : f[i] = i
    OBVIOUS
<1>. HIDE DEF f
<1>3. Cardinality(1..n) = n /\ ranked(1..n) = f
    BY <1>1, RankedIs
<1>. QED  BY <1>2, <1>3 DEF elements_at

(* A response without prompts inside.                                      *)
Body(s) == IsSeq(s) /\ \A i \in 1..Len(s) : s[i] # Prompt

(* One element more at the end.                                            *)
LEMMA WithLast ==
    ASSUME NEW s, IsSeq(s), NEW e
    PROVE  LET b == s \o << e >>
           IN  /\ IsSeq(b) /\ Len(s) \in Nat /\ Len(b) = Len(s) + 1 /\ b[Len(s) + 1] = e
               /\ \A i \in 1..Len(s) : b[i] = s[i]
<1>. DEFINE p == << e >>
            b == s \o p
<1>0. IsSeq(p)
    BY ShortSeqs
<1>1. Len(p) = 1 /\ p[1] = e
    BY ShortSeqs
<1>. HIDE DEF p
<1>2. IsSeq(b) /\ Len(s) \in Nat /\ Len(b) = Len(s) + Len(p)
    BY <1>0, Joins
<1>3. \A i \in 1..Len(s) : b[i] = s[i]
    BY <1>0, Joins
<1>4. \A j \in 1..Len(p) : b[Len(s) + j] = p[j]
    BY <1>0, Joins
<1>5. 1 \in 1..Len(p)
    BY <1>1
<1>. HIDE DEF b
<1>. QED  BY <1>1, <1>2, <1>3, <1>4, <1>5 DEF b, p

(* Its lines are all but the prompt.                                       *)
LEMMA ParsesAll ==
    ASSUME NEW s, Body(s)
    PROVE  parse_response(s \o << Prompt >>) = 1..Len(s)
<1>. DEFINE b == s \o << Prompt >>
            n == Len(s)
            S == { i \in DOMAIN b : b[i] # Prompt /\ (i = 1 \/ b[i - 1] # Prompt) }
<1>1. IsSeq(b) /\ n \in Nat /\ Len(b) = n + 1 /\ b[n + 1] = Prompt /\ \A i \in 1..n : b[i] = s[i]
    BY WithLast DEF Body
<1>2. DOMAIN b = 1..n + 1 /\ s = [ i \in 1..n |-> s[i] ] /\ \A i \in 1..n : s[i] # Prompt
    BY <1>1, SeqHas DEF Body
<1>3. parse_response(b) = S
    BY DEF parse_response
<1>. HIDE DEF b, n
<1>4. S = 1..n
    <2>1. ASSUME NEW i \in S
          PROVE  i \in 1..n
        BY <1>1, <1>2
    <2>2. ASSUME NEW i \in 1..n
          PROVE  i \in S
        <3>1. i \in DOMAIN b /\ b[i] # Prompt
            BY <1>1, <1>2
        <3>2. i = 1 \/ i - 1 \in 1..n
            BY <1>1
        <3>3. i = 1 \/ b[i - 1] # Prompt
            BY <1>1, <1>2, <3>2
        <3>. QED  BY <3>1, <3>3
    <2>. HIDE DEF S
    <2>. QED  BY <2>1, <2>2
<1>. QED  BY <1>3, <1>4 DEF b, n

(* A response: what has no end, and a code that ends it.                   *)
ClosesWith(s, code) ==
    \E m \in Nat : /\ Len(s) = m + 1 /\ s[m + 1].code = code
                   /\ \A i \in 1..m : s[i].code \in Int /\ s[i].code > 299

(* Node names of a line.                                                   *)
Shows(s, line, state) == \E i \in 1..Len(s) : s[i] = Resp(303, line.hosts, state)
Reports(args, line, state) == \E i \in DOMAIN args : args[i] = << line.hosts[1], state >>

(* s is the response to line that o stands for.                            *)
Answer(s, line, o) ==
    /\ IsSeq(s) /\ o.code \in 100..299 /\ ClosesWith(s, o.code)
    /\ line.word = "status" /\ o.code < 200 =>
         /\ \A state \in { "on", "off" } : Shows(s, line, state) <=> Reports(o.args, line, state)
         /\ ~(Reports(o.args, line, "on") /\ Reports(o.args, line, "off"))
    /\ line.word = "nodes" /\ o.code < 200 => s = names(ConfNodes) \o Plain(103)

(* It has no prompt inside.                                                *)
LEMMA AnswerIsBody ==
    ASSUME NEW s, NEW line, NEW o, Answer(s, line, o)
    PROVE  Body(s)
<1>1. PICK m \in Nat : /\ Len(s) = m + 1 /\ s[m + 1].code = o.code
                       /\ \A i \in 1..m : s[i].code \in Int /\ s[i].code > 299
    BY DEF Answer, ClosesWith
<1>2. Prompt.code = 0
    BY DEF Prompt, Resp
<1>3. ASSUME NEW i \in 1..Len(s)
      PROVE  s[i] # Prompt
    <2>1. CASE i = m + 1
        <3>1. s[i].code \in 100..299
            BY <1>1, <2>1 DEF Answer
        <3>2. \A x \in 100..299 : x # 0
            OBVIOUS
        <3>. QED  BY <1>2, <3>1, <3>2, Zenon
    <2>2. CASE i # m + 1
        <3>1. i \in 1..m
            BY <1>1, <2>2
        <3>. QED  BY <1>1, <1>2, <3>1
    <2>. QED  BY <2>1, <2>2
<1>. QED  BY <1>3 DEF Body, Answer

(* What was read is the response, and maybe more.                          *)
Leads(s, b) == \A i \in 1..Len(s) : b[i] = s[i]

(* The code that is found is the one at its end.                           *)
LEMMA RetcodeIs ==
    ASSUME NEW s, IsSeq(s), NEW code \in 100..299, ClosesWith(s, code),
           NEW b, Leads(s, b)
    PROVE  server_retcode(b, 1..Len(s)) = IF code >= 200 THEN code ELSE ESUCCESS
<1>1. PICK m \in Nat : /\ Len(s) = m + 1 /\ s[m + 1].code = code
                       /\ \A i \in 1..m : s[i].code \in Int /\ s[i].code > 299
    BY DEF ClosesWith
<1>. DEFINE lines == 1..Len(s)
            S == { i \in lines : b[i].code = 1 \/ is_alldone(b[i].code) }
            c == CHOOSE i \in S : \A j \in S : i <= j
<1>2. lines = 1..m + 1 /\ \A i \in 1..m + 1 : b[i] = s[i]
    BY <1>1 DEF Leads
<1>. HIDE DEF lines
<1>3. S = { m + 1 }
    <2>1. ASSUME NEW i \in S
          PROVE  i = m + 1
        <3>1. i \in 1..m + 1 /\ (s[i].code = 1 \/ s[i].code \in 100..299)
            BY <1>2 DEF S, is_alldone
        <3>2. i \notin 1..m
            <4>1. ~(s[i].code > 299)
                BY <3>1
            <4>. QED  BY <1>1, <4>1
        <3>. QED  BY <1>1, <3>1, <3>2
    <2>2. m + 1 \in S
        <3>1. m + 1 \in 1..m + 1
            BY <1>1
        <3>2. s[m + 1].code \in 100..299
            BY <1>1
        <3>. QED  BY <1>2, <3>1, <3>2 DEF is_alldone
    <2>. HIDE DEF S
    <2>. QED  BY <2>1, <2>2
<1>4. c = m + 1
    <2>. HIDE DEF S
    <2>1. m + 1 \in S /\ \A j \in S : m + 1 <= j
        BY <1>3
    <2>2. \E i : i \in S /\ \A j \in S : i <= j
        BY <2>1
    <2>3. c \in S
        BY <2>2
    <2>. QED  BY <1>3, <2>3
<1>5. server_retcode(b, lines) = IF S = {} THEN ESERVERPARSE ELSE IF is_failure(b[c].code) THEN b[c].code ELSE ESUCCESS
    BY DEF server_retcode
<1>. HIDE DEF S, c
<1>6. server_retcode(b, lines) = IF is_failure(code) THEN code ELSE ESUCCESS
    <2>1. c \in 1..m + 1 /\ b[c].code = code /\ S # {}
        <3>1. m + 1 \in 1..m + 1
            BY <1>1
        <3>. QED  BY <1>1, <1>2, <1>3, <1>4, <3>1
    <2>. HIDE DEF lines
    <2>. QED  BY <1>5, <2>1
<1>7. is_failure(code) <=> code >= 200
    BY DEF is_failure
<1>. QED  BY <1>6, <1>7 DEF lines

(* The nodes that are found in the answer to "nodes".                      *)
LEMMA NodesAreFound ==
    ASSUME NEW s, s = names(ConfNodes) \o Plain(103), NEW b, Leads(s, b)
    PROVE  node_list(b, 1..Len(s)) = ConfNodes
<1>. DEFINE n == Len(ConfNodes)
            u == names(ConfNodes)
            p == Resp(103, << >>, "")
            v == u \o << p >>
            lines == 1..Len(s)
            S == { i \in lines : b[i].code = 307 }
<1>1. ConfNodes \in Seq(STRING) /\ n \in Nat /\ DOMAIN ConfNodes = 1..n /\ ConfNodes = [ i \in 1..n |-> ConfNodes[i] ]
    BY SessionAssumption
<1>2. u = [ i \in 1..n |-> u[i] ] /\ \A i \in 1..n : u[i].code = 307 /\ u[i].hosts[1] = ConfNodes[i]
    BY <1>1 DEF names, Resp
<1>3. p.code = 103
    BY DEF Resp
<1>. HIDE DEF n, u, p
<1>4. IsSeq(u) /\ Len(u) = n
    BY <1>1, <1>2, ListIs
<1>6. Len(v) = n + 1 /\ v[n + 1] = p /\ \A i \in 1..n : v[i] = u[i]
    BY <1>4, WithLast
<1>7. s = v
    BY DEF Plain, u, p
<1>. HIDE DEF v
<1>8. lines = 1..n + 1 /\ b[n + 1] = p /\ \A i \in 1..n : b[i] = u[i]
    <2>1. Len(s) = n + 1 /\ s[n + 1] = p /\ \A i \in 1..n : s[i] = u[i]
        BY <1>6, <1>7
    <2>2. n + 1 \in 1..n + 1 /\ \A i \in 1..n : i \in 1..n + 1
        BY <1>1
    <2>. QED  BY <2>1, <2>2 DEF Leads
<1>. HIDE DEF lines
<1>9. S = 1..n
    <2>1. ASSUME NEW i \in S
          PROVE  i \in 1..n
        BY <1>1, <1>3, <1>8
    <2>2. ASSUME NEW i \in 1..n
          PROVE  i \in S
        <3>1. i \in 1..n + 1
            BY <1>1
        <3>. QED  BY <1>2, <1>8, <3>1
    <2>. HIDE DEF S
    <2>. QED  BY <2>1, <2>2
<1>. DEFINE x == elements_at(b, S)
<1>10. x = [ i \in 1..n |-> b[i] ]
    <2>1. elements_at(b, 1..n) = [ i \in 1..n |-> b[i] ]
        BY <1>1, AllElements
    <2>. HIDE DEF S
    <2>. QED  BY <1>9, <2>1
<1>11. node_list(b, lines) = [ i \in DOMAIN x |-> x[i].hosts[1] ]
    BY DEF node_list
<1>. HIDE DEF x
<1>12. DOMAIN x = 1..n /\ \A i \in 1..n : x[i].hosts[1] = ConfNodes[i]
    BY <1>2, <1>8, <1>10
<1>. QED  BY <1>1, <1>11, <1>12 DEF lines

(* What a call makes of the response is what it promises.                  *)
LEMMA ReturnsValue ==
    ASSUME NEW line \in Asks, NEW s, NEW o, Answer(s, line, o)
    PROVE  returned(line, s \o << Prompt >>) = Promise!Value(line, o)
<1>1. Body(s) /\ IsSeq(s) /\ o.code \in 100..299 /\ ClosesWith(s, o.code)
    BY AnswerIsBody DEF Answer
<1>. DEFINE b     == s \o << Prompt >>
            lines == 1..Len(s)
<1>2. parse_response(b) = lines
    BY <1>1, ParsesAll
<1>7. Leads(s, b)
    BY <1>1, WithLast DEF Leads
<1>. HIDE DEF b
<1>3. server_retcode(b, lines) = IF o.code >= 200 THEN o.code ELSE ESUCCESS
    BY <1>1, <1>7, RetcodeIs
<1>. HIDE DEF lines
<1>4. returned(line, b) =
        Got(server_retcode(b, lines),
            IF server_retcode(b, lines) = ESUCCESS /\ line.word = "status" THEN node_state(b, lines, line.hosts[1]) ELSE "",
            IF server_retcode(b, lines) = ESUCCESS /\ line.word = "nodes" THEN node_list(b, lines) ELSE << >>)
    BY <1>2 DEF returned
<1>5. CASE o.code >= 200
    <2>1. server_retcode(b, lines) = o.code /\ o.code # ESUCCESS
        BY <1>1, <1>3, <1>5 DEF ESUCCESS
    <2>2. returned(line, b) = Got(o.code, "", << >>)
        BY <1>4, <2>1
    <2>. QED  BY <1>5, <2>2 DEF b, Promise!Value, Got
<1>6. CASE ~(o.code >= 200)
    <2>1. server_retcode(b, lines) = ESUCCESS /\ o.code < 200
        BY <1>1, <1>3, <1>6
    <2>2. returned(line, b) =
            Got(ESUCCESS, IF line.word = "status" THEN node_state(b, lines, line.hosts[1]) ELSE "",
                IF line.word = "nodes" THEN node_list(b, lines) ELSE << >>)
        BY <1>4, <2>1
    <2>3. line.word = "status" => node_state(b, lines, line.hosts[1]) = Promise!Reported(o, line.hosts[1])
        <3>. SUFFICES ASSUME line.word = "status" PROVE node_state(b, lines, line.hosts[1]) = Promise!Reported(o, line.hosts[1])
            OBVIOUS
        <3>1. line.hosts = << line.hosts[1] >>
            <4>1. PICK h : line = [ word |-> "status", hosts |-> << h >> ]
                BY LibraryAssumption
            <4>. QED  BY <4>1
        <3>2. /\ Shows(s, line, "on") <=> Reports(o.args, line, "on")
              /\ Shows(s, line, "off") <=> Reports(o.args, line, "off")
              /\ ~(Reports(o.args, line, "on") /\ Reports(o.args, line, "off"))
            BY <2>1 DEF Answer
        <3>. DEFINE says(state) == \E i \in lines : b[i] = Resp(303, << line.hosts[1] >>, state)
        <3>3. \A state : says(state) <=> Shows(s, line, state)
            BY <1>7, <3>1 DEF Shows, Leads, lines
        <3>4. node_state(b, lines, line.hosts[1]) = IF says("off") THEN "off" ELSE IF says("on") THEN "on" ELSE "unknown"
            BY DEF node_state
        <3>5. Promise!Reported(o, line.hosts[1]) =
                IF Reports(o.args, line, "on") THEN "on" ELSE IF Reports(o.args, line, "off") THEN "off" ELSE "unknown"
            BY DEF Promise!Reported, Reports
        <3>. HIDE DEF says
        <3>. QED  BY <3>2, <3>3, <3>4, <3>5
    <2>4. line.word = "nodes" => node_list(b, lines) = ConfNodes
        BY <1>7, <2>1, NodesAreFound DEF Answer, lines
    <2>. QED  BY <1>1, <1>6, <2>2, <2>3, <2>4 DEF b, Promise!Value, Got, ESUCCESS
<1>. QED  BY <1>5, <1>6 DEF b

(***************************************************************************)
(* What is on its way to the program                                       *)
(***************************************************************************)
Flow == (buf \o down) \o to

(* It is a sequence.                                                       *)
LEMMA FlowIs == ASSUME IsSeq(buf), IsSeq(down), IsSeq(to) PROVE IsSeq(Flow) /\ IsSeq(buf \o down)
<1>1. IsSeq(buf \o down)
    BY Joins
<1>. QED  BY <1>1, Joins DEF Flow

(* It begins with what has been read.                                      *)
LEMMA BeginsWith ==
    ASSUME NEW u, NEW v, IsSeq(u), IsSeq(v)
    PROVE  StartsAs(u, u \o v)
<1>1. Len(u) \in Nat /\ Len(v) \in Nat /\ Len(u \o v) = Len(u) + Len(v) /\ \A i \in 1..Len(u) : (u \o v)[i] = u[i]
    BY Joins
<1>. QED  BY <1>1 DEF StartsAs

(* The beginning of a beginning.                                           *)
LEMMA BeginsToo ==
    ASSUME NEW u, NEW v, NEW w, IsSeq(u), IsSeq(v), IsSeq(w), StartsAs(u, v), StartsAs(v, w)
    PROVE  StartsAs(u, w)
<1>1. Len(u) \in Nat /\ Len(v) \in Nat /\ Len(w) \in Nat
    BY SeqHas
<1>. QED  BY <1>1 DEF StartsAs

(* A sequence begins as it does.                                           *)
LEMMA BeginsAsItself == ASSUME NEW u, IsSeq(u) PROVE StartsAs(u, u)
BY SeqHas DEF StartsAs

(* Two pieces of a sequence.                                               *)
LEMMA Pieces ==
    ASSUME NEW s, IsSeq(s), NEW n \in 1..Len(s)
    PROVE  LET a == SubSeq(s, 1, n)
               r == SubSeq(s, n + 1, Len(s))
           IN  IsSeq(a) /\ IsSeq(r) /\ Len(a) = n /\ a \o r = s
<1>. DEFINE m == Len(s)
            a == SubSeq(s, 1, n)
            r == SubSeq(s, n + 1, m)
            T == ToSet(s)
<1>1. s \in Seq(T) /\ m \in Nat /\ n \in 1..m
    BY SeqHas DEF IsSeq
<1>. HIDE DEF T
<1>2. a \in Seq(T) /\ Len(a) = n /\ \A i \in 1..n : a[i] = s[i]
    BY <1>1
<1>3. r \in Seq(T) /\ Len(r) = m - n /\ \A i \in 1..m - n : r[i] = s[n + i]
    <2>1. r \in Seq(T)
        BY <1>1
    <2>. HIDE DEF m
    <2>2. n + 1 \in 1..m + 1 /\ m - n \in Nat
        BY <1>1
    <2>3. Len(r) = m - n
        BY <1>1, <2>2 DEF m
    <2>4. \A i \in 1..m - n : r[i] = s[n + i]
        BY <1>1, <2>2 DEF m
    <2>. QED  BY <2>1, <2>3, <2>4
<1>4. IsSeq(a) /\ IsSeq(r)
    BY <1>2, <1>3, SeqIs
<1>. HIDE DEF a, r, m
<1>5. /\ IsSeq(a \o r) /\ Len(a \o r) = n + (m - n)
      /\ \A i \in 1..n : (a \o r)[i] = a[i]
      /\ \A j \in 1..m - n : (a \o r)[n + j] = r[j]
    <2>1. /\ IsSeq(a \o r) /\ Len(a \o r) = Len(a) + Len(r)
          /\ \A i \in 1..Len(a) : (a \o r)[i] = a[i]
          /\ \A j \in 1..Len(r) : (a \o r)[Len(a) + j] = r[j]
        BY <1>4, Joins
    <2>. QED  BY <1>2, <1>3, <2>1
<1>6. \A i \in 1..m : (a \o r)[i] = s[i]
    <2>1. ASSUME NEW i \in 1..m
          PROVE  (a \o r)[i] = s[i]
        <3>1. CASE i <= n
            <4>1. i \in 1..n
                BY <1>1, <3>1
            <4>. QED  BY <1>2, <1>5, <4>1
        <3>2. CASE ~(i <= n)
            <4>1. i - n \in 1..m - n /\ n + (i - n) = i
                BY <1>1, <3>2
            <4>. QED  BY <1>3, <1>5, <4>1
        <3>. QED  BY <3>1, <3>2
    <2>. QED  BY <2>1
<1>7. Len(a \o r) = Len(s) /\ \A i \in 1..Len(a \o r) : (a \o r)[i] = s[i]
    BY <1>1, <1>5, <1>6 DEF m
<1>8. a \o r = s
    BY <1>5, <1>7, SameSeq
<1>. QED  BY <1>2, <1>4, <1>8 DEF a, r, m

(* A read moves some of it to what was read.                               *)
LEMMA ReadsPiece ==
    ASSUME NEW x, NEW y, IsSeq(x), IsSeq(y), NEW n \in 1..Len(y)
    PROVE  LET b == x \o SubSeq(y, 1, n)
               r == SubSeq(y, n + 1, Len(y))
           IN  IsSeq(b) /\ IsSeq(r) /\ b # << >> /\ b \o r = x \o y
<1>. DEFINE a == SubSeq(y, 1, n)
            r == SubSeq(y, n + 1, Len(y))
<1>1. IsSeq(a) /\ IsSeq(r) /\ Len(a) = n /\ a \o r = y
    BY Pieces
<1>. HIDE DEF a, r
<1>2. IsSeq(x \o a) /\ Len(x) \in Nat /\ Len(x \o a) = Len(x) + n
    BY <1>1, Joins
<1>3. x \o (a \o r) = (x \o a) \o r
    <2>1. IsSeq(x) /\ IsSeq(a) /\ IsSeq(r)
        BY <1>1
    <2>. QED  BY <2>1, Regroup
<1>4. x \o a # << >>
    BY <1>2, SeqHas
<1>. QED  BY <1>1, <1>2, <1>3, <1>4 DEF a, r

(* What has been read ends with a prompt when all of the response has been *)
(* read, and then nothing is left of it.                                   *)
LEMMA PromptIsLast ==
    ASSUME NEW s, Body(s), NEW b, NEW r, IsSeq(b), IsSeq(r), b # << >>, complete(b),
           StartsAs(b \o r, s \o << Prompt >>)
    PROVE  b = s \o << Prompt >> /\ r = << >>
<1>. DEFINE w == s \o << Prompt >>
            n == Len(s)
            k == Len(b)
<1>1. IsSeq(w) /\ n \in Nat /\ Len(w) = n + 1 /\ w[n + 1] = Prompt /\ \A i \in 1..n : w[i] = s[i]
    BY WithLast DEF Body
<1>2. IsSeq(b \o r) /\ k \in Nat /\ Len(r) \in Nat /\ Len(b \o r) = k + Len(r) /\ \A i \in 1..k : (b \o r)[i] = b[i]
    BY Joins
<1>3. k # 0 /\ b[k] = Prompt
    BY SeqHas DEF complete
<1>4. Len(b \o r) <= Len(w) /\ \A i \in 1..Len(b \o r) : (b \o r)[i] = w[i]
    BY DEF StartsAs
<1>5. \A i \in 1..n : s[i] # Prompt
    BY DEF Body
<1>. HIDE DEF w, n, k
<1>6. k \in 1..k /\ k \in 1..Len(b \o r)
    BY <1>2, <1>3
<1>7. w[k] = Prompt
    BY <1>2, <1>3, <1>4, <1>6
<1>8. k \notin 1..n
    BY <1>1, <1>5, <1>7
<1>9. k = n + 1 /\ Len(r) = 0
    BY <1>1, <1>2, <1>3, <1>4, <1>8
<1>10. \A i \in 1..k : b[i] = w[i]
    BY <1>2, <1>4, <1>9
<1>11. b = w
    BY <1>1, <1>9, <1>10, SameSeq DEF k
<1>12. r = << >>
    BY <1>9, SeqHas
<1>. QED  BY <1>11, <1>12 DEF w

(* Nothing, or only errors of actions.                                     *)
OnlyErrors(s) == \A i \in 1..Len(s) : s[i].code = 308

(* It does not end with a prompt.                                          *)
LEMMA ErrorsGoOn ==
    ASSUME NEW b, NEW r, IsSeq(b), IsSeq(r), b # << >>, OnlyErrors(b \o r)
    PROVE  ~complete(b)
<1>1. Len(b) \in Nat /\ Len(b) # 0 /\ Len(r) \in Nat /\ Len(b \o r) = Len(b) + Len(r)
      /\ \A i \in 1..Len(b) : (b \o r)[i] = b[i]
    BY Joins, SeqHas
<1>2. Len(b) \in 1..Len(b) /\ Len(b) \in 1..Len(b \o r)
    BY <1>1
<1>3. b[Len(b)].code = 308
    BY <1>1, <1>2 DEF OnlyErrors
<1>4. Prompt.code = 0 /\ 308 # 0
    BY DEF Prompt, Resp
<1>. QED  BY <1>3, <1>4, Zenon DEF complete

(* Nothing follows them, or one more.                                      *)
LEMMA ErrorsFollow ==
    ASSUME NEW u, IsSeq(u), OnlyErrors(u), NEW e, e = << >> \/ e = Plain(308)
    PROVE  IsSeq(e) /\ IsSeq(u \o e) /\ OnlyErrors(u \o e)
<1>1. CASE e = << >>
    BY <1>1, JoinsNone, ShortSeqs
<1>2. CASE e = Plain(308)
    <2>. DEFINE p == Resp(308, << >>, "")
    <2>1. p.code = 308
        BY DEF Resp
    <2>2. Plain(308) = << p >>
        BY DEF Plain
    <2>. HIDE DEF p
    <2>. DEFINE b == u \o << p >>
    <2>3. IsSeq(b) /\ Len(u) \in Nat /\ Len(b) = Len(u) + 1 /\ b[Len(u) + 1] = p /\ \A i \in 1..Len(u) : b[i] = u[i]
        BY WithLast
    <2>4. IsSeq(<< p >>)
        BY ShortSeqs
    <2>. HIDE DEF b
    <2>5. OnlyErrors(b)
        <3>1. ASSUME NEW i \in 1..Len(b)
              PROVE  b[i].code = 308
            <4>1. CASE i = Len(u) + 1
                BY <2>1, <2>3, <4>1
            <4>2. CASE i # Len(u) + 1
                <5>1. i \in 1..Len(u)
                    BY <2>3, <4>2
                <5>. QED  BY <2>3, <5>1 DEF OnlyErrors
            <4>. QED  BY <4>1, <4>2
        <3>. QED  BY <3>1 DEF OnlyErrors
    <2>. QED  BY <1>2, <2>2, <2>3, <2>4, <2>5 DEF b
<1>. QED  BY <1>1, <1>2

(***************************************************************************)
(* The inductive invariant of the library                                  *)
(***************************************************************************)
Piped ==
    /\ IsSeq(buf) /\ IsSeq(down) /\ IsSeq(to) /\ IsSeq(served)
    /\ conn = "closed" => to = << >>

(* What is on its way begins as this response and its prompt.              *)
Brings(s) == Body(s) /\ StartsAs(Flow, s \o << Prompt >>)
Ranges == Line("exprange", << >>)

NotCalled == pc = "start" /\ conn = "none" /\ Quiet /\ Flow = << >> /\ toggles = {} /\ calls = 0
Greeting ==
    /\ pc = "hello" /\ conn \in { "connecting", "open", "closed" } /\ Quiet /\ toggles = {} /\ calls = 0
    /\ conn = "connecting" => Flow = << >>
    /\ Brings(<< Version >>)
Negotiates ==
    /\ pc = "exprange" /\ Linked /\ cmd = NoCmd /\ calls = 0
    /\ \/ up = << Ranges >> /\ Flow = << >> /\ toggles = {}
       \/ up = << >> /\ toggles = { "exprange" } /\ Brings(Plain(105))

Ready == Linked /\ toggles = { "exprange" }
Between == pc = "idle" /\ Ready /\ cmd = NoCmd /\ Flow = << >> /\ (conn = "open" => up = << >>)

(* A call: its line is on its way, its actions are under way, the server   *)
(* has gone, it is answered.                                               *)
Calling == pc = "call" /\ Ready /\ ask \in Asks /\ calls # 0 /\ before \in Nat
Unserved == Calling /\ Len(served) = before
Made == Unserved /\ cmd = NoCmd /\ Flow = << >> /\ conn = "open" /\ up = << ask >>
Underway ==
    /\ Unserved /\ conn = "open" /\ up = << >> /\ OnlyErrors(Flow)
    /\ cmd # NoCmd /\ cmd.line = ask /\ ask.word \in DeviceWords /\ cmd.args \in Seq(STRING)
    /\ cmd = [ line |-> cmd.line, args |-> cmd.args, pending |-> cmd.pending, error |-> cmd.error ]
Broken == Unserved /\ conn = "closed" /\ cmd = NoCmd /\ OnlyErrors(Flow)
Came(o) == \E s : Answer(s, ask, o) /\ Brings(s)
Told ==
    /\ Calling /\ Quiet /\ Len(served) = before + 1
    /\ served[before + 1].line = ask /\ Came(served[before + 1])

InCall == Made \/ Underway \/ Broken \/ Told
CallInv ==
    \/ pc \in { "quit", "end" }
    \/ Piped /\ (NotCalled \/ Greeting \/ Negotiates \/ Between \/ InCall)

LibraryInv == interrupts \in Nat /\ calls \in Nat /\ (interrupts = 0 => CallInv)

(* What a step is for the promise.                                         *)
Promised == Promise!Next \/ UNCHANGED Promise!calls_vars

(***************************************************************************)
(* Its steps                                                               *)
(***************************************************************************)

(* What does not touch the call and its outcome.                           *)
LEMMA StaysPromised ==
    ASSUME UNCHANGED << pc, ask, got, calls, before, interrupts >>, UNCHANGED served \/ pc # "call"
    PROVE  Promised
<1>1. came_of' = came_of
    BY DEF came_of
<1>. QED  BY <1>1 DEF Promised, Promise!calls_vars

(* What the program and the daemon know stays, and nothing joins the       *)
(* stream, of which the end may be lost when the connection is.            *)
Narrows ==
    /\ UNCHANGED << pc, ask, calls, before, up, served, toggles >>
    /\ IsSeq(buf') /\ IsSeq(down') /\ IsSeq(to') /\ StartsAs(Flow', Flow)
    /\ conn' = "closed" => to' = << >>
    /\ \/ UNCHANGED << conn, cmd >>
       \/ conn \in { "connecting", "open" } /\ conn' = "closed" /\ cmd' = NoCmd

(* The invariant does not mind.                                            *)
LEMMA NarrowsKeeps ==
    ASSUME CallInv, Narrows
    PROVE  CallInv'
<1>1. CASE pc \in { "quit", "end" }
    BY <1>1 DEF CallInv, Narrows
<1>2. CASE pc \notin { "quit", "end" }
    <2>1. Piped /\ Piped' /\ IsSeq(Flow) /\ IsSeq(Flow') /\ StartsAs(Flow', Flow)
        <3>1. Piped
            BY <1>2 DEF CallInv
        <3>2. Piped'
            BY <3>1 DEF Narrows, Piped
        <3>3. IsSeq(Flow)
            BY <3>1, FlowIs DEF Piped
        <3>4. IsSeq(buf' \o down')
            BY Joins DEF Narrows
        <3>5. IsSeq((buf' \o down') \o to')
            BY <3>4, Joins DEF Narrows
        <3>6. Flow' = (buf' \o down') \o to'
            BY DEF Flow
        <3>. QED  BY <3>1, <3>2, <3>3, <3>5, <3>6 DEF Narrows
    <2>2. /\ Flow = << >> => Flow' = << >>
          /\ OnlyErrors(Flow) => OnlyErrors(Flow')
          /\ \A s : Brings(s) => Brings(s)'
        <3>1. Len(Flow) \in Nat /\ Len(Flow') \in Nat /\ (Len(Flow) = 0 <=> Flow = << >>) /\ (Len(Flow') = 0 <=> Flow' = << >>)
              /\ Len(Flow') <= Len(Flow) /\ \A i \in 1..Len(Flow') : Flow'[i] = Flow[i]
            BY <2>1, SeqHas DEF StartsAs
        <3>2. OnlyErrors(Flow) => OnlyErrors(Flow')
            BY <3>1 DEF OnlyErrors
        <3>3. ASSUME NEW s, Brings(s)
              PROVE  Brings(s)'
            <4>1. Body(s) /\ StartsAs(Flow, s \o << Prompt >>) /\ IsSeq(s \o << Prompt >>)
                BY <3>3, WithLast DEF Brings, Body
            <4>2. StartsAs(Flow', s \o << Prompt >>)
                BY <2>1, <4>1, BeginsToo
            <4>. QED  BY <4>1, <4>2 DEF Brings
        <3>. QED  BY <3>1, <3>2, <3>3
    <2>3. /\ UNCHANGED << pc, ask, calls, before, up, served, toggles >>
          /\ Linked => Linked' /\ (cmd = NoCmd => cmd' = NoCmd)
          /\ conn' = "open" => conn = "open"
          /\ conn' = "connecting" => conn = "connecting"
          /\ conn = "none" => conn' = "none"
          /\ conn = "open" => conn' \in { "open", "closed" }
          /\ conn = "closed" => conn' = "closed"
          /\ conn \in { "connecting", "open", "closed" } => conn' \in { "connecting", "open", "closed" }
          /\ \/ conn' = conn /\ cmd' = cmd
             \/ conn' = "closed" /\ cmd' = NoCmd
        BY DEF Narrows, Linked
    <2>4. (Quiet => Quiet') /\ (Ready => Ready')
        BY <2>3 DEF Quiet, Ready
    <2>5. (Calling => Calling') /\ (Unserved => Unserved')
        BY <2>3, <2>4 DEF Calling, Unserved
    <2>6. NotCalled => NotCalled'
        BY <2>2, <2>3, <2>4 DEF NotCalled
    <2>7. Greeting => Greeting'
        BY <2>2, <2>3, <2>4 DEF Greeting
    <2>8. Negotiates => Negotiates'
        BY <2>2, <2>3 DEF Negotiates
    <2>9. Between => Between'
        BY <2>2, <2>3, <2>4 DEF Between
    <2>10. ASSUME Made
           PROVE  InCall'
        <3>1. Unserved' /\ cmd' = NoCmd /\ Flow' = << >> /\ up' = << ask' >>
            BY <2>2, <2>3, <2>5, <2>10 DEF Made
        <3>2. CASE conn' = "open"
            BY <3>1, <3>2 DEF Made, InCall
        <3>3. CASE conn' = "closed"
            <4>1. OnlyErrors(Flow')
                BY <3>1 DEF OnlyErrors
            <4>. QED  BY <3>1, <3>3, <4>1 DEF Broken, InCall
        <3>. QED  BY <2>3, <2>10, <3>2, <3>3 DEF Made
    <2>11. ASSUME Underway
           PROVE  InCall'
        <3>1. Unserved' /\ OnlyErrors(Flow')
            BY <2>2, <2>5, <2>11 DEF Underway
        <3>2. CASE conn' = conn /\ cmd' = cmd
            BY <2>3, <2>11, <3>1, <3>2 DEF Underway, InCall
        <3>3. CASE conn' = "closed" /\ cmd' = NoCmd
            BY <3>1, <3>3 DEF Broken, InCall
        <3>. QED  BY <2>3, <3>2, <3>3
    <2>12. Broken => InCall'
        BY <2>2, <2>3, <2>5 DEF Broken, InCall
    <2>13. Told => InCall'
        <3>. SUFFICES ASSUME Told PROVE Told'
            BY DEF InCall
        <3>1. Came(served[before + 1]) => Came(served[before + 1])'
            BY <2>2, <2>3 DEF Came
        <3>. QED  BY <2>3, <2>4, <2>5, <3>1 DEF Told
    <2>. QED  BY <1>2, <2>1, <2>6, <2>7, <2>8, <2>9, <2>10, <2>11, <2>12, <2>13 DEF CallInv, InCall
<1>. QED  BY <1>1, <1>2

(* The daemon writes, listens or ends.                                     *)
LEMMA LinkNarrows ==
    ASSUME Piped, UNCHANGED << pc, ask, calls, before, buf >>,
           handle_write \/ listen_client \/ DaemonExits \/ UNCHANGED session_vars
    PROVE  Narrows
<1>1. IsSeq(buf) /\ IsSeq(down) /\ IsSeq(to) /\ IsSeq(Flow) /\ IsSeq(buf \o down) /\ IsSeq(<< >>)
    BY FlowIs, ShortSeqs DEF Piped
<1>2. Flow' = (buf \o down') \o to'
    BY DEF Flow
<1>3. StartsAs(Flow, Flow)
    BY <1>1, BeginsAsItself
<1>4. CASE handle_write
    <2>1. down' = down \o to /\ to' = << >>
        BY <1>4 DEF handle_write
    <2>2. buf \o (down \o to) = (buf \o down) \o to /\ IsSeq(down \o to)
        BY <1>1, Regroup, Joins
    <2>3. Flow' = Flow \o << >>
        BY <1>2, <2>1, <2>2 DEF Flow
    <2>4. Flow' = Flow
        BY <1>1, <2>3, JoinsNone
    <2>. QED  BY <1>1, <1>3, <1>4, <2>1, <2>2, <2>4 DEF Narrows, handle_write
<1>5. CASE listen_client
    <2>1. UNCHANGED << down, to, up, served, conn, cmd, toggles, Flow >>
        BY <1>5 DEF listen_client, Flow
    <2>. QED  BY <1>1, <1>3, <2>1 DEF Narrows, Piped
<1>6. CASE DaemonExits
    <2>1. UNCHANGED << down, up, served, toggles >> /\ to' = << >> /\ cmd' = NoCmd
          /\ conn \in { "connecting", "open" } /\ conn' = "closed"
        BY <1>6 DEF DaemonExits, Ended
    <2>2. Flow' = buf \o down
        <3>1. Flow' = (buf \o down) \o << >>
            BY <1>2, <2>1
        <3>. QED  BY <1>1, <3>1, JoinsNone
    <2>3. StartsAs(buf \o down, Flow)
        BY <1>1, BeginsWith DEF Flow
    <2>. QED  BY <1>1, <2>1, <2>2, <2>3 DEF Narrows
<1>7. CASE UNCHANGED session_vars
    <2>1. UNCHANGED << down, to, up, served, conn, cmd, toggles, Flow >>
        BY <1>7 DEF session_vars, Flow
    <2>. QED  BY <1>1, <1>3, <2>1 DEF Narrows, Piped
<1>. QED  BY <1>4, <1>5, <1>6, <1>7

(* Before there is a call and after the last, nothing is promised.         *)
LEMMA NoneIsPromised ==
    ASSUME UNCHANGED << calls, interrupts >>, pc # "call", pc' # "call", calls = 0 \/ UNCHANGED got
    PROVE  Promised
<1>1. came_of' = << >> /\ came_of = << >>
    BY DEF came_of
<1>. QED  BY <1>1 DEF Promised, Promise!calls_vars

(* A call that fails on the way.                                           *)
LEMMA BreaksOff ==
    ASSUME interrupts = 0, pc' # "call", calls' # 0, NEW e \in { ERRNOVALID, ECONNECT, ESERVEREOF },
           got' = Got(e, "", << >>)
    PROVE  Promised
<1>. DEFINE g == Got(e, "", << >>)
<1>1. came_of' = << >>
    BY DEF came_of
<1>2. g.err = e
    BY DEF Got
<1>. HIDE DEF g
<1>3. Len(<< g >>) = 1 /\ << g >>[1] = g
    BY ShortSeqs
<1>4. got' = g
    BY DEF g
<1>5. Promise!Breaks
    BY <1>1, <1>2, <1>3, <1>4 DEF Promise!Breaks
<1>. QED  BY <1>5 DEF Promised, Promise!Next

(* Two elements.                                                           *)
LEMMA PairIs ==
    ASSUME NEW x, NEW y
    PROVE  IsSeq(<< x, y >>) /\ << x >> \o << y >> = << x, y >>
<1>. DEFINE s == << x >>
            t == << x, y >>
            u == s \o << y >>
<1>1. t \in Seq({ x, y }) /\ Len(t) = 2 /\ t[1] = x /\ t[2] = y
    OBVIOUS
<1>2. IsSeq(s) /\ Len(s) = 1 /\ s[1] = x
    BY ShortSeqs
<1>. HIDE DEF s, t
<1>3. IsSeq(u) /\ Len(u) = Len(s) + 1 /\ u[Len(s) + 1] = y /\ \A i \in 1..Len(s) : u[i] = s[i]
    BY <1>2, WithLast
<1>. HIDE DEF u
<1>4. Len(u) = 2 /\ u[2] = y /\ u[1] = x
    <2>1. 1 \in 1..Len(s) /\ Len(s) + 1 = 2
        BY <1>2
    <2>. QED  BY <1>2, <1>3, <2>1
<1>5. IsSeq(t)
    BY <1>1, SeqIs
<1>6. \A i \in 1..Len(u) : u[i] = t[i]
    <2>1. \A i \in 1..Len(u) : i = 1 \/ i = 2
        BY <1>4
    <2>. QED  BY <1>1, <1>4, <2>1
<1>7. u = t
    BY <1>1, <1>3, <1>4, <1>5, <1>6, SameSeq
<1>. QED  BY <1>5, <1>7 DEF s, t, u

(* The connection is accepted, or not.                                     *)
LEMMA AcceptKeeps ==
    ASSUME CallInv, create_client, UNCHANGED lib_vars
    PROVE  CallInv'
<1>1. CASE pc \in { "quit", "end" }
    BY <1>1 DEF CallInv, lib_vars
<1>2. CASE pc \notin { "quit", "end" }
    <2>1. Greeting /\ Piped /\ conn = "connecting"
        BY <1>2 DEF CallInv, create_client, NotCalled, Negotiates, Between, InCall, Made, Underway, Broken, Told,
               Calling, Unserved, Ready, Linked
    <2>2. UNCHANGED << pc, ask, calls, before, buf, down, up, cmd, served, toggles >>
        BY <2>1 DEF create_client, lib_vars, Greeting
    <2>3. IsSeq(buf) /\ IsSeq(down) /\ IsSeq(to) /\ IsSeq(buf \o down) /\ IsSeq(Flow) /\ Flow = << >>
        BY <2>1, FlowIs DEF Piped, Greeting
    <2>4. CASE conn' = "closed" /\ UNCHANGED to
        <3>1. Flow' = Flow
            BY <2>2, <2>4 DEF Flow
        <3>2. to = << >>
            <4>1. Len(Flow) = Len(buf \o down) + Len(to) /\ Len(Flow) = 0 /\ Len(to) \in Nat /\ Len(buf \o down) \in Nat
                BY <2>3, Joins, ShortSeqs DEF Flow
            <4>2. Len(to) = 0
                BY <4>1
            <4>. QED  BY <2>3, <4>2, SeqHas
        <3>3. StartsAs(Flow, Flow)
            BY <2>3, BeginsAsItself
        <3>4. Narrows
            BY <2>1, <2>2, <2>3, <2>4, <3>1, <3>2, <3>3 DEF Narrows, Greeting, Quiet
        <3>. QED  BY <3>4, NarrowsKeeps
    <2>5. CASE conn' = "open" /\ to' = << Version, Prompt >>
        <3>. DEFINE g == << Version, Prompt >>
        <3>1. IsSeq(<< Version >>) /\ Len(<< Version >>) = 1 /\ << Version >>[1] = Version
            BY ShortSeqs
        <3>2. Version # Prompt
            <4>1. Version.code = 1 /\ Prompt.code = 0
                BY DEF Version, Prompt, Resp
            <4>. QED  BY <4>1
        <3>3. Body(<< Version >>)
            BY <3>1, <3>2 DEF Body
        <3>4. << Version >> \o << Prompt >> = g
            BY PairIs
        <3>5. IsSeq(g)
            BY PairIs
        <3>. HIDE DEF g
        <3>6. Len(buf \o down) = 0 /\ to = << >>
            <4>1. Len(Flow) = Len(buf \o down) + Len(to) /\ Len(Flow) = 0 /\ Len(to) \in Nat /\ Len(buf \o down) \in Nat
                BY <2>3, Joins, ShortSeqs DEF Flow
            <4>2. Len(to) = 0 /\ Len(buf \o down) = 0
                BY <4>1
            <4>. QED  BY <2>3, <4>2, SeqHas
        <3>7. Flow' = g
            <4>1. buf \o down = << >>
                BY <2>3, <3>6, SeqHas
            <4>2. Flow' = << >> \o g
                BY <2>2, <2>5, <4>1 DEF Flow, g
            <4>. QED  BY <3>5, <4>2, JoinsNone
        <3>8. StartsAs(g, g)
            BY <3>5, BeginsAsItself
        <3>9. Brings(<< Version >>)'
            BY <3>3, <3>4, <3>7, <3>8 DEF Brings
        <3>10. Greeting'
            BY <2>1, <2>2, <2>5, <3>9 DEF Greeting, Quiet
        <3>11. Piped'
            BY <2>1, <2>2, <2>3, <2>5, <3>5 DEF Piped, g
        <3>. QED  BY <3>10, <3>11 DEF CallInv
    <2>. QED  BY <2>4, <2>5 DEF create_client
<1>. QED  BY <1>1, <1>2

(* When nothing is on its way, nothing is anywhere.                        *)
LEMMA NothingFlows ==
    ASSUME Piped, Flow = << >>
    PROVE  buf = << >> /\ down = << >> /\ to = << >>
<1>1. IsSeq(buf) /\ IsSeq(down) /\ IsSeq(to) /\ IsSeq(buf \o down)
    BY FlowIs DEF Piped
<1>2. /\ Len(Flow) = Len(buf \o down) + Len(to) /\ Len(buf \o down) = Len(buf) + Len(down)
      /\ Len(buf) \in Nat /\ Len(down) \in Nat /\ Len(to) \in Nat /\ Len(Flow) = 0
    BY <1>1, Joins, ShortSeqs DEF Flow
<1>3. Len(buf) = 0 /\ Len(down) = 0 /\ Len(to) = 0
    BY <1>2
<1>. QED  BY <1>1, <1>3, SeqHas

(* A call is made, or cannot be.                                           *)
LEMMA CallKeeps ==
    ASSUME CallInv, interrupts = 0, calls \in Nat, NEW line \in Asks, pm_call(line)
    PROVE  CallInv' /\ Promised
<1>1. Between /\ Piped
    BY DEF CallInv, pm_call, NotCalled, Greeting, Negotiates, InCall, Made, Underway, Broken, Told, Calling, Unserved
<1>2. buf = << >> /\ down = << >> /\ to = << >>
    BY <1>1, NothingFlows DEF Between
<1>3. /\ UNCHANGED << listen_fds, conn, to, down, toggles, cmd, told, served, interrupts >>
      /\ buf' = << >> /\ before' = Len(served) /\ calls' = calls + 1
    BY DEF pm_call
<1>4. Flow' = Flow /\ Flow = << >> /\ Piped' /\ calls' # 0
    BY <1>1, <1>2, <1>3 DEF Flow, Piped, Between
<1>5. CASE up' = Append(up, line) /\ pc' = "call" /\ ask' = line
    <2>0. before' \in Nat
        BY <1>1, <1>3, SeqHas DEF Piped
    <2>1. Calling' /\ Unserved' /\ cmd' = NoCmd
        BY <1>1, <1>3, <1>4, <1>5, <2>0 DEF Between, Ready, Linked, Calling, Unserved
    <2>4. CallInv'
        <3>1. CASE conn = "open"
            <4>1. up' = << line >>
                BY <1>1, <1>5, <3>1 DEF Between
            <4>2. Made'
                BY <1>3, <1>4, <1>5, <2>1, <3>1, <4>1 DEF Made
            <4>. QED  BY <1>4, <4>2 DEF InCall, CallInv
        <3>2. CASE conn = "closed"
            <4>1. OnlyErrors(Flow')
                BY <1>4, ShortSeqs DEF OnlyErrors
            <4>2. Broken'
                BY <1>3, <2>1, <3>2, <4>1 DEF Broken
            <4>. QED  BY <1>4, <4>2 DEF InCall, CallInv
        <3>. QED  BY <1>1, <3>1, <3>2 DEF Between, Ready, Linked
    <2>5. Len(served) \in Nat
        BY <1>1, SeqHas DEF Piped
    <2>6. came_of' = << >>
        <3>1. served \in Seq(ToSet(served))
            BY <1>1 DEF Piped, IsSeq
        <3>2. came_of' = SubSeq(served, Len(served) + 1, Len(served))
            BY <1>3, <1>5 DEF came_of
        <3>. QED  BY <3>1, <3>2
    <2>7. Promise!Call(line)
        BY <1>1, <1>3, <1>5, <2>6 DEF Promise!Call, Between
    <2>. QED  BY <2>4, <2>7 DEF Promised, Promise!Next
<1>6. CASE conn = "closed" /\ got' = Got(ERRNOVALID, "", << >>) /\ UNCHANGED << up, pc, ask >>
    <2>1. Between'
        BY <1>1, <1>3, <1>4, <1>6 DEF Between, Ready, Linked
    <2>2. pc' # "call"
        BY <1>1, <1>6 DEF Between
    <2>3. Promised
        BY <1>4, <1>6, <2>2, BreaksOff
    <2>. QED  BY <1>4, <2>1, <2>3 DEF CallInv
<1>. QED  BY <1>5, <1>6 DEF pm_call

(* The program connects.                                                   *)
LEMMA ConnectKeeps ==
    ASSUME CallInv, pm_connect
    PROVE  CallInv' /\ Promised
<1>1. NotCalled /\ Piped
    BY DEF CallInv, pm_connect, Between, Greeting, Negotiates, InCall, Made, Underway, Broken, Told, Calling, Unserved
<1>2. UNCHANGED << buf, ask, calls, interrupts, before >>
    BY DEF pm_connect
<1>3. CASE pc' = "end" /\ UNCHANGED session_vars
    <2>1. Promised
        BY <1>1, <1>2, <1>3, NoneIsPromised DEF NotCalled
    <2>. QED  BY <1>3, <2>1 DEF CallInv
<1>4. CASE pc' = "hello" /\ Connects
    <2>1. UNCHANGED << up, to, down, toggles, cmd, told, served >> /\ conn' = "connecting"
        BY <1>4 DEF Connects
    <2>2. Flow' = << >>
        BY <1>1, <1>2, <2>1 DEF NotCalled, Flow
    <2>3. IsSeq(<< Version >>) /\ Len(<< Version >>) = 1 /\ << Version >>[1] = Version
        BY ShortSeqs
    <2>4. Version # Prompt
        <3>1. Version.code = 1 /\ Prompt.code = 0
            BY DEF Version, Prompt, Resp
        <3>. QED  BY <3>1
    <2>5. Body(<< Version >>) /\ Len(<< Version >> \o << Prompt >>) = 1 + 1
        BY <2>3, <2>4, WithLast DEF Body
    <2>6. StartsAs(<< >>, << Version >> \o << Prompt >>)
        BY <2>5, ShortSeqs DEF StartsAs
    <2>7. Brings(<< Version >>)'
        BY <2>2, <2>5, <2>6 DEF Brings
    <2>8. Greeting' /\ Piped'
        BY <1>1, <1>2, <1>4, <2>1, <2>2, <2>7 DEF Greeting, Piped, NotCalled, Quiet
    <2>9. Promised
        BY <1>1, <1>2, <1>4, NoneIsPromised DEF NotCalled
    <2>. QED  BY <2>8, <2>9 DEF CallInv
<1>. QED  BY <1>3, <1>4 DEF pm_connect

(* The program disconnects.                                                *)
LEMMA DisconnectKeeps ==
    ASSUME pm_disconnect
    PROVE  CallInv' /\ Promised
BY NoneIsPromised DEF pm_disconnect, CallInv

(* A step of the daemon when the program has nothing more to ask.          *)
LEMMA LeftStays ==
    ASSUME pc \in { "quit", "end" }, UNCHANGED lib_vars
    PROVE  CallInv' /\ Promised
BY NoneIsPromised DEF lib_vars, CallInv

(* The last is what was added.                                             *)
LEMMA TheLast ==
    ASSUME NEW s, IsSeq(s), NEW n \in Nat
    PROVE  /\ Len(s) = n + 1 => LET a == SubSeq(s, n + 1, Len(s)) IN Len(a) = 1 /\ a[1] = s[n + 1]
           /\ Len(s) = n => SubSeq(s, n + 1, Len(s)) = << >>
<1>. DEFINE T == ToSet(s)
<1>1. s \in Seq(T)
    BY DEF IsSeq
<1>. HIDE DEF T
<1>2. ASSUME Len(s) = n
      PROVE  SubSeq(s, n + 1, Len(s)) = << >>
    BY <1>1, <1>2
<1>3. ASSUME Len(s) = n + 1
      PROVE  LET a == SubSeq(s, n + 1, Len(s)) IN Len(a) = 1 /\ a[1] = s[n + 1]
    BY <1>1, <1>3
<1>. QED  BY <1>2, <1>3

(* The program reads a piece of the stream.                                *)
LEMMA RecvKeeps ==
    ASSUME CallInv, interrupts = 0, recv
    PROVE  CallInv' /\ Promised
<1>1. CASE pc \in { "quit", "end" }
    <2>1. pc = "quit" /\ UNCHANGED << calls, interrupts >>
        BY <1>1 DEF recv, Reading
    <2>2. pc' \in { "quit", "end" } /\ UNCHANGED got
        BY <2>1 DEF recv, Ends
    <2>. QED  BY <2>1, <2>2, NoneIsPromised DEF CallInv
<1>2. CASE pc \notin { "quit", "end" }
    <2>1. Piped /\ (Greeting \/ Negotiates \/ InCall)
        BY <1>2 DEF CallInv, recv, Reading, NotCalled, Between
    <2>2. PICK n \in 1..Len(down) :
             LET b == buf \o SubSeq(down, 1, n)
             IN  /\ down' = SubSeq(down, n + 1, Len(down))
                 /\ IF complete(b)
                    THEN Ends(returned(ask, b)) /\ buf' = << >>
                    ELSE buf' = b /\ UNCHANGED << pc, ask, got, up >>
        BY DEF recv
    <2>. DEFINE b == buf \o SubSeq(down, 1, n)
                r == SubSeq(down, n + 1, Len(down))
                q == r \o to
    <2>3. UNCHANGED << listen_fds, conn, to, toggles, cmd, told, served, calls, interrupts, before >> /\ down # << >>
        BY DEF recv
    <2>4. IsSeq(buf) /\ IsSeq(down) /\ IsSeq(to) /\ IsSeq(Flow) /\ IsSeq(b) /\ IsSeq(r) /\ b # << >>
          /\ b \o r = buf \o down
        BY <2>1, ReadsPiece, FlowIs DEF Piped
    <2>5. /\ down' = r
          /\ complete(b) => Ends(returned(ask, b)) /\ buf' = << >>
          /\ ~complete(b) => buf' = b /\ UNCHANGED << pc, ask, got, up >>
        BY <2>2
    <2>. HIDE DEF b, r
    <2>6. Flow = (b \o r) \o to
        BY <2>4 DEF Flow
    <2>7. Flow # << >>
        BY <2>1, <2>3, NothingFlows
    <2>8. IsSeq(q) /\ Flow = b \o q
        <3>1. b \o (r \o to) = (b \o r) \o to
            <4>1. IsSeq(b) /\ IsSeq(r) /\ IsSeq(to)
                BY <2>4
            <4>. QED  BY <4>1, Regroup
        <3>2. IsSeq(r \o to)
            BY <2>4, Joins
        <3>. QED  BY <2>6, <3>1, <3>2
    <2>9. q = << >> => r = << >> /\ to = << >>
        <3>1. Len(q) = Len(r) + Len(to) /\ Len(r) \in Nat /\ Len(to) \in Nat
            BY <2>4, Joins
        <3>2. q = << >> => Len(q) = 0
            BY ShortSeqs
        <3>. HIDE DEF q
        <3>3. q = << >> => Len(r) = 0 /\ Len(to) = 0
            BY <3>1, <3>2
        <3>. QED  BY <2>4, <3>3, SeqHas
    <2>. HIDE DEF q
    <2>10. CASE ~complete(b)
        <3>1. Flow' = Flow
            BY <2>3, <2>5, <2>6, <2>10 DEF Flow
        <3>2. StartsAs(Flow, Flow)
            BY <2>4, BeginsAsItself
        <3>3. Narrows
            BY <2>1, <2>3, <2>4, <2>5, <2>10, <3>1, <3>2 DEF Narrows, Piped
        <3>4. Promised
            BY <2>3, <2>5, <2>10, StaysPromised
        <3>. QED  BY <3>3, <3>4, NarrowsKeeps
    <2>11. CASE complete(b)
        <3>1. Ends(returned(ask, b)) /\ buf' = << >>
            BY <2>5, <2>11
        <3>2. ASSUME NEW s, Brings(s)
              PROVE  b = s \o << Prompt >> /\ r = << >> /\ to = << >>
            <4>1. Body(s) /\ StartsAs(b \o q, s \o << Prompt >>)
                BY <2>8, <3>2 DEF Brings
            <4>2. b = s \o << Prompt >> /\ q = << >>
                BY <2>4, <2>8, <2>11, <4>1, PromptIsLast
            <4>. QED  BY <2>9, <4>2
        <3>3. (\E s : Brings(s)) => Flow' = << >> /\ Piped'
            <4>. SUFFICES ASSUME NEW s, Brings(s) PROVE Flow' = << >> /\ Piped'
                OBVIOUS
            <4>1. buf' = << >> /\ down' = << >> /\ to' = << >>
                BY <2>3, <2>5, <3>1, <3>2
            <4>2. IsSeq(<< >>) /\ << >> \o << >> = << >>
                BY ShortSeqs, JoinsNone
            <4>3. Flow' = (buf' \o down') \o to'
                BY DEF Flow
            <4>. QED  BY <2>1, <2>3, <4>1, <4>2, <4>3 DEF Piped
        <3>4. CASE Greeting
            <4>1. Flow' = << >> /\ Piped'
                BY <3>3, <3>4 DEF Greeting
            <4>2. pc' = "end" \/ (pc' = "exprange" /\ up' = Append(up, Ranges))
                BY <3>1, <3>4 DEF Ends, Greeting, Ranges
            <4>3. Promised
                BY <2>3, <3>4, <4>2, NoneIsPromised DEF Greeting
            <4>4. CASE pc' = "end"
                BY <4>3, <4>4 DEF CallInv
            <4>5. CASE pc' = "exprange" /\ up' = Append(up, Ranges)
                <5>1. up' = << Ranges >>
                    BY <3>4, <4>5 DEF Greeting, Quiet
                <5>2. Negotiates'
                    BY <2>3, <2>7, <3>4, <4>1, <4>5, <5>1 DEF Greeting, Quiet, Negotiates, Linked
                <5>. QED  BY <4>1, <4>3, <5>2 DEF CallInv
            <4>. QED  BY <4>2, <4>4, <4>5
        <3>5. CASE Negotiates
            <4>1. Brings(Plain(105)) /\ up = << >> /\ toggles = { "exprange" }
                BY <2>7, <3>5 DEF Negotiates
            <4>2. Flow' = << >> /\ Piped'
                BY <3>3, <4>1
            <4>3. pc' = "end" \/ (pc' = "idle" /\ UNCHANGED up)
                BY <3>1, <3>5 DEF Ends, Negotiates
            <4>4. Promised
                BY <2>3, <3>5, <4>3, NoneIsPromised DEF Negotiates
            <4>5. CASE pc' = "end"
                BY <4>4, <4>5 DEF CallInv
            <4>6. CASE pc' = "idle" /\ UNCHANGED up
                <5>1. Between'
                    BY <2>3, <3>5, <4>1, <4>2, <4>6 DEF Between, Ready, Negotiates, Linked
                <5>. QED  BY <4>2, <4>4, <5>1 DEF CallInv
            <4>. QED  BY <4>3, <4>5, <4>6
        <3>6. CASE InCall
            <4>1. Told
                <5>1. ~OnlyErrors(Flow)
                    BY <2>4, <2>8, <2>11, ErrorsGoOn
                <5>. QED  BY <2>7, <3>6, <5>1 DEF InCall, Made, Underway, Broken
            <4>. DEFINE o == served[before + 1]
            <4>2. PICK s : Answer(s, ask, o) /\ Brings(s)
                BY <4>1 DEF Told, Came
            <4>3. Flow' = << >> /\ Piped' /\ b = s \o << Prompt >>
                BY <3>2, <3>3, <4>2
            <4>4. ask \in Asks /\ pc = "call" /\ calls # 0 /\ Len(served) = before + 1 /\ Ready /\ Quiet
                BY <4>1 DEF Told, Calling
            <4>5. returned(ask, b) = Promise!Value(ask, o)
                BY <4>2, <4>3, <4>4, ReturnsValue
            <4>6. pc' = "idle" /\ got' = Promise!Value(ask, o) /\ UNCHANGED up
                BY <3>1, <4>4, <4>5 DEF Ends
            <4>7. Between'
                BY <2>3, <4>3, <4>4, <4>6 DEF Between, Ready, Linked, Quiet
            <4>8. Len(came_of) = 1 /\ came_of[1] = o
                <5>1. IsSeq(served) /\ before \in Nat
                    BY <2>1, <4>1 DEF Piped, Told, Calling
                <5>. QED  BY <4>4, <5>1, TheLast DEF came_of
            <4>9. came_of # << >> /\ << ask >> # << >> /\ << ask >>[1] = ask
                <5>1. Len(<< >>) # 1 /\ Len(<< ask >>) = 1 /\ << ask >>[1] = ask
                    BY ShortSeqs
                <5>. QED  BY <4>8, <5>1
            <4>10. came_of' = << >> /\ calls' # 0
                BY <2>3, <4>4, <4>6 DEF came_of
            <4>. HIDE DEF o
            <4>11. Promise!Returns
                BY <2>3, <4>4, <4>6, <4>8, <4>9, <4>10 DEF Promise!Returns
            <4>. QED  BY <4>3, <4>7, <4>11 DEF CallInv, Promised, Promise!Next
        <3>. QED  BY <2>1, <3>4, <3>5, <3>6
    <2>. QED  BY <2>10, <2>11
<1>. QED  BY <1>1, <1>2

(* The end of the connection ends the call.                                *)
LEMMA EofKeeps ==
    ASSUME CallInv, interrupts = 0, recv_eof
    PROVE  CallInv' /\ Promised
<1>1. /\ UNCHANGED << listen_fds, conn, to, down, toggles, cmd, told, served, calls, interrupts, before >>
      /\ Reading /\ conn = "closed" /\ down = << >> /\ buf' = << >> /\ Ends(Got(ESERVEREOF, "", << >>))
    BY DEF recv_eof
<1>2. Got(ESERVEREOF, "", << >>).err # ESUCCESS
    BY DEF Got, ESERVEREOF, ESUCCESS
<1>3. CASE pc \in { "quit", "end" }
    <2>1. pc = "quit"
        BY <1>1, <1>3 DEF Reading
    <2>2. pc' \in { "quit", "end" } /\ UNCHANGED got
        BY <1>1, <2>1 DEF Ends
    <2>. QED  BY <1>1, <2>1, <2>2, NoneIsPromised DEF CallInv
<1>4. CASE pc \notin { "quit", "end" }
    <2>1. Piped /\ (Greeting \/ Negotiates \/ InCall)
        BY <1>1, <1>4 DEF CallInv, Reading, NotCalled, Between
    <2>2. Flow' = << >> /\ Piped'
        <3>1. buf' = << >> /\ down' = << >> /\ to' = << >>
            BY <1>1, <2>1 DEF Piped
        <3>2. IsSeq(<< >>) /\ << >> \o << >> = << >>
            BY ShortSeqs, JoinsNone
        <3>3. Flow' = (buf' \o down') \o to'
            BY DEF Flow
        <3>. QED  BY <1>1, <2>1, <3>1, <3>2, <3>3 DEF Piped
    <2>3. CASE Greeting \/ Negotiates
        <3>1. pc \in { "hello", "exprange" } /\ calls = 0
            BY <2>3 DEF Greeting, Negotiates
        <3>2. pc' = "end"
            BY <1>1, <1>2, <3>1 DEF Ends
        <3>. QED  BY <1>1, <3>1, <3>2, NoneIsPromised DEF CallInv
    <2>4. CASE InCall
        <3>1. pc = "call" /\ calls # 0 /\ Ready /\ cmd = NoCmd
            BY <1>1, <2>4 DEF InCall, Made, Underway, Broken, Told, Unserved, Calling, Quiet
        <3>2. pc' = "idle" /\ got' = Got(ESERVEREOF, "", << >>)
            BY <1>1, <3>1 DEF Ends
        <3>3. Between'
            BY <1>1, <2>2, <3>1, <3>2 DEF Between, Ready, Linked
        <3>4. Promised
            BY <1>1, <3>1, <3>2, BreaksOff
        <3>. QED  BY <2>2, <3>3, <3>4 DEF CallInv
    <2>. QED  BY <2>1, <2>3, <2>4
<1>. QED  BY <1>3, <1>4

(* The line of the call is answered.                                       *)
LEMMA CallIsTold ==
    ASSUME Piped, Unserved, interrupts = 0, conn = "open", UNCHANGED << lib_vars, conn, toggles >>,
           up' = << >>, cmd' = NoCmd, IsSeq(down'), IsSeq(to'),
           NEW s, Flow' = s \o << Prompt >>,
           NEW o, o.line = ask, Answer(s, ask, o), served' = Append(served, o)
    PROVE  CallInv' /\ Promised
<1>1. IsSeq(served) /\ before \in Nat /\ Len(served) = before /\ pc = "call"
    BY DEF Piped, Unserved, Calling
<1>2. IsSeq(served') /\ Len(served') = before + 1 /\ served'[before + 1] = o
    BY <1>1, Lengthens
<1>3. UNCHANGED << pc, buf, ask, got, calls, interrupts, before >>
    BY DEF lib_vars
<1>4. Body(s) /\ IsSeq(s \o << Prompt >>)
    <2>1. Body(s) /\ IsSeq(s)
        BY AnswerIsBody DEF Answer
    <2>. QED  BY <2>1, WithLast
<1>5. StartsAs(s \o << Prompt >>, s \o << Prompt >>)
    BY <1>4, BeginsAsItself
<1>6. Brings(s)'
    BY <1>4, <1>5 DEF Brings
<1>7. Calling'
    BY <1>3 DEF Unserved, Calling, Ready, Linked
<1>8. Came(o)'
    <2>1. Answer(s, ask', o)
        BY <1>3
    <2>2. (\E t : Answer(t, ask, o) /\ Brings(t))'
        BY <1>6, <2>1
    <2>. QED  BY <2>2 DEF Came
<1>9. Told'
    BY <1>2, <1>3, <1>7, <1>8 DEF Told, Quiet
<1>10. Piped'
    BY <1>2, <1>3 DEF Piped
<1>11. came_of = << >> /\ Len(came_of') = 1 /\ came_of'[1] = o
    <2>1. came_of = << >>
        BY <1>1, TheLast DEF came_of
    <2>2. came_of' = SubSeq(served', before + 1, Len(served'))
        BY <1>1, <1>3 DEF came_of
    <2>3. Len(SubSeq(served', before + 1, Len(served'))) = 1 /\ SubSeq(served', before + 1, Len(served'))[1] = o
        BY <1>1, <1>2, TheLast
    <2>. QED  BY <2>1, <2>2, <2>3
<1>12. << ask >> # << >> /\ << ask >>[1] = ask
    BY ShortSeqs
<1>13. Promise!CarryOut
    BY <1>1, <1>3, <1>11, <1>12 DEF Promise!CarryOut
<1>. QED  BY <1>9, <1>10, <1>13 DEF CallInv, InCall, Promised, Promise!Next

(* What the daemon says at once to a line, when nothing was on its way.    *)
LEMMA SaysAtOnce ==
    ASSUME Piped, Flow = << >>, UNCHANGED << buf, down >>, NEW s, IsSeq(s), to' = (to \o s) \o << Prompt >>
    PROVE  Flow' = s \o << Prompt >> /\ IsSeq(down') /\ IsSeq(to')
<1>1. buf = << >> /\ down = << >> /\ to = << >>
    BY NothingFlows
<1>2. IsSeq(s \o << Prompt >>)
    BY WithLast
<1>3. to' = s \o << Prompt >>
    BY <1>1, JoinsNone
<1>4. << >> \o << >> = << >>
    BY ShortSeqs, JoinsNone
<1>5. Flow' = << >> \o to'
    BY <1>1, <1>4 DEF Flow
<1>. QED  BY <1>1, <1>2, <1>3, <1>5, JoinsNone DEF Piped

(* A code alone is an answer, when it is an error.                         *)
LEMMA ErrorAnswers ==
    ASSUME NEW r, NEW line, NEW o, o.code \in 200..299, r.code = o.code
    PROVE  IsSeq(<< r >>) /\ Answer(<< r >>, line, o)
<1>. DEFINE s == << r >>
<1>1. IsSeq(s) /\ Len(s) = 0 + 1 /\ s[0 + 1] = r
    BY ShortSeqs
<1>. HIDE DEF s
<1>2. \A i \in 1..0 : s[i].code \in Int /\ s[i].code > 299
    OBVIOUS
<1>3. 0 \in Nat /\ o.code \in 100..299 /\ ~(o.code < 200)
    OBVIOUS
<1>4. ClosesWith(s, o.code)
    BY <1>1, <1>2, <1>3 DEF ClosesWith
<1>5. Answer(s, line, o)
    BY <1>1, <1>3, <1>4 DEF Answer
<1>. QED  BY <1>1, <1>5 DEF s

(* The list of the nodes.                                                  *)
LEMMA NamesAre ==
    LET u == names(ConfNodes)
        n == Len(ConfNodes)
    IN  n \in Nat /\ IsSeq(u) /\ Len(u) = n /\ \A i \in 1..n : u[i].code = 307
<1>. DEFINE n == Len(ConfNodes)
            u == names(ConfNodes)
<1>1. ConfNodes \in Seq(STRING) /\ n \in Nat /\ DOMAIN ConfNodes = 1..n
    BY SessionAssumption
<1>2. u = [ i \in 1..n |-> u[i] ] /\ \A i \in 1..n : u[i].code = 307
    BY <1>1 DEF names, Resp
<1>. HIDE DEF u, n
<1>3. IsSeq(u) /\ Len(u) = n
    BY <1>1, <1>2, ListIs
<1>. QED  BY <1>1, <1>2, <1>3 DEF u, n

(* It is the answer that is asked for.                                     *)
LEMMA NodesAnswer ==
    ASSUME NEW line, line.word = "nodes", NEW o, o.code = 103
    PROVE  LET s == names(ConfNodes) \o Plain(103) IN IsSeq(s) /\ Answer(s, line, o) /\ s[Len(s)].code = 103
<1>. DEFINE n == Len(ConfNodes)
            u == names(ConfNodes)
            p == Resp(103, << >>, "")
            s == u \o << p >>
<1>1. n \in Nat
    BY NamesAre
<1>2. \A i \in 1..n : u[i].code = 307
    BY NamesAre
<1>3. p.code = 103
    BY DEF Resp
<1>4. names(ConfNodes) \o Plain(103) = s
    BY DEF Plain
<1>5. IsSeq(u) /\ Len(u) = n
    BY NamesAre
<1>. HIDE DEF n, u, p
<1>6. IsSeq(s) /\ Len(s) = n + 1 /\ s[n + 1] = p /\ \A i \in 1..n : s[i] = u[i]
    <2>1. /\ IsSeq(s) /\ Len(s) = Len(u) + 1 /\ s[Len(u) + 1] = p
          /\ \A i \in 1..Len(u) : s[i] = u[i]
        <3>1. IsSeq(u)
            BY <1>5
        <3>. QED  BY <3>1, WithLast
    <2>. HIDE DEF s
    <2>. QED  BY <1>5, <2>1
<1>. HIDE DEF s
<1>7. ClosesWith(s, 103)
    <2>1. \A i \in 1..n : s[i].code \in Int /\ s[i].code > 299
        BY <1>2, <1>6
    <2>. QED  BY <1>1, <1>3, <1>6, <2>1 DEF ClosesWith
<1>8. o.code \in 100..299
    OBVIOUS
<1>9. Answer(s, line, o)
    BY <1>4, <1>6, <1>7, <1>8 DEF Answer
<1>10. s[Len(s)].code = 103
    BY <1>3, <1>6
<1>. QED  BY <1>4, <1>6, <1>9, <1>10

(* The calls of the library, and what their lines are to the daemon.       *)
LEMMA AskIs ==
    ASSUME NEW c \in Asks
    PROVE  \/ c.word = "nodes"
           \/ /\ c.word \in { "on", "off", "cycle", "status" } /\ c.word \in DeviceWords
              /\ c.hosts = << c.hosts[1] >> /\ c.hosts \in Seq(STRING) /\ c.hosts # << >>
<1>1. CASE c = [ word |-> "nodes", hosts |-> << >> ]
    BY <1>1
<1>2. CASE /\ c.word \in { "on", "off", "cycle", "status" } /\ c.hosts[1] \in STRING
           /\ c = [ word |-> c.word, hosts |-> << c.hosts[1] >> ]
    <2>. DEFINE h == c.hosts[1]
    <2>1. h \in STRING /\ c = [ word |-> c.word, hosts |-> << h >> ]
        BY <1>2
    <2>. HIDE DEF h
    <2>2. c.hosts = << h >>
        BY <2>1
    <2>3. << h >> \in Seq(STRING) /\ << h >> # << >>
        BY <2>1
    <2>. QED  BY <1>2, <2>2, <2>3 DEF DeviceWords, h
<1>. QED  BY <1>1, <1>2, LibraryAssumption

(* The daemon takes the line of a call.                                    *)
LEMMA MadeIsTaken ==
    ASSUME Piped, Made, interrupts = 0, parse_input, UNCHANGED lib_vars
    PROVE  CallInv' /\ Promised
<1>1. /\ conn = "open" /\ up = << ask >> /\ up' = << >> /\ cmd = NoCmd /\ Flow = << >>
      /\ UNCHANGED << listen_fds, told >> /\ ask \in Asks /\ toggles = { "exprange" } /\ Unserved /\ Head(up) = ask
    BY DEF Made, parse_input, Unserved, Calling, Ready
<1>2. UNCHANGED << pc, buf, ask, got, calls, interrupts, before >>
    BY DEF lib_vars
<1>3. \/ ask.word = "nodes" /\ query_nodes_reply(ask) /\ UNCHANGED toggles
      \/ ask.word \in DeviceWords /\ create_command(ask) /\ UNCHANGED toggles
    <2>1. CASE ask.word = "nodes"
        BY <1>1, <2>1 DEF parse_input, DeviceWords
    <2>2. CASE ask.word \in { "on", "off", "cycle", "status" }
        <3>1. ask.hosts # << >>
            BY <1>1, <2>2, AskIs
        <3>. QED  BY <1>1, <2>2, <3>1 DEF parse_input
    <2>. QED  BY <1>1, <2>1, <2>2, AskIs
<1>4. CASE ask.word = "nodes" /\ query_nodes_reply(ask) /\ UNCHANGED toggles
    <2>. DEFINE s == names(ConfNodes) \o Plain(103)
                o == [ line |-> ask, code |-> 103, args |-> << >> ]
    <2>1. /\ to' = (to \o s) \o << Prompt >> /\ served' = Served(ask, s[Len(s)].code, << >>)
          /\ UNCHANGED << conn, down, cmd >>
        BY <1>1, <1>4 DEF query_nodes_reply, Answers
    <2>2. o.code = 103 /\ o.line = ask
        OBVIOUS
    <2>. HIDE DEF o
    <2>3. IsSeq(s) /\ Answer(s, ask, o) /\ s[Len(s)].code = 103
        BY <1>4, <2>2, NodesAnswer
    <2>. HIDE DEF s
    <2>4. served' = Append(served, o)
        BY <2>1, <2>3 DEF Served, o
    <2>5. Flow' = s \o << Prompt >> /\ IsSeq(down') /\ IsSeq(to')
        BY <1>1, <1>2, <2>1, <2>3, SaysAtOnce
    <2>. QED  BY <1>1, <1>4, <2>1, <2>2, <2>3, <2>4, <2>5, CallIsTold
<1>5. CASE ask.word \in DeviceWords /\ create_command(ask) /\ UNCHANGED toggles
    <2>. DEFINE hl      == validated(ask)
                bad     == bad_hosts(ConfNodes, hl)
                r       == IF bad # << >> THEN Resp(209, bad, "") ELSE Resp(213, << >>, "")
                code    == IF bad # << >> THEN 209 ELSE 213
                Queued  ==
                    /\ \E n \in 1..MaxActions :
                          cmd' = [ line |-> ask, args |-> hl, pending |-> n, error |-> FALSE ]
                    /\ to' = to \o prompts(TRUE) /\ UNCHANGED served
                Refuses ==
                    /\ to' = (to \o << r >>) \o prompts(FALSE)
                    /\ served' = Served(ask, r.code, << >>)
                    /\ UNCHANGED cmd
    <2>1. (Queued \/ Refuses) /\ UNCHANGED << conn, down >>
        BY <1>5, Zenon DEF create_command
    <2>2. hl \in Seq(STRING)
        <3>1. ask.hosts \in Seq(STRING)
            BY <1>1, <1>5, AskIs DEF DeviceWords
        <3>. QED  BY <3>1, HostsAreValid
    <2>. HIDE DEF hl, bad
    <2>3. CASE Queued
        <3>1. prompts(TRUE) = << >>
            BY DEF prompts
        <3>2. PICK n \in 1..MaxActions : cmd' = [ line |-> ask, args |-> hl, pending |-> n, error |-> FALSE ]
            BY <2>3
        <3>3. buf = << >> /\ down = << >> /\ to = << >> /\ IsSeq(<< >>) /\ << >> \o << >> = << >>
            BY <1>1, NothingFlows, ShortSeqs, JoinsNone
        <3>4. to' = << >> /\ down' = << >> /\ buf' = << >> /\ served' = served
            BY <1>2, <2>1, <2>3, <3>1, <3>3
        <3>5. Flow' = << >>
            BY <3>3, <3>4 DEF Flow
        <3>6. OnlyErrors(Flow')
            BY <3>5, ShortSeqs DEF OnlyErrors
        <3>7. /\ cmd'.line = ask /\ cmd'.args = hl
              /\ cmd' = [ line |-> cmd'.line, args |-> cmd'.args, pending |-> cmd'.pending, error |-> cmd'.error ]
            BY <3>2
        <3>8. cmd' # NoCmd
            <4>1. NoCmd.line.word = ""
                BY DEF NoCmd, Line
            <4>2. cmd'.line.word # ""
                BY <1>5, <3>7 DEF DeviceWords
            <4>. QED  BY <4>1, <4>2
        <3>9. Unserved'
            BY <1>1, <1>2, <1>5, <2>1, <3>4 DEF Unserved, Calling, Ready, Linked
        <3>10. Underway'
            BY <1>1, <1>2, <1>5, <2>1, <2>2, <3>6, <3>7, <3>8, <3>9 DEF Underway
        <3>11. Piped'
            BY <1>1, <2>1, <3>3, <3>4 DEF Piped
        <3>12. Promised
            BY <1>2, <3>4, StaysPromised
        <3>. QED  BY <3>10, <3>11, <3>12 DEF CallInv, InCall
    <2>4. CASE Refuses
        <3>. DEFINE o == [ line |-> ask, code |-> code, args |-> << >> ]
        <3>1. r.code = code
            BY DEF Resp
        <3>2. code \in 200..299
            OBVIOUS
        <3>3. o.line = ask /\ o.code = code
            OBVIOUS
        <3>4. prompts(FALSE) = << Prompt >>
            BY DEF prompts
        <3>. HIDE DEF r, code, o
        <3>5. IsSeq(<< r >>) /\ Answer(<< r >>, ask, o)
            BY <3>1, <3>2, <3>3, ErrorAnswers
        <3>6. served' = Append(served, o)
            BY <2>4, <3>1 DEF Served, o
        <3>7. to' = (to \o << r >>) \o << Prompt >>
            BY <2>4, <3>4
        <3>8. Flow' = << r >> \o << Prompt >> /\ IsSeq(down') /\ IsSeq(to')
            BY <1>1, <1>2, <2>1, <3>5, <3>7, SaysAtOnce
        <3>. QED  BY <1>1, <1>5, <2>1, <2>4, <3>3, <3>5, <3>6, <3>8, CallIsTold
    <2>. QED  BY <2>1, <2>3, <2>4
<1>. QED  BY <1>3, <1>4, <1>5

(* The daemon takes a line.                                                *)
LEMMA LineKeeps ==
    ASSUME CallInv, interrupts = 0, parse_input, UNCHANGED lib_vars
    PROVE  CallInv' /\ Promised
<1>1. CASE pc \in { "quit", "end" }
    BY <1>1, LeftStays
<1>2. CASE pc \notin { "quit", "end" }
    <2>1. Piped /\ (Negotiates \/ Made) /\ up # << >> /\ conn = "open"
        BY <1>2 DEF CallInv, parse_input, NotCalled, Greeting, Between, InCall, Underway, Broken, Told, Quiet
    <2>2. CASE Made
        BY <2>1, <2>2, MadeIsTaken
    <2>3. CASE Negotiates
        <3>1. up = << Ranges >> /\ Flow = << >> /\ toggles = {} /\ cmd = NoCmd /\ pc = "exprange" /\ calls = 0
            BY <2>1, <2>3 DEF Negotiates
        <3>2. UNCHANGED << pc, buf, ask, got, calls, interrupts, before >>
            BY DEF lib_vars
        <3>3. Head(up) = Ranges /\ Tail(up) = << >> /\ Ranges.word = "exprange"
            BY <3>1 DEF Ranges, Line
        <3>4. up' = << >> /\ toggle(Ranges, 105)
            BY <3>1, <3>3 DEF parse_input, DeviceWords
        <3>. DEFINE p == Plain(105)
        <3>5. /\ toggles' = { "exprange" } /\ to' = (to \o p) \o << Prompt >>
              /\ served' = Append(served, [ line |-> Ranges, code |-> p[Len(p)].code, args |-> << >> ])
              /\ UNCHANGED << conn, down, cmd >>
            BY <3>1, <3>3, <3>4 DEF toggle, Answers, Served
        <3>6. Body(p) /\ IsSeq(p)
            <4>. DEFINE r == Resp(105, << >>, "")
            <4>1. r # Prompt
                <5>1. r.code = 105 /\ Prompt.code = 0
                    BY DEF Prompt, Resp
                <5>. HIDE DEF r
                <5>2. 105 # 0
                    OBVIOUS
                <5>. QED  BY <5>1, <5>2, Zenon
            <4>. HIDE DEF r
            <4>2. IsSeq(<< r >>) /\ Len(<< r >>) = 1 /\ << r >>[1] = r
                BY ShortSeqs
            <4>3. Body(<< r >>)
                BY <4>1, <4>2 DEF Body
            <4>. QED  BY <4>2, <4>3 DEF Plain, r
        <3>. HIDE DEF p
        <3>7. Flow' = p \o << Prompt >> /\ IsSeq(down') /\ IsSeq(to') /\ IsSeq(p \o << Prompt >>)
            BY <2>1, <3>1, <3>2, <3>5, <3>6, SaysAtOnce, WithLast
        <3>8. Brings(p)'
            BY <3>6, <3>7, BeginsAsItself DEF Brings
        <3>9. IsSeq(served')
            BY <2>1, <3>5, Lengthens DEF Piped
        <3>10. Piped'
            BY <2>1, <3>2, <3>5, <3>7, <3>9 DEF Piped
        <3>11. Negotiates'
            BY <2>1, <2>3, <3>1, <3>2, <3>4, <3>5, <3>8 DEF Negotiates, Linked, p
        <3>12. Promised
            BY <3>1, <3>2, StaysPromised
        <3>. QED  BY <3>10, <3>11, <3>12 DEF CallInv
    <2>. QED  BY <2>1, <2>2, <2>3
<1>. QED  BY <1>1, <1>2


(* An element of a sequence.                                               *)
Holds(s, x) == \E i \in 1..Len(s) : s[i] = x

(* It is in one part or in the other.                                      *)
LEMMA HeldByPart ==
    ASSUME NEW u, NEW v, IsSeq(u), IsSeq(v)
    PROVE  IsSeq(u \o v) /\ \A x : Holds(u \o v, x) <=> Holds(u, x) \/ Holds(v, x)
<1>. DEFINE n == Len(u)
            m == Len(v)
            w == u \o v
<1>1. /\ IsSeq(w) /\ n \in Nat /\ m \in Nat /\ Len(w) = n + m
      /\ \A i \in 1..n : w[i] = u[i]
      /\ \A j \in 1..m : w[n + j] = v[j]
    BY Joins
<1>. HIDE DEF w, n, m
<1>2. ASSUME NEW x, NEW i \in 1..n, u[i] = x
      PROVE  Holds(w, x)
    <2>1. i \in 1..Len(w)
        BY <1>1
    <2>. QED  BY <1>1, <1>2, <2>1 DEF Holds
<1>3. ASSUME NEW x, NEW j \in 1..m, v[j] = x
      PROVE  Holds(w, x)
    <2>1. n + j \in 1..Len(w)
        BY <1>1
    <2>. QED  BY <1>1, <1>3, <2>1 DEF Holds
<1>4. ASSUME NEW x, NEW i \in 1..n + m, w[i] = x
      PROVE  Holds(u, x) \/ Holds(v, x)
    <2>1. CASE i \in 1..n
        BY <1>1, <1>4, <2>1 DEF Holds, n
    <2>2. CASE i \notin 1..n
        <3>. DEFINE j == i - n
        <3>1. j \in 1..m /\ n + j = i
            BY <1>1, <2>2
        <3>. HIDE DEF j
        <3>2. v[j] = x
            BY <1>1, <1>4, <3>1
        <3>. QED  BY <3>1, <3>2 DEF Holds, m
    <2>. QED  BY <2>1, <2>2
<1>5. ASSUME NEW x
      PROVE  Holds(w, x) <=> Holds(u, x) \/ Holds(v, x)
    <2>1. Holds(w, x) => Holds(u, x) \/ Holds(v, x)
        BY <1>1, <1>4 DEF Holds
    <2>2. Holds(u, x) => Holds(w, x)
        BY <1>2 DEF Holds, n
    <2>3. Holds(v, x) => Holds(w, x)
        BY <1>3 DEF Holds, m
    <2>. QED  BY <2>1, <2>2, <2>3
<1>. QED  BY <1>1, <1>5 DEF w

(* What no end is in, and a code after it.                                 *)
LEMMA CodeCloses ==
    ASSUME NEW v, IsSeq(v), \A x : Holds(v, x) => x.code \in Int /\ x.code > 299, NEW p
    PROVE  IsSeq(v \o << p >>) /\ ClosesWith(v \o << p >>, p.code)
<1>. DEFINE m == Len(v)
            s == v \o << p >>
<1>1. IsSeq(s) /\ m \in Nat /\ Len(s) = m + 1 /\ s[m + 1] = p /\ \A i \in 1..m : s[i] = v[i]
    BY WithLast
<1>2. \A i \in 1..m : v[i].code \in Int /\ v[i].code > 299
    BY DEF Holds
<1>. HIDE DEF s, m
<1>3. ClosesWith(s, p.code)
    BY <1>1, <1>2 DEF ClosesWith
<1>. QED  BY <1>1, <1>3 DEF s

(* What errors hold.                                                       *)
LEMMA ErrorsHold ==
    ASSUME NEW u, OnlyErrors(u)
    PROVE  \A x : Holds(u, x) => x.code = 308
BY DEF Holds, OnlyErrors

(* The state of each host, in a line for each.                             *)
StateOf(h, on, off) == IF h \in on THEN "on" ELSE IF h \in off THEN "off" ELSE "unknown"
EachState(args, on, off) == [ i \in DOMAIN args |-> Resp(303, << args[i] >>, StateOf(args[i], on, off)) ]
Outcomes(args, on, off) == [ i \in DOMAIN args |-> << args[i], StateOf(args[i], on, off) >> ]

(* The lines hold what the outcome tells.                                  *)
LEMMA StatesAreTold ==
    ASSUME NEW args \in Seq(STRING), NEW on, NEW off
    PROVE  LET each == EachState(args, on, off)
               told_ == Outcomes(args, on, off)
           IN  /\ IsSeq(each) /\ \A x : Holds(each, x) => x.code = 303
               /\ \A h, state : Holds(each, Resp(303, << h >>, state))
                                  <=> \E i \in DOMAIN told_ : told_[i] = << h, state >>
<1>. DEFINE n == Len(args)
            each == EachState(args, on, off)
            told_ == Outcomes(args, on, off)
            st(i) == StateOf(args[i], on, off)
<1>1. n \in Nat /\ DOMAIN args = 1..n
    OBVIOUS
<1>2. /\ each = [ i \in 1..n |-> each[i] ] /\ DOMAIN told_ = 1..n
      /\ \A i \in 1..n : each[i] = Resp(303, << args[i] >>, st(i)) /\ told_[i] = << args[i], st(i) >>
    BY <1>1, Zenon DEF EachState, Outcomes
<1>. HIDE DEF n, each, told_, st
<1>3. IsSeq(each) /\ Len(each) = n
    BY <1>1, <1>2, ListIs
<1>4. \A i \in 1..n : each[i].code = 303
    BY <1>2 DEF Resp
<1>5. ASSUME NEW a, NEW b, NEW x, NEW y
      PROVE  Resp(303, << a >>, b) = Resp(303, << x >>, y) <=> << a, b >> = << x, y >>
    <2>1. Resp(303, << a >>, b) = Resp(303, << x >>, y) => << a >> = << x >> /\ b = y
        BY DEF Resp
    <2>2. << a >> = << x >> => a = x
        BY ShortSeqs
    <2>3. << a, b >> = << x, y >> => a = x /\ b = y
        OBVIOUS
    <2>. QED  BY <2>1, <2>2, <2>3
<1>6. ASSUME NEW h, NEW state
      PROVE  Holds(each, Resp(303, << h >>, state)) <=> \E i \in DOMAIN told_ : told_[i] = << h, state >>
    <2>1. ASSUME NEW i \in 1..n
          PROVE  each[i] = Resp(303, << h >>, state) <=> told_[i] = << h, state >>
        <3>1. each[i] = Resp(303, << args[i] >>, st(i)) /\ told_[i] = << args[i], st(i) >>
            BY <1>2
        <3>2. Resp(303, << args[i] >>, st(i)) = Resp(303, << h >>, state) <=> << args[i], st(i) >> = << h, state >>
            BY <1>5
        <3>. QED  BY <3>1, <3>2, Zenon
    <2>2. Holds(each, Resp(303, << h >>, state)) <=> \E i \in 1..n : each[i] = Resp(303, << h >>, state)
        BY <1>3 DEF Holds
    <2>3. DOMAIN told_ = 1..n
        BY <1>2
    <2>. QED  BY <2>1, <2>2, <2>3, Zenon
<1>7. \A x : Holds(each, x) => x.code = 303
    BY <1>3, <1>4 DEF Holds
<1>. QED  BY <1>3, <1>6, <1>7 DEF each, told_


(* The answer to a command that is done and shows nothing.                 *)
LEMMA DoneAnswers ==
    ASSUME NEW u, IsSeq(u), OnlyErrors(u), NEW line, line.word \in { "on", "off", "cycle" },
           NEW code, code \in { 102, 210 }, NEW o, o.code = code
    PROVE  IsSeq(Plain(code)) /\ IsSeq(u \o Plain(code)) /\ Answer(u \o Plain(code), line, o)
<1>. DEFINE p == Resp(code, << >>, "")
            s == u \o << p >>
<1>1. p.code = code
    BY DEF Resp
<1>2. Plain(code) = << p >>
    BY DEF Plain
<1>. HIDE DEF p
<1>3. \A x : Holds(u, x) => x.code \in Int /\ x.code > 299
    <2>1. 308 \in Int /\ 308 > 299
        OBVIOUS
    <2>2. \A x : Holds(u, x) => x.code = 308
        BY ErrorsHold
    <2>. QED  BY <2>1, <2>2
<1>4. IsSeq(s) /\ ClosesWith(s, o.code)
    BY <1>1, <1>3, CodeCloses
<1>5. o.code \in 100..299
    OBVIOUS
<1>6. line.word # "status" /\ line.word # "nodes"
    OBVIOUS
<1>7. IsSeq(<< p >>)
    BY ShortSeqs
<1>. HIDE DEF s
<1>8. Answer(s, line, o)
    BY <1>4, <1>5, <1>6 DEF Answer
<1>. QED  BY <1>2, <1>4, <1>7, <1>8 DEF s

(* The answer to a status command.                                         *)
LEMMA StatusAnswers ==
    ASSUME NEW u, IsSeq(u), OnlyErrors(u), NEW line, line.word = "status", NEW h, line.hosts = << h >>,
           NEW args \in Seq(STRING), NEW on, NEW off,
           NEW code, code \in { 103, 211 }, NEW o, o.code = code, o.args = Outcomes(args, on, off)
    PROVE  LET r == EachState(args, on, off) \o Plain(code)
           IN  IsSeq(r) /\ IsSeq(u \o r) /\ Answer(u \o r, line, o)
<1>. DEFINE p == Resp(code, << >>, "")
            each == EachState(args, on, off)
            all == Outcomes(args, on, off)
            v == u \o each
            r == each \o << p >>
            s == v \o << p >>
<1>1. p.code = code /\ Plain(code) = << p >>
    BY DEF Resp, Plain
<1>. HIDE DEF p
<1>2. /\ IsSeq(each) /\ \A x : Holds(each, x) => x.code = 303
      /\ \A state : Holds(each, Resp(303, << h >>, state)) <=> \E i \in DOMAIN all : all[i] = << h, state >>
    BY StatesAreTold
<1>3. \A x : Holds(u, x) => x.code = 308
    BY ErrorsHold
<1>4. o.args = all
    OBVIOUS
<1>. HIDE DEF each, all
<1>5. IsSeq(v) /\ \A x : Holds(v, x) <=> Holds(u, x) \/ Holds(each, x)
    BY <1>2, HeldByPart
<1>. HIDE DEF v
<1>6. \A x : Holds(v, x) => x.code \in Int /\ x.code > 299
    <2>1. 303 \in Int /\ 303 > 299 /\ 308 \in Int /\ 308 > 299
        OBVIOUS
    <2>2. \A x : Holds(v, x) => x.code = 303 \/ x.code = 308
        BY <1>2, <1>3, <1>5
    <2>. QED  BY <2>1, <2>2
<1>7. IsSeq(s) /\ ClosesWith(s, o.code)
    BY <1>1, <1>5, <1>6, CodeCloses
<1>8. IsSeq(<< p >>) /\ Len(<< p >>) = 1 /\ << p >>[1] = p
    BY ShortSeqs
<1>9. s = u \o r
    BY <1>2, <1>8, Regroup DEF v
<1>10. IsSeq(r)
    BY <1>2, <1>8, Joins
<1>11. \A x : Holds(s, x) <=> Holds(u, x) \/ Holds(each, x) \/ x = p
    <2>1. \A x : Holds(s, x) <=> Holds(v, x) \/ Holds(<< p >>, x)
        BY <1>5, <1>8, HeldByPart
    <2>2. \A x : Holds(<< p >>, x) <=> x = p
        <3>. DEFINE t == << p >>
        <3>1. Len(t) = 1 /\ t[1] = p
            BY <1>8
        <3>. HIDE DEF t
        <3>2. \A i \in 1..Len(t) : i = 1
            BY <3>1
        <3>3. 1 \in 1..Len(t)
            BY <3>1
        <3>4. \A x : Holds(t, x) <=> x = p
            BY <3>1, <3>2, <3>3 DEF Holds
        <3>. QED  BY <3>4 DEF t
    <2>. QED  BY <1>5, <2>1, <2>2
<1>. HIDE DEF r, s
<1>12. \A state : Holds(s, Resp(303, << h >>, state)) <=> \E i \in DOMAIN all : all[i] = << h, state >>
    <2>1. ASSUME NEW state
          PROVE  ~Holds(u, Resp(303, << h >>, state)) /\ Resp(303, << h >>, state) # p
        <3>. DEFINE x == Resp(303, << h >>, state)
        <3>1. x.code = 303
            BY DEF Resp
        <3>. HIDE DEF x
        <3>2. 303 # 308 /\ 303 # code
            OBVIOUS
        <3>3. ~Holds(u, x) /\ x # p
            BY <1>1, <1>3, <3>1, <3>2
        <3>. QED  BY <3>3 DEF x
    <2>. QED  BY <1>2, <1>11, <2>1
<1>13. \A state : Shows(s, line, state) <=> Reports(o.args, line, state)
    <2>1. line.hosts[1] = h
        BY ShortSeqs
    <2>2. \A state : Shows(s, line, state) <=> Holds(s, Resp(303, << h >>, state))
        BY DEF Shows, Holds
    <2>3. \A state : Reports(o.args, line, state) <=> \E i \in DOMAIN all : all[i] = << h, state >>
        BY <1>4, <2>1 DEF Reports
    <2>. QED  BY <1>12, <2>2, <2>3, Zenon
<1>14. ~(Reports(o.args, line, "on") /\ Reports(o.args, line, "off"))
    <2>1. \A i \in DOMAIN all : all[i] = << args[i], StateOf(args[i], on, off) >>
        BY DEF all, Outcomes
    <2>2. line.hosts[1] = h
        BY ShortSeqs
    <2>3. \A state : Reports(o.args, line, state) => StateOf(h, on, off) = state
        <3>1. \A a, b, x, y : << a, b >> = << x, y >> => a = x /\ b = y
            OBVIOUS
        <3>2. ASSUME NEW state, Reports(o.args, line, state)
              PROVE  StateOf(h, on, off) = state
            <4>1. PICK i \in DOMAIN all : all[i] = << h, state >>
                BY <1>4, <2>2, <3>2 DEF Reports
            <4>2. << args[i], StateOf(args[i], on, off) >> = << h, state >>
                BY <2>1, <4>1
            <4>3. args[i] = h /\ StateOf(args[i], on, off) = state
                BY <3>1, <4>2, Zenon
            <4>. QED  BY <4>3
        <3>. QED  BY <3>2
    <2>. QED  BY <2>3
<1>15. o.code \in 100..299
    OBVIOUS
<1>16. line.word # "nodes"
    OBVIOUS
<1>17. Answer(s, line, o)
    BY <1>7, <1>13, <1>14, <1>15, <1>16 DEF Answer
<1>18. IsSeq(u \o r)
    BY <1>7, <1>9
<1>. QED  BY <1>1, <1>9, <1>10, <1>17, <1>18 DEF r, each


(* The answer to a call whose actions are over.                            *)
LEMMA ReplyAnswers ==
    ASSUME NEW u, IsSeq(u), OnlyErrors(u), NEW c, c.line \in Asks, c.line.word \in DeviceWords,
           c.args \in Seq(STRING), toggles = { "exprange" }, NEW on, NEW off,
           NEW o, o.code = code_of(c), o.args = Outcomes(c.args, on, off)
    PROVE  LET r == replied(c, on, off) IN IsSeq(r) /\ IsSeq(u \o r) /\ Answer(u \o r, c.line, o)
<1>1. /\ c.line.word \in { "on", "off", "cycle", "status" }
      /\ c.line.hosts = << c.line.hosts[1] >>
    BY AskIs DEF DeviceWords
<1>2. CASE c.line.word \in { "on", "off", "cycle" }
    <2>. DEFINE code == IF c.error THEN 210 ELSE 102
    <2>1. replied(c, on, off) = Plain(code)
        BY <1>2, Zenon DEF replied
    <2>2. o.code = code
        BY <1>2 DEF code_of, AllWords
    <2>3. code \in { 102, 210 }
        OBVIOUS
    <2>. HIDE DEF code
    <2>. QED  BY <1>2, <2>1, <2>2, <2>3, DoneAnswers
<1>3. CASE c.line.word = "status"
    <2>. DEFINE code == IF c.error THEN 211 ELSE 103
    <2>1. replied(c, on, off) = EachState(c.args, on, off) \o Plain(code)
        <3>1. replied(c, on, off) = status_reply(c.args, on, off) \o Plain(code)
            BY <1>3, Zenon DEF replied
        <3>2. status_reply(c.args, on, off) = EachState(c.args, on, off)
            <4>1. "exprange" \in toggles
                OBVIOUS
            <4>. QED  BY <4>1, Zenon DEF status_reply, EachState, StateOf
        <3>. QED  BY <3>1, <3>2
    <2>2. o.code = code
        BY <1>3 DEF code_of, AllWords
    <2>3. code \in { 103, 211 }
        OBVIOUS
    <2>. HIDE DEF code
    <2>. QED  BY <1>1, <1>3, <2>1, <2>2, <2>3, StatusAnswers
<1>. QED  BY <1>1, <1>2, <1>3

(* An action of the call ends while others go on, or it was the last.      *)
LEMMA UnderwayKeeps ==
    ASSUME Piped, Underway, interrupts = 0, act_finish, UNCHANGED lib_vars
    PROVE  CallInv' /\ Promised
<1>1. /\ cmd # NoCmd /\ cmd.line = ask /\ ask \in Asks /\ ask.word \in DeviceWords /\ cmd.args \in Seq(STRING)
      /\ toggles = { "exprange" } /\ conn = "open" /\ up = << >> /\ Unserved /\ OnlyErrors(Flow)
    BY DEF Underway, Unserved, Calling, Ready
<1>2. /\ UNCHANGED << conn, up, down, toggles >>
      /\ UNCHANGED << pc, buf, ask, got, calls, interrupts, before >>
    BY DEF act_finish, lib_vars
<1>3. PICK failed \in BOOLEAN :
         LET c     == [ cmd EXCEPT !.pending = @ - 1, !.error = @ \/ failed ]
             error == IF failed THEN Plain(308) ELSE << >>
         IN  \/ /\ c.pending > 0 /\ cmd' = c /\ to' = to \o error
                /\ UNCHANGED served
             \/ /\ c.pending = 0 /\ cmd' = NoCmd
                /\ \E on \in SUBSET ToSet(c.args) : \E off \in SUBSET (ToSet(c.args) \ on) :
                     /\ c.line.word \notin AllWords => on = {}
                     /\ c.line.word \notin { "status", "beacon" } => off = {}
                     /\ to' = ((to \o error) \o replied(c, on, off)) \o << Prompt >>
                     /\ served' = Served(c.line, IF c.error THEN (IF c.line.word \in AllWords THEN 211 ELSE 210)
                                                 ELSE IF c.line.word \in AllWords THEN 103 ELSE 102,
                                         [ i \in DOMAIN c.args |-> << c.args[i],
                                             IF c.args[i] \in on THEN "on" ELSE IF c.args[i] \in off THEN "off"
                                             ELSE "unknown" >> ])
    BY DEF act_finish
<1>. DEFINE c     == [ cmd EXCEPT !.pending = @ - 1, !.error = @ \/ failed ]
            error == IF failed THEN Plain(308) ELSE << >>
            front == buf \o down
            heard == Flow \o error
<1>4. /\ c.line = cmd.line /\ c.args = cmd.args
      /\ c = [ line |-> c.line, args |-> c.args, pending |-> c.pending, error |-> c.error ]
    <2>0. \E l, a, p, e : cmd = [ line |-> l, args |-> a, pending |-> p, error |-> e ]
        BY DEF Underway
    <2>1. PICK l, a, p, e : cmd = [ line |-> l, args |-> a, pending |-> p, error |-> e ]
        BY <2>0
    <2>2. ASSUME NEW y, NEW x
          PROVE  /\ [ [ line |-> l, args |-> a, pending |-> y, error |-> e ] EXCEPT !.pending = x ]
                      = [ line |-> l, args |-> a, pending |-> x, error |-> e ]
                 /\ [ [ line |-> l, args |-> a, pending |-> y, error |-> e ] EXCEPT !.error = x ]
                      = [ line |-> l, args |-> a, pending |-> y, error |-> x ]
        OBVIOUS
    <2>. DEFINE q == cmd.pending - 1
                f == cmd.error \/ failed
    <2>3. c = [ cmd EXCEPT !.pending = q, !.error = f ]
        BY Zenon
    <2>. HIDE DEF c, q, f
    <2>4. c = [ [ cmd EXCEPT !.pending = q ] EXCEPT !.error = f ]
        BY <2>3, Zenon
    <2>5. [ cmd EXCEPT !.pending = q ] = [ line |-> l, args |-> a, pending |-> q, error |-> e ]
        BY <2>1, <2>2, Zenon
    <2>6. c = [ line |-> l, args |-> a, pending |-> q, error |-> f ]
        BY <2>2, <2>4, <2>5, Zenon
    <2>. QED  BY <2>1, <2>6
<1>. HIDE DEF c
<1>5. IsSeq(buf) /\ IsSeq(down) /\ IsSeq(to) /\ IsSeq(front) /\ IsSeq(Flow) /\ IsSeq(served)
    BY FlowIs DEF Piped
<1>6. IsSeq(error) /\ IsSeq(heard) /\ OnlyErrors(heard)
    BY <1>1, <1>5, ErrorsFollow
<1>. HIDE DEF error
<1>7. heard = front \o (to \o error) /\ IsSeq(to \o error)
    <2>1. IsSeq(front) /\ IsSeq(to) /\ IsSeq(error)
        BY <1>5, <1>6
    <2>2. Flow = front \o to
        BY DEF Flow
    <2>. HIDE DEF front
    <2>3. front \o (to \o error) = (front \o to) \o error
        BY <2>1, Regroup
    <2>4. IsSeq(to \o error)
        BY <2>1, Joins
    <2>. QED  BY <2>2, <2>3, <2>4
<1>8. Flow' = front \o to'
    BY <1>2 DEF Flow
<1>9. CASE cmd' = c /\ to' = to \o error /\ UNCHANGED served
    <2>1. Flow' = heard /\ Piped'
        BY <1>1, <1>2, <1>5, <1>7, <1>8, <1>9 DEF Piped
    <2>. HIDE DEF heard, front
    <2>2. cmd' # NoCmd
        <3>1. NoCmd.line.word = ""
            BY DEF NoCmd, Line
        <3>2. cmd'.line.word # ""
            BY <1>1, <1>4, <1>9 DEF DeviceWords
        <3>. QED  BY <3>1, <3>2
    <2>3. Unserved'
        BY <1>1, <1>2, <1>9 DEF Unserved, Calling, Ready, Linked
    <2>4. Underway'
        BY <1>1, <1>2, <1>4, <1>6, <1>9, <2>1, <2>2, <2>3 DEF Underway
    <2>5. Promised
        BY <1>2, <1>9, StaysPromised
    <2>. QED  BY <2>1, <2>4, <2>5 DEF CallInv, InCall
<1>10. ASSUME NEW on, NEW off, cmd' = NoCmd,
              to' = ((to \o error) \o replied(c, on, off)) \o << Prompt >>,
              served' = Served(c.line, code_of(c), Outcomes(c.args, on, off))
       PROVE  CallInv' /\ Promised
    <2>. DEFINE r == replied(c, on, off)
                s == heard \o r
                o == [ line |-> c.line, code |-> code_of(c), args |-> Outcomes(c.args, on, off) ]
                x == to \o error
    <2>1. served' = Append(served, o) /\ o.line = ask /\ o.code = code_of(c) /\ o.args = Outcomes(c.args, on, off)
        BY <1>1, <1>4, <1>10 DEF Served
    <2>. HIDE DEF o, heard, front
    <2>2. IsSeq(r) /\ IsSeq(s) /\ Answer(s, ask, o)
        <3>1. c.line = ask /\ c.args \in Seq(STRING)
            BY <1>1, <1>4
        <3>. QED  BY <1>1, <1>6, <2>1, <3>1, ReplyAnswers
    <2>. HIDE DEF r
    <2>3. IsSeq(x)
        BY <1>7
    <2>4. heard = front \o x
        BY <1>7
    <2>5. to' = (x \o r) \o << Prompt >>
        BY <1>10 DEF r
    <2>. HIDE DEF x
    <2>6. IsSeq(x \o r) /\ IsSeq((x \o r) \o << Prompt >>) /\ IsSeq(<< Prompt >>)
        BY <2>2, <2>3, ShortSeqs, Joins
    <2>7. front \o ((x \o r) \o << Prompt >>) = (front \o (x \o r)) \o << Prompt >>
        <3>1. IsSeq(front) /\ IsSeq(x \o r) /\ IsSeq(<< Prompt >>)
            BY <1>5, <2>6
        <3>. QED  BY <3>1, Regroup
    <2>8. front \o (x \o r) = (front \o x) \o r
        <3>1. IsSeq(front) /\ IsSeq(x) /\ IsSeq(r)
            BY <1>5, <2>2, <2>3
        <3>. QED  BY <3>1, Regroup
    <2>9. Flow' = s \o << Prompt >>
        BY <1>8, <2>4, <2>5, <2>7, <2>8
    <2>10. IsSeq(down') /\ IsSeq(to') /\ up' = << >> /\ UNCHANGED << conn, toggles >>
        BY <1>1, <1>2, <1>5, <2>5, <2>6
    <2>. HIDE DEF s
    <2>. QED  BY <1>1, <1>10, <2>1, <2>2, <2>9, <2>10, CallIsTold
<1>11. CASE /\ cmd' = NoCmd
            /\ \E on \in SUBSET ToSet(c.args) : \E off \in SUBSET (ToSet(c.args) \ on) :
                     /\ to' = ((to \o error) \o replied(c, on, off)) \o << Prompt >>
                     /\ served' = Served(c.line, code_of(c), Outcomes(c.args, on, off))
    BY <1>10, <1>11
<1>. QED  BY <1>3, <1>9, <1>11, Zenon DEF c, error, code_of, Outcomes, StateOf

(* An action of the call ends.                                             *)
LEMMA ActionKeeps ==
    ASSUME CallInv, interrupts = 0, act_finish, UNCHANGED lib_vars
    PROVE  CallInv' /\ Promised
<1>1. CASE pc \in { "quit", "end" }
    BY <1>1, LeftStays
<1>2. CASE pc \notin { "quit", "end" }
    <2>1. Piped /\ Underway
        BY <1>2 DEF CallInv, act_finish, NotCalled, Greeting, Negotiates, Between, InCall, Made, Broken, Told, Quiet
    <2>. QED  BY <2>1, UnderwayKeeps
<1>. QED  BY <1>1, <1>2

(* The daemon ends at the line of a call.                                  *)
LEMMA FatalBreaks ==
    ASSUME CallInv, interrupts = 0, lsd_fatal_error, UNCHANGED lib_vars
    PROVE  CallInv' /\ Promised
<1>1. CASE pc \in { "quit", "end" }
    BY <1>1, LeftStays
<1>2. CASE pc \notin { "quit", "end" }
    <2>1. /\ conn = "open" /\ up # << >> /\ Head(up).word \in DeviceWords \cup {"device"}
          /\ up' = Tail(up) /\ conn' = "closed" /\ to' = << >> /\ cmd' = NoCmd
          /\ UNCHANGED << down, served, toggles >>
        BY DEF lsd_fatal_error, Ended
    <2>2. UNCHANGED << pc, buf, ask, got, calls, interrupts, before >>
        BY DEF lib_vars
    <2>3. Piped /\ (Negotiates \/ Made)
        BY <1>2, <2>1 DEF CallInv, NotCalled, Greeting, Between, InCall, Underway, Broken, Told, Quiet
    <2>4. CASE Negotiates
        <3>1. up = << Ranges >>
            BY <2>1, <2>4 DEF Negotiates
        <3>2. Head(up).word = "exprange"
            BY <3>1 DEF Ranges, Line
        <3>. QED  BY <2>1, <3>2 DEF DeviceWords
    <2>5. CASE Made
        <3>1. buf = << >> /\ down = << >> /\ to = << >> /\ IsSeq(<< >>) /\ << >> \o << >> = << >>
            BY <2>3, <2>5, NothingFlows, ShortSeqs, JoinsNone DEF Made
        <3>2. Flow' = << >>
            BY <2>1, <2>2, <3>1 DEF Flow
        <3>3. OnlyErrors(Flow')
            BY <3>2, ShortSeqs DEF OnlyErrors
        <3>4. Unserved'
            BY <2>1, <2>2, <2>5 DEF Made, Unserved, Calling, Ready, Linked
        <3>5. Broken' /\ Piped'
            BY <2>1, <2>2, <2>3, <3>1, <3>3, <3>4 DEF Broken, Piped
        <3>6. Promised
            BY <2>1, <2>2, StaysPromised
        <3>. QED  BY <3>5, <3>6 DEF CallInv, InCall
    <2>. QED  BY <2>3, <2>4, <2>5
<1>. QED  BY <1>1, <1>2

(* A step of the daemon.                                                   *)
LEMMA DaemonKeeps ==
    ASSUME CallInv, interrupts = 0, DaemonNext \/ UNCHANGED session_vars, UNCHANGED lib_vars
    PROVE  CallInv' /\ Promised
<1>1. CASE pc \in { "quit", "end" }
    BY <1>1, LeftStays
<1>2. CASE pc \notin { "quit", "end" }
    <2>1. Piped /\ (toggles = {} \/ toggles = { "exprange" } \/ cmd = NoCmd)
        BY <1>2 DEF CallInv, NotCalled, Greeting, Negotiates, Between, Ready, InCall, Made, Underway, Broken, Told,
               Unserved, Calling
    <2>2. UNCHANGED << pc, ask, got, calls, before, interrupts, buf >>
        BY DEF lib_vars
    <2>3. CASE create_client
        <3>1. UNCHANGED served
            BY <2>3 DEF create_client
        <3>. QED  BY <2>2, <2>3, <3>1, AcceptKeeps, StaysPromised
    <2>4. CASE parse_input
        BY <2>4, LineKeeps
    <2>5. CASE Telemetry
        BY <2>1, <2>5 DEF Telemetry
    <2>6. CASE act_finish
        BY <2>6, ActionKeeps
    <2>7. CASE handle_write \/ listen_client \/ DaemonExits \/ UNCHANGED session_vars
        <3>1. Narrows
            BY <2>1, <2>2, <2>7, LinkNarrows
        <3>2. UNCHANGED served
            BY <3>1 DEF Narrows
        <3>. QED  BY <2>2, <3>1, <3>2, NarrowsKeeps, StaysPromised
    <2>8. CASE lsd_fatal_error
        BY <2>8, FatalBreaks
    <2>. QED  BY <2>3, <2>4, <2>5, <2>6, <2>7, <2>8 DEF DaemonNext
<1>. QED  BY <1>1, <1>2

(* Every step keeps the invariant, and is one of the promise.              *)
LEMMA LibraryKeeps ==
    ASSUME LibraryInv, [LibraryNext]_<< session_vars, lib_vars >>
    PROVE  LibraryInv' /\ Promised /\ (interrupts # 0 => interrupts' # 0)
<1>1. interrupts \in Nat /\ calls \in Nat
    BY DEF LibraryInv
<1>2. interrupts' \in Nat /\ (interrupts # 0 => interrupts' # 0) /\ (interrupts' = interrupts \/ recv_fails)
    <2>1. CASE UNCHANGED lib_vars
        BY <1>1, <2>1 DEF lib_vars
    <2>2. CASE recv_fails
        <3>1. interrupts' = interrupts + 1
            BY <2>2 DEF recv_fails
        <3>. QED  BY <1>1, <2>2, <3>1
    <2>3. CASE pm_connect \/ recv \/ recv_eof \/ pm_disconnect \/ \E line \in Asks : pm_call(line)
        BY <1>1, <2>3 DEF pm_connect, recv, recv_eof, pm_disconnect, pm_call
    <2>. QED  BY <2>1, <2>2, <2>3 DEF LibraryNext, LibraryStep
<1>3. calls' \in Nat
    <2>1. CASE UNCHANGED calls
        BY <1>1, <2>1
    <2>2. CASE \E line \in Asks : pm_call(line)
        <3>1. calls' = calls + 1
            BY <2>2 DEF pm_call
        <3>. QED  BY <1>1, <3>1
    <2>. QED  BY <2>1, <2>2 DEF LibraryNext, LibraryStep, lib_vars, pm_connect, recv, recv_eof, recv_fails, pm_disconnect
<1>4. CASE interrupts' # 0
    <2>1. Promise!Next
        BY <1>4 DEF Promise!Next, Promise!Unsure
    <2>. QED  BY <1>2, <1>3, <1>4, <2>1 DEF LibraryInv, Promised
<1>5. CASE interrupts' = 0
    <2>1. interrupts = 0 /\ CallInv
        BY <1>2, <1>5 DEF LibraryInv
    <2>2. ~recv_fails
        <3>1. interrupts + 1 # 0
            BY <1>1
        <3>. QED  BY <1>5, <3>1 DEF recv_fails
    <2>3. CallInv' /\ Promised
        <3>1. CASE UNCHANGED lib_vars /\ (DaemonNext \/ UNCHANGED session_vars)
            BY <2>1, <3>1, DaemonKeeps
        <3>2. CASE pm_connect
            BY <2>1, <3>2, ConnectKeeps
        <3>3. CASE recv
            BY <2>1, <3>3, RecvKeeps
        <3>4. CASE recv_eof
            BY <2>1, <3>4, EofKeeps
        <3>5. CASE pm_disconnect
            BY <3>5, DisconnectKeeps
        <3>6. CASE \E line \in Asks : pm_call(line)
            BY <1>1, <2>1, <3>6, CallKeeps
        <3>. QED  BY <2>2, <3>1, <3>2, <3>3, <3>4, <3>5, <3>6 DEF LibraryNext, LibraryStep
    <2>. QED  BY <1>2, <1>3, <2>3 DEF LibraryInv
<1>. QED  BY <1>4, <1>5

(* The invariant holds at the start, where nothing is promised.            *)
LEMMA LibraryStarts ==
    ASSUME SessionInit, LibraryInit
    PROVE  LibraryInv /\ Promise!Init
<1>1. /\ conn = "none" /\ up = << >> /\ to = << >> /\ down = << >> /\ toggles = {} /\ cmd = NoCmd /\ served = << >>
      /\ pc = "start" /\ buf = << >> /\ calls = 0 /\ interrupts = 0
    BY DEF SessionInit, LibraryInit
<1>2. IsSeq(<< >>) /\ << >> \o << >> = << >>
    BY ShortSeqs, JoinsNone
<1>3. Flow = << >>
    BY <1>1, <1>2 DEF Flow
<1>4. NotCalled /\ Piped
    BY <1>1, <1>2, <1>3 DEF NotCalled, Piped, Quiet
<1>5. LibraryInv
    BY <1>1, <1>4 DEF LibraryInv, CallInv
<1>6. came_of = << >>
    BY <1>1 DEF came_of
<1>. QED  BY <1>1, <1>5, <1>6 DEF Promise!Init

(* A call of libpowerman returns what the daemon made of that call, which  *)
(* it carried out once, however the response arrives in pieces and         *)
(* whatever the actions of the call do; or an error of its own.            *)
THEOREM CallsAreKept == LibrarySpec => ImplementsCalls
<1>1. SessionInit /\ LibraryInit => LibraryInv /\ Promise!Init
    BY LibraryStarts
<1>2. LibraryInv /\ [LibraryNext]_<< session_vars, lib_vars >>
        => LibraryInv' /\ [Promise!Next /\ (~(interrupts = 0) => ~(interrupts = 0)')]_Promise!calls_vars
    <2>. SUFFICES ASSUME LibraryInv, [LibraryNext]_<< session_vars, lib_vars >>
                  PROVE  LibraryInv' /\ [Promise!Next /\ (~(interrupts = 0) => ~(interrupts = 0)')]_Promise!calls_vars
        OBVIOUS
    <2>1. LibraryInv' /\ Promised /\ (interrupts # 0 => interrupts' # 0)
        BY LibraryKeeps
    <2>. QED  BY <2>1 DEF Promised
<1>. QED  BY <1>1, <1>2, PTL DEF LibrarySpec, ImplementsCalls, Promise!Spec
=============================================================================
